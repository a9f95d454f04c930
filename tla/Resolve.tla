------------------------------ MODULE Resolve ------------------------------
(***************************************************************************)
(* Steps 1 to 8 of Resolver::resolve and the exchange that step 10 ends    *)
(* in, while the configuration is reloaded.                                *)
(*                                                                         *)
(* What a query reads is behind a lock per part (settings, rewrites,       *)
(* clients, safe search, engine, services, private pool, discovered        *)
(* clients), each taken on its own and at its own time, and a reload       *)
(* writes them one by one: every read and every write is a step.  The      *)
(* parts in force are names; the tables of the CONSTANTS say what each     *)
(* holds.  A name of a host is the sequence of its labels.                 *)
(***************************************************************************)
EXTENDS Clients

CONSTANTS
    Tasks, Requests,          \* queries, and what they may ask: [req, proto, who]
    Configs, Boot,            \* configurations: [parts -> names], and the one at the start
    BootTime,
    SettingsOf, RewritesOf, ClientsOf, SafeSearchOf, EngineOf, ServicesOf,
    Catalogue,                \* services::catalogue: the rules of each service
    ProviderRules,            \* Provider::rules
    Nows,                     \* moments of the week: [day, offset]
    UpstreamAnswers,          \* what an upstream may answer: parts of a response
    MaxReloads                \* bound: reloads and changes of the clock

VARIABLES
    live,     \* the parts in force
    target,   \* the configuration that is being installed
    todo,     \* the parts it has still to write
    now,
    changes,  \* reloads and clock changes so far
    q,        \* the queries
    moments   \* history: what was in force while each query was decided

resolveVars == <<runtime, sources, priming, lookups, resolving, live, target, todo, now, changes, q, moments>>

NoVerdict == [reason |-> "NotFilteredNotFound", rules |-> <<>>, rewrites |-> {}]

\* Engine::match_request: an engine is a set of [host, sub, types, client, tag,
\* verdict], at most one of which matches.  Module Engine has its inside.
MatchRequest(engine, host, qtype, names, tags) ==
    LET hits == {e \in engine : /\ IF e.sub THEN IsSuffix(e.host, host) ELSE e.host = host
                                /\ qtype \in e.types
                                /\ e.client = {} \/ e.client \intersect names # {}
                                /\ e.tag = {} \/ e.tag \intersect tags # {}}
    IN IF hits = {} THEN NoVerdict ELSE (CHOOSE e \in hits : TRUE).verdict

(***************************************************************************)
(* What the settings are made of.                                          *)
(***************************************************************************)
\* Weekly::contains, DayRange::contains: half-open; no range is no pause.
ScheduleContains(weekly, t) == \E r \in weekly[t.day] : r.start <= t.offset /\ t.offset < r.end
BlocksAt(weekly, t) == ~ScheduleContains(weekly, t)

\* services::rules_for: unknown services are passed over; no rules, no engine.
ServicesEngine(ids) ==
    LET rules == UNION {Catalogue[id] : id \in ids \intersect DOMAIN Catalogue}
    IN IF rules = {} THEN {} ELSE {rules}

\* safesearch::engine
SafeSearchEngine(cfg) ==
    LET rules == UNION {ProviderRules[p] : p \in cfg.providers}
    IN IF ~cfg.enabled \/ rules = {} THEN {} ELSE {rules}

Registry(name) == [i \in DOMAIN ClientsOf[name] |->
    BuildClient([ClientsOf[name][i] EXCEPT !.services = ServicesEngine(@), !.safe_search = SafeSearchEngine(@)])]

\* Resolver::effective
Effective(set, services, safe, client, t) ==
    LET global == IF BlocksAt(set.schedule, t) THEN services ELSE {}
        own(c) == IF BlocksAt(c.schedule, t) THEN c.services ELSE {}
    IN IF client = {} THEN [filtering |-> set.filtering, services |-> global, safe |-> safe, upstreams |-> <<>>]
       ELSE LET c == CHOOSE x \in client : TRUE
            IN [filtering |-> IF c.use_global_settings THEN set.filtering ELSE c.filtering,
                services |-> IF c.use_global_services THEN global ELSE own(c),
                safe |-> IF c.use_global_settings THEN safe ELSE c.safe_search,
                upstreams |-> c.upstreams]

(***************************************************************************)
(* The steps.  Each yields the set of the decision it makes, {} to go on.  *)
(* A decision is [via, reason, msg, upstreams].                            *)
(***************************************************************************)
Decide(via, reason, msg) == {[via |-> via, reason |-> reason, msg |-> msg, upstreams |-> <<>>]}
Local(reason, m) == Decide("local", reason, {m})

\* BlockedHosts::blocks: any match refuses, that of an exception too.
BlockedHost(set, host, qtype) ==
    host # <<>> /\ MatchRequest(set.blocked_hosts, host, qtype, {}, {}).rules # <<>>

\* Steps 1 to 4.
EarlySteps(set, req, proto) ==
    IF Len(req.questions) # 1 THEN Local("FilteredInvalid", Reply(req, "FORMERR"))
    ELSE IF set.refuse_any /\ QType(req) = "ANY" THEN Local("NotFilteredNotFound", Reply(req, "NOTIMP"))
    ELSE IF BlockedHost(set, QName(req), QType(req))
    THEN IF proto = "udp" THEN Decide("drop", "FilteredBlockList", {})
         ELSE Local("FilteredBlockList", Refused(req))
    ELSE IF set.handle_ddr /\ DdrIsQuery(req) THEN Local("NotFilteredNotFound", DdrRespond(req, set.ddr))
    ELSE {}

\* Rewrite::matches, specificity.
RewriteMatches(r, host) == IF r.wild THEN IsSuffix(r.domain, host) ELSE r.domain = host
MoreSpecific(r, s) == (~r.wild /\ s.wild) \/ (r.wild = s.wild /\ Len(r.domain) > Len(s.domain))

\* Table::build, apply: what the most specific of the enabled rewrites say.
RewriteOutcome(table, host, qtype) ==
    LET enabled == SelectSeq(table, LAMBDA r : r.enabled /\ r.answer # "invalid")
        matched == SelectSeq(enabled, LAMBDA r : RewriteMatches(r, host))
        best == SelectSeq(matched, LAMBDA r : \A s \in Range(matched) : ~MoreSpecific(s, r))
        addrs == SelectSeq(best, LAMBDA r : r.answer = "addr" /\ \A a \in r.addr : a.fam = Family(qtype))
        Is(k, v) == {[kind |-> k, addrs |-> v]}
    IN IF best = <<>> \/ \E r \in Range(best) : r.answer = "cname" /\ r.target = host THEN {}
       ELSE IF \E r \in Range(best) : r.answer = "exclude" /\ r.type = qtype THEN Is("empty", <<>>)
       ELSE IF \E r \in Range(best) : r.answer = "cname" THEN Is("cname", <<>>)
       ELSE IF addrs = <<>> THEN Is("empty", <<>>)
       ELSE Is("addrs", [i \in DOMAIN addrs |-> CHOOSE a \in addrs[i].addr : TRUE])

\* Step 5, apply_rewrites.
RewriteStep(set, table, req) ==
    LET ttl == Max({set.blocking.ttl, 1})
    IN UNION {Local("Rewritten", CASE o.kind = "addrs" -> WithAddrs(req, o.addrs, ttl)
                                   [] o.kind = "cname" -> WithCname(req, ttl)
                                   [] o.kind = "empty" -> NoData(req, ttl)) :
              o \in RewriteOutcome(table, QName(req), QType(req))}

\* apply_dnsrewrite: a response code, a name, addresses of the family, and
\* nothing for other records; {} to go on.
ApplyDnsRewrite(set, req, rewrites) ==
    LET ttl == Max({set.blocking.ttl, 1})
        Of(k) == {r \in rewrites : r.kind = k}
        addrs == UNION {{a \in r.addr : a.fam = Family(QType(req))} : r \in Of("addr")}
        rcode == (CHOOSE r \in Of("rcode") : TRUE).rcode
    IN IF Of("rcode") # {}
       THEN {IF rcode = "NXDOMAIN" THEN NxDomain(req, ttl) ELSE Reply(req, rcode)}
       ELSE IF Of("cname") # {} THEN {WithCname(req, ttl)}
       ELSE IF addrs # {} THEN {WithAddrs(req, SetToSeq(addrs), ttl)}
       ELSE IF Of("record") # {} THEN {NoData(req, ttl)} ELSE {}

\* reason_for_list: the built-in lists are told by their identifiers.
ReasonForList(reason, rules) ==
    IF rules = <<>> THEN reason
    ELSE CASE rules[1].list_id = "services" -> "FilteredBlockedService"
           [] rules[1].list_id = "hosts" -> "RewrittenAutoHosts"
           [] OTHER -> reason

\* Resolver::blocked
BlockedBy(set, req, reason, rules) ==
    LET addrs == SelectSeq(rules, LAMBDA r : r.ip # {})
    IN Local(ReasonForList(reason, rules),
             BlockedReply(req, set.blocking, [i \in DOMAIN addrs |-> CHOOSE a \in addrs[i].ip : TRUE]))

\* Step 6: what the blocklists say, [out, allowed].
EngineStep(set, eff, engine, names, tags, req) ==
    LET v == MatchRequest(engine, QName(req), QType(req), names, tags)
        On(out, allowed) == [out |-> out, allowed |-> allowed]
    IN IF ~eff.filtering THEN On({}, FALSE)
       ELSE CASE v.reason = "FilteredBlockList" -> On(BlockedBy(set, req, v.reason, v.rules), FALSE)
              [] v.reason = "RewrittenRule" ->
                    On(UNION {Local("RewrittenRule", m) : m \in ApplyDnsRewrite(set, req, v.rewrites)}, FALSE)
              [] v.reason = "NotFilteredAllowList" -> On({}, TRUE)
              [] OTHER -> On({}, FALSE)

\* The rest of step 6: services and safe search, unless the name is allowed.
ServicesStep(set, eff, names, tags, req) ==
    LET V(e) == MatchRequest(e, QName(req), QType(req), names, tags)
        blocked == UNION {IF V(e).reason = "FilteredBlockList"
                          THEN BlockedBy(set, req, "FilteredBlockedService", V(e).rules) ELSE {} : e \in eff.services}
        safe == UNION {IF V(e).reason = "RewrittenRule"
                       THEN UNION {Local("FilteredSafeSearch", m) : m \in ApplyDnsRewrite(set, req, V(e).rewrites)}
                       ELSE {} : e \in eff.safe}
    IN IF blocked # {} THEN blocked ELSE safe

FilterSteps(set, eff, engine, names, tags, req) ==
    LET e == EngineStep(set, eff, engine, names, tags, req)
    IN IF ~set.protection THEN [out |-> {}, allowed |-> FALSE]
       ELSE IF e.out # {} \/ e.allowed THEN e
       ELSE [out |-> ServicesStep(set, eff, names, tags, req), allowed |-> FALSE]

AllowedReason(allowed) == IF allowed THEN "NotFilteredAllowList" ELSE "NotFilteredNotFound"

\* is_private_ptr
IsPrivatePtr(set, req) ==
    /\ QType(req) = "PTR"
    /\ \E a \in AddrFromReverse(QName(req)), n \in set.private_networks : InSubnet(a, n)

\* Mutant of LateSteps: without resolvers of its own a private address is
\* asked for upstream.
LateStepsForwarded(set, eff, allowed, private, req) ==
    LET reason == AllowedReason(allowed)
    IN IF set.aaaa_disabled /\ QType(req) = "AAAA" THEN Local(reason, NoData(req, set.blocking.ttl))
       ELSE IF IsPrivatePtr(set, req) /\ private /\ set.use_private THEN Decide("private", reason, {})
       ELSE {[via |-> "forward", reason |-> reason, msg |-> {}, upstreams |-> eff.upstreams]}

\* Steps 7 and 8.  `private` says whether there is a pool for reverse lookups.
LateSteps(set, eff, allowed, private, req) ==
    LET reason == AllowedReason(allowed)
    IN IF set.aaaa_disabled /\ QType(req) = "AAAA" THEN Local(reason, NoData(req, set.blocking.ttl))
       ELSE IF IsPrivatePtr(set, req)
       THEN IF private /\ set.use_private THEN Decide("private", reason, {})
            ELSE Local(reason, NxDomain(req, set.blocking.ttl))
       ELSE {[via |-> "forward", reason |-> reason, msg |-> {}, upstreams |-> eff.upstreams]}

\* What $client rules match against: the address, and the name of the
\* persistent client, or that of the discovered one.
NamesOf(client, name) == IF client # {} THEN {c.name : c \in client} ELSE {name} \ {""}
TagsOf(client) == UNION {c.tags : c \in client}

(***************************************************************************)
(* Reloads.                                                                *)
(***************************************************************************)
Differ(a, b) == {p \in DOMAIN a : a[p] # b[p]}

\* LiveReloader::reload, reload_filters, and the end of reload_upstreams: the
\* parts of each, in the order they are written.
Written(kind) ==
    CASE kind = "reload" -> <<"settings", "rewrites", "clients", "safe_search">>
      [] kind = "filters" -> <<"engine", "services">>
      [] kind = "upstreams" -> <<"private">>

ReloadStart(kind, conf) ==
    /\ todo = <<>> /\ changes < MaxReloads
    /\ Differ(conf, live) # {} /\ Differ(conf, live) \subseteq Range(Written(kind))
    /\ target' = conf /\ todo' = Written(kind) /\ changes' = changes + 1
    /\ UNCHANGED <<clientVars, live, now, q>>

\* set_settings and the other setters; the last part of a reload also
\* replaces the sources of discovery.
ReloadWrite ==
    /\ todo # <<>>
    /\ live' = [live EXCEPT ![Head(todo)] = target[Head(todo)]]
    /\ todo' = Tail(todo)
    /\ IF todo = <<"safe_search">> THEN \E set \in SourceSets : SetSources(set) ELSE UNCHANGED clientVars
    /\ UNCHANGED <<target, now, changes, q>>

Tick(t) ==
    /\ t # now /\ changes < MaxReloads
    /\ now' = t /\ changes' = changes + 1
    /\ UNCHANGED <<clientVars, live, target, todo, q>>

(***************************************************************************)
(* Queries.                                                                *)
(***************************************************************************)
AddrOf(who) == IF who.addr \intersect Addrs = {} THEN Unknown ELSE runtime[CHOOSE a \in who.addr : TRUE]

Set(t) == SettingsOf[q[t].settings]
EffOf(t) == Effective(Set(t), q[t].services, q[t].safe, q[t].client, q[t].at)

Become(t, r) == q' = [q EXCEPT ![t] = r]
Queries == <<clientVars, live, target, todo, now, changes>>

Idle == [stage |-> "idle"]

Arrive(t, r) ==
    /\ q[t].stage = "idle"
    /\ Become(t, [stage |-> "mac", ask |-> r, settings |-> live.settings, mac |-> {}, client |-> {},
                  services |-> {}, safe |-> {}, name |-> "", at |-> now, allowed |-> FALSE, out |-> {}])
    /\ UNCHANGED Queries

ReadMac(t) ==
    /\ q[t].stage = "mac"
    /\ Become(t, [q[t] EXCEPT !.stage = "clients", !.mac = AddrOf(q[t].ask.who).mac])
    /\ UNCHANGED Queries

ReadClients(t) ==
    /\ q[t].stage = "clients"
    /\ Become(t, [q[t] EXCEPT !.stage = "services",
                              !.client = Find(Registry(live.clients), q[t].ask.who, q[t].mac)])
    /\ UNCHANGED Queries

ReadServices(t) ==
    /\ q[t].stage = "services"
    /\ Become(t, [q[t] EXCEPT !.stage = "safe", !.services = ServicesEngine(ServicesOf[live.services]), !.at = now])
    /\ UNCHANGED Queries

ReadSafeSearch(t) ==
    /\ q[t].stage = "safe"
    /\ Become(t, [q[t] EXCEPT !.stage = "name", !.safe = SafeSearchEngine(SafeSearchOf[live.safe_search])])
    /\ UNCHANGED Queries

\* finish: every answer is shaped to the question, and cut for plain UDP.
FinishReply(ask, m) ==
    LET shaped == ShapeToRequest(ask.req, m)
    IN IF ask.proto = "udp" THEN Truncate(QName(ask.req), shaped, UdpLimit(ask.req)) ELSE shaped

\* A decision ends the query, or sends it to one of the pools.
Settle(t, d) ==
    IF d.via \in {"local", "drop"}
    THEN [q[t] EXCEPT !.stage = "done",
                      !.out = {[d EXCEPT !.msg = {FinishReply(q[t].ask, m) : m \in @}]}]
    ELSE [q[t] EXCEPT !.stage = d.via, !.out = {d}]

\* The name of a discovered client, and then steps 1 to 4.
ReadName(t) ==
    LET early == EarlySteps(Set(t), q[t].ask.req, q[t].ask.proto)
        named == [q[t] EXCEPT !.name = AddrOf(q[t].ask.who).name]
    IN /\ q[t].stage = "name"
       /\ IF early # {} THEN \E d \in early : Become(t, Settle(t, d))
          ELSE Become(t, [named EXCEPT !.stage = IF Set(t).rewrites THEN "rewrites" ELSE "engine"])
       /\ UNCHANGED Queries

ReadRewrites(t) ==
    LET out == RewriteStep(Set(t), RewritesOf[live.rewrites], q[t].ask.req)
    IN /\ q[t].stage = "rewrites"
       /\ IF out # {} THEN \E d \in out : Become(t, Settle(t, d))
          ELSE Become(t, [q[t] EXCEPT !.stage = "engine"])
       /\ UNCHANGED Queries

ReadEngine(t) ==
    LET f == FilterSteps(Set(t), EffOf(t), EngineOf[live.engine], NamesOf(q[t].client, q[t].name),
                         TagsOf(q[t].client), q[t].ask.req)
    IN /\ q[t].stage = "engine"
       /\ IF f.out # {} THEN \E d \in f.out : Become(t, Settle(t, d))
          ELSE Become(t, [q[t] EXCEPT !.stage = "pool", !.allowed = f.allowed])
       /\ UNCHANGED Queries

\* Mutant of ReadPrivatePool: the last steps use the settings of that moment.
ReadPrivatePoolFresh(t) ==
    /\ q[t].stage = "pool"
    /\ \E d \in LateSteps(SettingsOf[live.settings], EffOf(t), q[t].allowed, live.private = "some", q[t].ask.req) :
          Become(t, Settle(t, d))
    /\ UNCHANGED Queries

ReadPrivatePool(t) ==
    /\ q[t].stage = "pool"
    /\ \E d \in LateSteps(Set(t), EffOf(t), q[t].allowed, live.private = "some", q[t].ask.req) :
          Become(t, Settle(t, d))
    /\ UNCHANGED Queries

\* forward: what is sent in place of the request.
SentUpstream(t) ==
    LET set == Set(t)
        addr == IF set.ecs_custom # {} THEN set.ecs_custom ELSE q[t].ask.who.addr
        told == {a \in addr : set.ecs /\ ~IsLocal(a)}
        out == IF told = {} THEN StripSubnet(q[t].ask.req) ELSE SetSubnet(q[t].ask.req, CHOOSE a \in told : TRUE)
    IN IF set.dnssec THEN SetDnssecOk(out) ELSE out

\* What an upstream answers to a question, signed if it was asked with DO.
AnswersTo(req, qtype) ==
    {[Reply(req, u.rcode) EXCEPT
        !.ad = u.signed, !.opt = {[do |-> DnssecOk(req), size |-> UdpPayload, subnet |-> o.subnet] : o \in req.opt},
        !.ans = [i \in DOMAIN u.addrs |-> Rec(QName(req), qtype, u.ttl, {u.addrs[i]})]
                \o (IF u.signed /\ DnssecOk(req) THEN <<Rec(QName(req), "RRSIG", u.ttl, {})>> ELSE <<>>),
        !.auth = IF u.addrs = <<>> THEN <<SoaRecord(req, u.ttl)>> ELSE <<Rec(<<"ns">>, "NS", u.ttl, {})>>] :
        u \in {x \in UpstreamAnswers : x.qtype = qtype}}

\* is_bogus_nxdomain
IsBogus(set, m) == \E i \in DOMAIN m.ans, n \in set.bogus : \E a \in m.ans[i].addr : InSubnet(a, n)

\* exchange: `second` is the answer of the second exchange, {} if it fails.
Exchanged(set, sent, req, first, second) ==
    LET filtered == IF set.dns64 # <<>> /\ QType(req) = "AAAA" /\ first.rcode = "NOERROR"
                    THEN FilterExcluded(set.dns64, first) ELSE first
    IN IF IsBogus(set, first) THEN NxDomain(req, set.blocking.ttl)
       ELSE IF ~NeedsSynthesis(set.dns64, req, filtered) \/ second = {} THEN filtered
       ELSE Synthesize(set.dns64, sent, filtered, CHOOSE a \in second : TRUE)

\* Step 10, without the cache and the coalescing of module Forwarding.
ExchangeOk(t, first, second) ==
    /\ q[t].stage = "forward"
    /\ LET sent == SentUpstream(t)
           m == ClampMessage(Exchanged(Set(t), sent, q[t].ask.req, first, second), Set(t).ttl_min, Set(t).ttl_max)
       IN Become(t, [q[t] EXCEPT !.stage = "done",
                                 !.out = {[d EXCEPT !.msg = {FinishReply(q[t].ask, m)}] : d \in @}])
    /\ UNCHANGED Queries

\* Nothing answered: SERVFAIL.
ExchangeFailed(t) ==
    /\ q[t].stage = "forward"
    /\ Become(t, [q[t] EXCEPT !.stage = "done",
                    !.out = {[d EXCEPT !.msg = {FinishReply(q[t].ask, ServFail(q[t].ask.req))}] : d \in @}])
    /\ UNCHANGED Queries

\* Step 8's exchange with the local resolvers.
PrivateExchange(t, m) ==
    /\ q[t].stage = "private"
    /\ Become(t, [q[t] EXCEPT !.stage = "done", !.out = {[d EXCEPT !.msg = {FinishReply(q[t].ask, m)}] : d \in @}])
    /\ UNCHANGED Queries

\* Recorder::observe: the client of an answered question may get a lookup.
Observe(t) ==
    /\ q[t].stage = "done"
    /\ IF q[t].ask.req.questions = <<>> \/ q[t].ask.who.addr \intersect Addrs = {} THEN UNCHANGED clientVars
       ELSE \E a \in q[t].ask.who.addr : NoteClient(a)
    /\ Become(t, Idle)
    /\ UNCHANGED <<live, target, todo, now, changes>>

(***************************************************************************)
(* The specification.                                                      *)
(***************************************************************************)
Instant(t) == [live |-> live, now |-> now, found |-> IF q[t].stage = "idle" THEN Unknown ELSE AddrOf(q[t].ask.who)]

\* History: an instant is recorded for every query that is being decided.
Record == moments' = [t \in Tasks |-> IF q'[t].stage = "idle" THEN {}
                                      ELSE IF q[t].stage \in {"private", "forward", "done"} THEN moments[t]
                                      ELSE moments[t] \union {Instant(t)'}]

ResolveInit ==
    /\ ClientsInit
    /\ live = Boot /\ target = live /\ todo = <<>>
    /\ now = BootTime /\ changes = 0
    /\ q = [t \in Tasks |-> Idle] /\ moments = [t \in Tasks |-> {}]

QueryStep(t) ==
    \/ \E r \in Requests : Arrive(t, r)
    \/ ReadMac(t) \/ ReadClients(t) \/ ReadServices(t) \/ ReadSafeSearch(t) \/ ReadName(t)
    \/ ReadRewrites(t) \/ ReadEngine(t) \/ ReadPrivatePool(t)
    \/ /\ q[t].stage = "forward"
       /\ LET sent == SentUpstream(t)
          IN \E first \in AnswersTo(sent, QType(sent)) :
                \E second \in {{}} \union {{a} : a \in AnswersTo(sent, "A")} : ExchangeOk(t, first, second)
    \/ ExchangeFailed(t) \/ Observe(t)
    \/ /\ q[t].stage = "private"
       /\ \E m \in AnswersTo(q[t].ask.req, "PTR") \union {NxDomain(q[t].ask.req, Set(t).blocking.ttl)} :
             PrivateExchange(t, m)

ResolveNext ==
    /\ \/ \E t \in Tasks : QueryStep(t)
       \/ \E kind \in {"reload", "filters", "upstreams"}, conf \in Configs : ReloadStart(kind, conf)
       \/ ReloadWrite
       \/ \E t \in Nows : Tick(t)
       \/ ClientsNext /\ UNCHANGED <<live, target, todo, now, changes, q>>
    /\ Record

ResolveSpec == ResolveInit /\ [][ResolveNext]_resolveVars

(***************************************************************************)
(* Properties.                                                             *)
(***************************************************************************)
Done(t) == q[t].stage = "done"
Outcome(t) == CHOOSE d \in q[t].out : TRUE

\* What resolve decides of a query with these parts in force throughout.
Decision(ask, parts, mac, name, t) ==
    LET set == SettingsOf[parts.settings]
        client == Find(Registry(parts.clients), ask.who, mac)
        eff == Effective(set, ServicesEngine(ServicesOf[parts.services]),
                         SafeSearchEngine(SafeSearchOf[parts.safe_search]), client, t)
        early == EarlySteps(set, ask.req, ask.proto)
        rewritten == IF set.rewrites THEN RewriteStep(set, RewritesOf[parts.rewrites], ask.req) ELSE {}
        f == FilterSteps(set, eff, EngineOf[parts.engine], NamesOf(client, name), TagsOf(client), ask.req)
    IN IF early # {} THEN early ELSE IF rewritten # {} THEN rewritten ELSE IF f.out # {} THEN f.out
       ELSE LateSteps(set, eff, f.allowed, parts.private = "some", ask.req)

Agrees(d, out) == d.via = out.via /\ d.reason = out.reason /\ d.upstreams = out.upstreams

\* A query is decided by parts that were all in force at some moment of it,
\* each taken at one of those moments and used throughout, although it reads
\* nine things behind nine locks while reloads, the schedule's clock and the
\* discovery of clients replace them.
DecidedByPartsInForce ==
    \A t \in Tasks : Done(t) =>
        LET Was(p) == {m.live[p] : m \in moments[t]}
        IN \E s \in Was("settings"), r \in Was("rewrites"), c \in Was("clients"), f \in Was("safe_search"),
              e \in Was("engine"), v \in Was("services"), p \in Was("private"), a, b, n \in moments[t] :
              \E d \in Decision(q[t].ask, [settings |-> s, rewrites |-> r, clients |-> c, safe_search |-> f,
                                           engine |-> e, services |-> v, private |-> p],
                                a.found.mac, b.found.name, n.now) : Agrees(d, Outcome(t))

\* Stronger: as everything stood at one moment.  It fails, see the README.
DecidedAtOneMoment ==
    \A t \in Tasks : Done(t) =>
        \E m \in moments[t] : \E d \in Decision(q[t].ask, m.live, m.found.mac, m.found.name, m.now) :
            Agrees(d, Outcome(t))

\* "Private reverse lookups, which must not reach a public resolver"
\* (resolver.rs:720): whatever is installed while it runs, a reverse lookup of
\* an address that was private until that was decided is never forwarded.
PrivateStaysLocal ==
    \A t \in Tasks : q[t].stage = "forward" \/ (Done(t) /\ Outcome(t).via = "forward") =>
        \E m \in moments[t] : ~IsPrivatePtr(SettingsOf[m.live.settings], q[t].ask.req)

\* Who is refused as a blocked service is subject to services that are not
\* paused at that hour, its own if it does not use the global ones, whatever
\* else it overrides; and an exception of the blocklists, if the client is
\* filtered at all, holds against services too.
ServicesApplyToTheirClients ==
    \A t \in Tasks : Done(t) /\ Outcome(t).reason = "FilteredBlockedService" =>
        LET own == {c \in q[t].client : ~c.use_global_services}
            weekly == IF own = {} THEN Set(t).schedule ELSE (CHOOSE c \in own : TRUE).schedule
            unfiltered == IF \E c \in q[t].client : ~c.use_global_settings
                          THEN \E c \in q[t].client : ~c.filtering ELSE ~Set(t).filtering
            Excepted(m) == MatchRequest(EngineOf[m.live.engine], QName(q[t].ask.req), QType(q[t].ask.req),
                                        NamesOf(q[t].client, q[t].name), TagsOf(q[t].client)).reason
                           = "NotFilteredAllowList"
        IN /\ IF own = {} THEN q[t].services # {} ELSE \E c \in own : c.services # {}
           /\ BlocksAt(weekly, q[t].at)
           /\ unfiltered \/ \E m \in moments[t] : ~Excepted(m)

\* The answer is shaped to the client's question (msg.rs: "a response is the
\* answer to one client's question, not a copy of what an upstream said"): its
\* identifier; no signatures and no AD for one that did not ask; an OPT record
\* exactly if it sent one; over UDP it fits the size the client can take, and
\* over the other transports it is not marked as cut.
ShapedToTheAsker ==
    \A t \in Tasks : Done(t) =>
        \A m \in Outcome(t).msg :
            LET req == q[t].ask.req
                all == m.ans \o m.auth \o m.add
                limit == UdpLimit(req)
            IN /\ m.id = req.id
               /\ (~DnssecOk(req) => \A i \in DOMAIN all : all[i].type \notin DnssecTypes \ {QType(req)})
               /\ (m.ad => WantsDnssec(req))
               /\ {[do |-> o.do, size |-> o.size] : o \in m.opt} = {[do |-> o.do, size |-> o.size] : o \in req.opt}
               /\ (q[t].ask.proto = "udp" => EncodedLen(QName(req), m) <= limit \/ all = <<>>)
               /\ (m.tc => q[t].ask.proto = "udp")

\* "Networks whose appearance in an answer means NXDOMAIN" (resolver.rs:117):
\* no address of an answer, mapped or not, is in one of them.
NoBogusAnswer ==
    \A t \in Tasks : Done(t) /\ Outcome(t).via = "forward" =>
        \A m \in Outcome(t).msg, n \in Set(t).bogus :
            \A i \in DOMAIN m.ans : \A a \in m.ans[i].addr :
                ~InSubnet(a, n) /\ ((a.fam = 6 /\ InPrefixes(Set(t).dns64, a)) =>
                    ~InSubnet([fam |-> 4, bits |-> SubSeq(a.bits, MaxPrefix + 1, Len(a.bits))], n))

\* "Asks for a name for a client that has none yet" (wiring.rs:67): who is
\* answered and has no name gets a lookup, if the queue has room.
NamelessAreAsked ==
    [][\A t \in Tasks : Done(t) /\ q'[t].stage = "idle" /\ Len(lookups) < DiscoveryQueue =>
          \A a \in q[t].ask.who.addr \intersect Addrs : runtime[a].name = "" => a \in Range(lookups')]_resolveVars
=============================================================================
