------------------------------- MODULE Pools -------------------------------
(***************************************************************************)
(* The upstream pools: what the settings' lines become (`addr.rs`, the     *)
(* pool builders of `app.rs`), which upstreams a name is asked of and in   *)
(* which of the three modes (`pool.rs`), while UpstreamReload replaces the *)
(* pools under the queries.  Connections has the exchange with one         *)
(* upstream; here it ends well, with a failure code, or not at all.        *)
(***************************************************************************)
EXTENDS UpstreamReload, Sequences, SequencesExt, FiniteSetsExt

CONSTANTS
    Settings,     \* [Upstreams -> [lines, fallback, mode, private, clients]]
    SystemLines,  \* resolvers of /etc/resolv.conf
    Hostnames,    \* names asked for, as sequences of labels
    Calls,        \* queries
    Samples,      \* round-trip times
    Offers,       \* addresses an upstream may answer with
    MaxCalls      \* bound: exchanges with the pools

ASSUME PoolsAssumption ==
    /\ IsFiniteSet(Reloads) /\ Samples \subseteq Nat
    /\ SystemLines \in Seq(Range(SystemLines))
    /\ \A u \in Upstreams :
         /\ Settings[u].mode \in {"load_balance", "parallel", "fastest_addr"}
         /\ \A lines \in {Settings[u].lines, Settings[u].fallback, Settings[u].clients, Settings[u].local} :
               lines \in Seq(Range(lines))

VARIABLES
    made,     \* the pools each generation built
    inForce,  \* the generation of the pools the resolver has, by kind
    stats,    \* of every member: [rtt, failures]
    call, calls

poolVars == <<made, inForce, stats, call, calls>>
allPoolVars == <<reloadVars, poolVars>>

\* The elements of s at the positions `at`, where the k-th comes after k - 1
\* others; and those in the order they have in s.
Arranged(s, at, before) ==
    [k \in 1 .. Cardinality(at) |-> s[CHOOSE i \in at : Cardinality({j \in at : <<j, i>> \in before}) = k - 1]]
Kept(s, at) == Arranged(s, at, {p \in at \X at : p[1] < p[2]})

Whiches == {"global", "clients", "private"}
Generations == 0 .. Cardinality(Reloads)

(***************************************************************************)
(* Building.  A line is [form, domains, up]: "blank", "bad", "default" for *)
(* the # form, "host" and "literal", or a "stamp", which is not supported. *)
(***************************************************************************)
ParseLines(lines) == Kept(lines, {i \in DOMAIN lines : lines[i].form \notin {"blank", "bad"}})

\* partition: entries without domains, and the others by their domains, in the
\* order they were first met; the # form has a group of its own, and later
\* entries of the same domains are put into the first.
DefaultsOf(es) == Kept(es, {i \in DOMAIN es : es[i].form # "default" /\ es[i].domains = <<>>})
GroupsOf(es) ==
    LET alike(i) == {j \in DOMAIN es : es[j].domains = es[i].domains}
        first(i) == \A j \in alike(i) : i <= j
        opens == {i \in DOMAIN es : es[i].domains # <<>> /\ (es[i].form = "default" \/ first(i))}
        specs(i) == {j \in alike(i) : first(i) /\ es[j].form # "default"}
    IN Kept([i \in DOMAIN es |-> [domains |-> es[i].domains, specs |-> Kept(es, specs(i))]], opens)

\* Client::connect; `down` are the hosts that bootstrapping cannot find.
Connected(specs, down) ==
    Kept([i \in DOMAIN specs |-> specs[i].up],
         {i \in DOMAIN specs : \/ specs[i].form = "literal"
                               \/ specs[i].form = "host" /\ specs[i].up \notin down})

NoPool == [mode |-> "none", defaults |-> <<>>, groups |-> <<>>, fallbacks |-> <<>>]
BuildPoolFrom(s, lines, down) ==
    LET es == ParseLines(lines)
        gs == GroupsOf(es)
    IN [mode |-> s.mode, defaults |-> Connected(DefaultsOf(es), down),
        groups |-> [i \in DOMAIN gs |-> [domains |-> gs[i].domains, members |-> Connected(gs[i].specs, down)]],
        fallbacks |-> Connected(DefaultsOf(ParseLines(s.fallback)), down)]

\* One client's pool stands for all of them.
BuildClientPools(s, down) == IF s.clients = <<>> THEN NoPool ELSE BuildPoolFrom(s, s.clients, down)

BuildPrivatePool(s, down) ==
    LET lines == IF s.local = <<>> THEN SystemLines ELSE s.local
        members == Connected(DefaultsOf(ParseLines(lines)), down)
    IN IF ~s.private \/ members = <<>> THEN NoPool
       ELSE [NoPool EXCEPT !.mode = "load_balance", !.defaults = members]

BuildPools(u, down) ==
    [global |-> BuildPoolFrom(Settings[u], Settings[u].lines, down),
     clients |-> BuildClientPools(Settings[u], down),
     private |-> BuildPrivatePool(Settings[u], down)]

HostsOf(u) == {l.up : l \in {l \in Range(Settings[u].lines \o Settings[u].fallback \o Settings[u].clients
                                          \o Settings[u].local) : l.form = "host"}}

(***************************************************************************)
(* Selection.                                                              *)
(***************************************************************************)
\* Group::matches: the length of the longest of its domains the name is under;
\* an empty domain is for names of one label.
Under(host, d) == IF d = <<>> THEN Len(host) = 1 ELSE IsSuffix(d, host)
GroupMatches(g, host) == {Len(d) : d \in {d \in Range(g.domains) : Under(host, d)}}

\* Pool::select: of the groups that match best the first, unless it is empty.
Longer(g, o, host) == Max(GroupMatches(g, host)) > Max(GroupMatches(o, host))
Select(p, host) ==
    LET hits == {i \in DOMAIN p.groups : GroupMatches(p.groups[i], host) # {}}
        longest == {i \in hits : ~\E j \in hits : Longer(p.groups[j], p.groups[i], host)}
        best == {i \in longest : \A j \in longest : i <= j}
    IN IF \E i \in best : p.groups[i].members # <<>>
       THEN p.groups[CHOOSE i \in best : p.groups[i].members # <<>>].members ELSE p.defaults

\* Member::score: the failures, up to eight, double it; and the members by it.
Doubled == <<1, 2, 4, 8, 16, 32, 64, 128, 256>>
Score(st) == st.rtt * Doubled[Min({st.failures, 8}) + 1]
Ranked(members, sts) ==
    LET at == DOMAIN members
        score == [i \in at |-> Score(sts[members[i]])]
    IN {p \in at \X at :
           score[p[1]] < score[p[2]] \/ (score[p[1]] = score[p[2]] /\ p[1] < p[2])}
ByScore(members, sts) == Arranged(members, DOMAIN members, Ranked(members, sts))

RecordSuccess(st, sample) == [rtt |-> Max({1, st.rtt - st.rtt \div 4 + sample \div 4}), failures |-> 0]
RecordFailure(st) == [st EXCEPT !.failures = @ + 1]

(***************************************************************************)
(* Pool::exchange.                                                         *)
(***************************************************************************)
Waiting == [pc |-> "idle", host |-> <<>>, which |-> "global", gen |-> 0, order |-> <<>>, out |-> {},
            ended |-> <<>>, good |-> <<>>, failed |-> {}, answer |-> {}]
LinesOf(u) == {Settings[u].lines, Settings[u].fallback, Settings[u].clients, Settings[u].local, SystemLines}
AllNames == {l.up : l \in UNION {UNION {Range(lines) : lines \in LinesOf(u)} : u \in Upstreams}}
NewMember == [rtt |-> 20, failures |-> 0]

PoolsInit ==
    /\ ReloadInit
    /\ made = [g \in Generations |-> [w \in Whiches |-> IF g = 0 THEN BuildPools(Initial, {})[w] ELSE NoPool]]
    /\ inForce = [w \in Whiches |-> 0]
    /\ stats = [g \in Generations |-> [w \in Whiches |-> [m \in AllNames |-> NewMember]]]
    /\ call = [c \in Calls |-> Waiting] /\ calls = 0

PoolOf(c) == made[call[c].gen][call[c].which]
Becomes(c, r) == call' = [call EXCEPT ![c] = r]
SetStat(c, m, st) == stats' = [stats EXCEPT ![call[c].gen][call[c].which][m] = st]
StatOf(c, m) == stats[call[c].gen][call[c].which][m]
Over(r, answer) == [r EXCEPT !.pc = "done", !.order = <<>>, !.out = {}, !.ended = <<>>, !.good = <<>>,
                             !.answer = answer]

\* Set out to ask the members in the pool's mode.
Asking(r, p, members, sts) ==
    IF members = <<>> THEN Over(r, {})
    ELSE IF p.mode = "load_balance" THEN [r EXCEPT !.pc = "one", !.order = ByScore(members, sts)]
    ELSE [r EXCEPT !.pc = p.mode, !.out = Range(members)]

\* pool_for: the client's pool, else the global one; and SharedPool::load, which
\* keeps the pool for the whole exchange.
StartCall(c, host, which) ==
    /\ call[c].pc \in {"idle", "done"} /\ calls < MaxCalls
    /\ calls' = calls + 1
    /\ LET w == IF made[inForce[which]][which] = NoPool THEN "global" ELSE which
           g == inForce[w]
           p == made[g][w]
       IN Becomes(c, Asking([Waiting EXCEPT !.host = host, !.which = w, !.gen = g], p, Select(p, host), stats[g][w]))
    /\ UNCHANGED <<reloadVars, made, inForce, stats>>

\* All the selected failed: the fallbacks, at once and in parallel, or the error.
Exhausted(c, r) ==
    IF r.pc = "fallback" \/ PoolOf(c).fallbacks = <<>> THEN Over(r, {})
    ELSE [r EXCEPT !.pc = "fallback", !.order = <<>>, !.out = Range(PoolOf(c).fallbacks)]

\* Load balancing: the upstream in turn answers (with offers), or fails.
OneAnswers(c, sample, offers) ==
    /\ call[c].pc = "one"
    /\ SetStat(c, Head(call[c].order), RecordSuccess(StatOf(c, Head(call[c].order)), sample))
    /\ Becomes(c, Over(call[c], {[by |-> Head(call[c].order), offers |-> offers]}))
    /\ UNCHANGED <<reloadVars, made, inForce, calls>>
OneFails(c) ==
    /\ call[c].pc = "one"
    /\ LET m == Head(call[c].order)
           r == [call[c] EXCEPT !.order = Tail(@), !.failed = @ \union {m}]
       IN /\ SetStat(c, m, RecordFailure(StatOf(c, m)))
          /\ Becomes(c, IF r.order = <<>> THEN Exhausted(c, r) ELSE r)
    /\ UNCHANGED <<reloadVars, made, inForce, calls>>

\* The others run as tasks: each records its own outcome when it ends, ...
TaskAnswers(c, m, sample, offers) ==
    /\ m \in call[c].out
    /\ SetStat(c, m, RecordSuccess(StatOf(c, m), sample))
    /\ Becomes(c, [call[c] EXCEPT !.out = @ \ {m}, !.ended = Append(@, [by |-> m, ok |-> TRUE, offers |-> offers])])
    /\ UNCHANGED <<reloadVars, made, inForce, calls>>
TaskFails(c, m) ==
    /\ m \in call[c].out
    /\ SetStat(c, m, RecordFailure(StatOf(c, m)))
    /\ Becomes(c, [call[c] EXCEPT !.out = @ \ {m}, !.ended = Append(@, [by |-> m, ok |-> FALSE, offers |-> {}])])
    /\ UNCHANGED <<reloadVars, made, inForce, calls>>

\* Mutant of Join: the first to end decides.
JoinFirst(c) ==
    /\ call[c].ended # <<>>
    /\ LET e == Head(call[c].ended)
           r == [call[c] EXCEPT !.ended = <<>>, !.out = {}]
       IN Becomes(c, IF e.ok THEN Over(r, {[by |-> e.by, offers |-> e.offers]})
                     ELSE Exhausted(c, [r EXCEPT !.failed = @ \union {e.by}]))
    /\ UNCHANGED <<reloadVars, made, inForce, stats, calls>>

\* ... and join_next takes them as they ended.  In parallel the first good one
\* is returned and the rest aborted; for the fastest address all are awaited.
Join(c) ==
    /\ call[c].ended # <<>>
    /\ LET e == Head(call[c].ended)
           r == [call[c] EXCEPT !.ended = Tail(@), !.failed = IF e.ok THEN @ ELSE @ \union {e.by},
                                !.good = IF e.ok THEN Append(@, e) ELSE @]
       IN Becomes(c, IF r.pc # "fastest_addr" /\ e.ok THEN Over(r, {[by |-> e.by, offers |-> e.offers]})
                     ELSE IF r.out # {} \/ r.ended # <<>> THEN r
                     ELSE IF r.good = <<>> THEN Exhausted(c, r) ELSE [r EXCEPT !.pc = "probe"])
    /\ UNCHANGED <<reloadVars, made, inForce, stats, calls>>

\* fastest_of: with two addresses or more, the one that connects first if any
\* does; the answer is otherwise that of the first upstream that ended well.
Probe(c, best) ==
    /\ call[c].pc = "probe"
    /\ LET first == Head(call[c].good)
           offered == UNION {e.offers : e \in Range(call[c].good)}
       IN /\ best \subseteq offered /\ (Cardinality(offered) < 2 => best = {})
          /\ Becomes(c, Over(call[c], {[by |-> first.by, offers |-> IF best = {} THEN first.offers ELSE best]}))
    /\ UNCHANGED <<reloadVars, made, inForce, stats, calls>>

\* The query is dropped, and its tasks with it.
DropCall(c) ==
    /\ call[c].pc \notin {"idle", "done"}
    /\ Becomes(c, Waiting)
    /\ UNCHANGED <<reloadVars, made, inForce, stats, calls>>

\* A rebuild's steps, with the pools it built.
BuiltPools(r, down) ==
    /\ Built(r)
    /\ down \subseteq HostsOf(cfg[r])
    /\ made' = [made EXCEPT ![mine[r]] = BuildPools(cfg[r], down)]
    /\ UNCHANGED <<inForce, stats, call, calls>>
Install(r, which) ==
    /\ CASE which = "global" -> StorePool(r) [] which = "clients" -> SetClientPools(r) [] OTHER -> SetPrivatePool(r)
    /\ inForce' = [inForce EXCEPT ![which] = mine[r]]
    /\ UNCHANGED <<made, stats, call, calls>>
Rebuild(r) ==
    \/ Number(r) /\ UNCHANGED poolVars
    \/ CheckGeneration(r) /\ UNCHANGED poolVars
    \/ \E down \in SUBSET HostsOf(cfg[r]) : BuiltPools(r, down)
    \/ \E w \in Whiches : Install(r, w)

CallStep(c) ==
    \/ \E s \in Samples, o \in Offers : OneAnswers(c, s, o) \/ \E m \in call[c].out : TaskAnswers(c, m, s, o)
    \/ OneFails(c) \/ Join(c) \/ \E m \in call[c].out : TaskFails(c, m)
    \/ \E best \in {{}} \union {{a} : a \in UNION Offers} : Probe(c, best)

PoolsNext ==
    \/ \E r \in Reloads : Rebuild(r) \/ \E u \in Upstreams : Compare(r, u) /\ UNCHANGED poolVars
    \/ \E c \in Calls : CallStep(c) \/ DropCall(c) \/ \E h \in Hostnames, w \in Whiches : StartCall(c, h, w)

PoolsSpec == PoolsInit /\ [][PoolsNext]_allPoolVars

(***************************************************************************)
(* Properties.                                                             *)
(***************************************************************************)
\* The upstreams configured for the most specific domain of the name; the
\* defaults for a name without any, and where one of the groups for that domain
\* is empty (the # form, or none of its upstreams could be connected).
Closest(p, host) ==
    LET under == {g \in Range(p.groups) : GroupMatches(g, host) # {}}
    IN {g \in under : ~\E o \in under : Longer(o, g, host)}
Meant(p, host) ==
    (UNION {Range(g.members) : g \in Closest(p, host)})
      \union {m \in Range(p.defaults) : Closest(p, host) = {} \/ \E g \in Closest(p, host) : g.members = <<>>}

\* Whatever the mode, the races of the tasks and the reloads meanwhile: an
\* answer is from an upstream meant for the name in the pool that was loaded,
\* or from a fallback after every selected one has failed (Pool::exchange).
FallbacksComeLast ==
    \A c \in Calls : \A a \in call[c].answer :
        \/ a.by \in Meant(PoolOf(c), call[c].host)
        \/ a.by \in Range(PoolOf(c).fallbacks) /\ Range(Select(PoolOf(c), call[c].host)) \subseteq call[c].failed

\* "Reports the upstream that actually answered alongside the answer"
\* (pool.rs:199): one that is reported offered what is answered.  It is not so
\* for the fastest address, which may be another upstream's.
AnswererIsReported ==
    [][\A c \in Calls : \A a \in call'[c].answer \ call[c].answer :
         call[c].pc = "probe" => \E e \in Range(call[c].good) : e.by = a.by /\ a.offers \subseteq e.offers]_allPoolVars

\* A name with upstreams of its own is not sent to the default ones.  It is not
\* so if none of its own could be connected: the group is then empty, which is
\* how the # form is written (pool.rs:189).
SettingsOf(g) == IF g = 0 THEN Initial ELSE cfg[CHOOSE r \in Reloads : mine[r] = g]
OwnUpstreamsOnly ==
    \A c \in Calls : \A a \in call[c].answer :
        LET gs == Range(GroupsOf(ParseLines(Settings[SettingsOf(call[c].gen)].lines)))
            under == {g \in gs : GroupMatches(g, call[c].host) # {}}
            own == \E g \in under : /\ g.specs # <<>>
                                    /\ \A o \in under : Max(GroupMatches(o, call[c].host)) <= Max(GroupMatches(g, call[c].host))
        IN call[c].which = "global" /\ own => a.by \notin Range(PoolOf(c).defaults)
=============================================================================
