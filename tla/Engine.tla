------------------------------- MODULE Engine -------------------------------
(***************************************************************************)
(* The matching engine: `engine.rs` of sift-filter.                        *)
(*                                                                         *)
(* The state is the lines that have been read into the two rule sets, in   *)
(* load order; Build is what the engine's builder makes of them, and       *)
(* MatchRequest what a query gets.                                         *)
(***************************************************************************)
EXTENDS RuleIndex

CONSTANTS
    Lines,     \* names of lines of blocklists
    AllowLines,\* names of lines of allowlists
    LineOf,    \* the line of each name
    Preloaded, \* lists that have been read already
    MaxLines,  \* bound: how many lines are read
    Requests   \* requests the invariants ask about

ASSUME EngineAssumption ==
    Preloaded \subseteq Seq([set : {"allow", "block"}, id : Nat, line : DOMAIN LineOf])

VARIABLE
    lines  \* sequence of [set: {"allow", "block"}, id, line]

(***************************************************************************)
(* Builder.                                                                *)
(***************************************************************************)
\* canonical_text: the rule's text without its badfilter modifier.
CanonicalText(r) == [r.text EXCEPT !.mods = SelectSeq(@, LAMBDA m : m # "badfilter")]

\* finish: each network rule is filed in one of three places, by its number:
\* that of its line, so that numbers are in load order.
Filed(net, hosts) ==
    LET anchored == {i \in DOMAIN net : net[i].domain # {}}
        literal == {i \in DOMAIN net \ anchored : net[i].shortcut # {}}
        order == SetToSortSeq(anchored, <)
        pairs == [n \in DOMAIN order |-> <<CHOOSE d \in net[order[n]].domain : TRUE, order[n]>>]
        shortcuts == UNION {net[i].shortcut : i \in literal}
    IN [net |-> net, hosts |-> hosts,
        domains |-> BuildDomains(pairs),
        shortcuts |-> BuildShortcuts([s \in shortcuts |-> {i \in literal : s \in net[i].shortcut}]),
        scan |-> DOMAIN net \ (anchored \union literal),
        badfilter |-> {CanonicalText(net[i]) : i \in {j \in DOMAIN net : net[j].opts.badfilter}}]

\* add_list, add_network, add_host: the rules of one kind in a set's lines, a
\* line being one rule at most.
RulesOf(set, kind) ==
    LET Parsed(l) == Parse(LineOf[l.line], l.id)
        of == {i \in DOMAIN lines : /\ lines[i].set = set
                                    /\ \E r \in Parsed(lines[i]) : r.rule = kind}
    IN [i \in of |-> CHOOSE r \in Parsed(lines[i]) : TRUE]

RuleSet(set) == Filed(RulesOf(set, "network"), RulesOf(set, "host"))

(***************************************************************************)
(* Matching.  A request is [host, qtype, client, tags]; `client` is the    *)
(* set of what the client is known by, its address and its name.           *)
(***************************************************************************)
\* applies, for the modifiers: an all-negative client list applies unless the
\* client is excluded.
ModifiersApply(o, req) ==
    /\ ~o.badfilter
    /\ \A l \in o.dnstype : ListMatches(l, req.qtype)
    /\ \A l \in o.client : \/ \E c \in req.client : ListMatches(l, c)
                           \/ l.included = {} /\ req.client \intersect l.excluded = {}
    /\ \A l \in o.ctag : ListMatchesAny(l, req.tags)
    /\ \A d \in o.denyallow : ~IsSubdomainOf(req.host, d)

\* pattern_matches: a rule found through the domain index has matched.
PatternMatches(r, req) ==
    \/ MatchesAll(r.pattern) \/ r.domain # {}
    \/ RegexMatches(ToRegex(r.pattern), Target(r.pattern, req.host))

\* text_of, anchored_domain_is: the text of an overlong line is not recorded,
\* so it names no domain.
AnchoredDomainIs(r, domain) == ~r.too_long /\ domain \in r.domain

\* match_network: the rules that the indexes and the scan list hand on.
Candidates(s, host) ==
    UNION {DomainGet(s.domains, d, {i \in DOMAIN s.net : AnchoredDomainIs(s.net[i], d)}) :
              d \in DomainSuffixes(host)}
    \union FindShortcuts(s.shortcuts, host)
    \union s.scan

\* consider: cancelled rules and rules that do not apply are passed over.
Considered(s, req) ==
    {i \in Candidates(s, req.host) :
        /\ CanonicalText(s.net[i]) \notin s.badfilter
        /\ ModifiersApply(s.net[i].opts, req)
        /\ PatternMatches(s.net[i], req)}

\* Mutant of RuleRank: only importance counts.
RuleRankPlain(r) == IF r.opts.important THEN 1 ELSE 0

\* rank: allow and important, important, allow, neither.
RuleRank(r) == CASE r.allowlist /\ r.opts.important -> 3 [] ~r.allowlist /\ r.opts.important -> 2
                 [] r.allowlist /\ ~r.opts.important -> 1 [] OTHER -> 0

HigherPriority(s, a, b) ==
    LET ra == RuleRank(s.net[a]) rb == RuleRank(s.net[b])
        sa == Specificity(s.net[a].opts) sb == Specificity(s.net[b].opts)
    IN IF ra # rb THEN ra > rb ELSE IF sa # sb THEN sa > sb ELSE a < b

\* consider replaces the best so far by a candidate of higher priority, so that
\* the one that none outranks is left, whatever order they come in.
Best(s, ids) == {i \in ids : \A j \in ids \ {i} : ~HigherPriority(s, j, i)}

MatchNetwork(s, req) ==
    LET considered == Considered(s, req)
        rewrites == {i \in considered : s.net[i].opts.dnsrewrite # {}}
    IN [best |-> Best(s, considered \ rewrites), rewrites |-> rewrites]

MatchHosts(s, req) == {i \in DOMAIN s.hosts : req.host \in s.hosts[i].names}

Verdict(reason, rules, rewrites) == [reason |-> reason, rules |-> rules, rewrites |-> rewrites]
NoMatch == Verdict("NotFilteredNotFound", {}, {})

\* host_matched, to_matched: what is reported of a rule.
HostMatched(s, ids) == {[list_id |-> s.hosts[i].list_id, ip |-> {s.hosts[i].ip}] : i \in ids}
NetMatched(s, ids) == {[list_id |-> s.net[i].list_id, ip |-> {}] : i \in ids}

\* Host rules of the question's address family, or all if there are none.
OfFamily(s, hosts, qtype) ==
    LET family == {i \in hosts : s.hosts[i].ip = (IF qtype = "A" THEN "v4" ELSE "v6")}
    IN IF qtype \in {"A", "AAAA"} /\ family # {} THEN family ELSE hosts

\* match_request on the built sets, in three stages.
AllowVerdict(allow, req) ==
    LET best == MatchNetwork(allow, req).best
        hosts == MatchHosts(allow, req)
    IN IF best # {} THEN Verdict("NotFilteredAllowList", NetMatched(allow, best), {})
       ELSE IF hosts # {} THEN Verdict("NotFilteredAllowList", HostMatched(allow, hosts), {})
       ELSE NoMatch

BlockVerdict(block, req) ==
    LET m == MatchNetwork(block, req)
        rewrites == UNION {block.net[i].opts.dnsrewrite : i \in m.rewrites}
        hosts == MatchHosts(block, req)
    IN IF rewrites # {} /\ \A r \in rewrites : r.kind # "exclude"
       THEN Verdict("RewrittenRule", NetMatched(block, m.rewrites), rewrites)
       ELSE IF m.best # {}
       THEN Verdict(IF \E i \in m.best : block.net[i].allowlist
                    THEN "NotFilteredAllowList" ELSE "FilteredBlockList", NetMatched(block, m.best), {})
       ELSE IF hosts # {}
       THEN Verdict("FilteredBlockList", HostMatched(block, OfFamily(block, hosts, req.qtype)), {})
       ELSE NoMatch

MatchRequest(allow, block, req) ==
    IF req.host = <<>> THEN NoMatch
    ELSE LET a == AllowVerdict(allow, req)
         IN IF a # NoMatch THEN a ELSE BlockVerdict(block, req)

(***************************************************************************)
(* Reading lists.                                                          *)
(***************************************************************************)
EngineInit == lines \in Preloaded

\* One line of a list, of a blocklist or of an allowlist.
AddLine(set, id, line) ==
    /\ id <= MaxLines
    /\ lines' = Append(lines, [set |-> set, id |-> id, line |-> line])

NextList == 1 + Max({lines[i].id : i \in DOMAIN lines} \union {0})

EngineNext ==
    \/ \E line \in Lines : AddLine("block", NextList, line)
    \/ \E line \in AllowLines : AddLine("allow", NextList, line)

EngineSpec == EngineInit /\ [][EngineNext]_lines

(***************************************************************************)
(* Properties.                                                             *)
(***************************************************************************)
\* What a rule says, read without any index: its whole pattern as the regular
\* expression it stands for.
SaysAnything(r, req) ==
    ModifiersApply(r.opts, req) /\ RegexMatches(ToRegex(r.pattern), Target(r.pattern, req.host))

\* What is considered with the indexes is what matches without them.
HidesNothing(s) ==
    \A req \in Requests :
        Considered(s, req) = {i \in DOMAIN s.net : /\ SaysAnything(s.net[i], req)
                                                  /\ CanonicalText(s.net[i]) \notin s.badfilter}

\* The indexes hide no rule and hand on none that does not match: the domain
\* index by suffixes, the shortcut index by hashed windows behind its gates and
\* the scan list together find exactly the rules whose expression matches.
\* (shortcut.rs: "this only widens the candidate set, never narrows it";
\* rule.rs: "a suffix walk is exactly equivalent to the regex".)
IndexesHideNothing == \A set \in {"allow", "block"} : HidesNothing(RuleSet(set))

\* The rules that match, that no badfilter cancels and that rewrite nothing.
Speaking(s, req) ==
    {i \in DOMAIN s.net : /\ SaysAnything(s.net[i], req)
                          /\ CanonicalText(s.net[i]) \notin s.badfilter
                          /\ s.net[i].opts.dnsrewrite = {}}

\* Where an allowlist speaks, or an exception and no important blocking rule
\* does, nothing is blocked.
ExceptionsWin(allow, block) ==
    \A req \in Requests :
        LET speaking == Speaking(block, req)
            excepted == \E i \in speaking : block.net[i].allowlist
            important == \E i \in speaking : ~block.net[i].allowlist /\ block.net[i].opts.important
        IN Speaking(allow, req) # {} \/ (excepted /\ ~important)
              => MatchRequest(allow, block, req).reason # "FilteredBlockList"

\* A line read into the allowlists, or an exception that is not outranked, is
\* the last word: nothing read later, short of an important blocking rule or a
\* rewrite, makes the verdict a block again.
ExceptionsHold == ExceptionsWin(RuleSet("allow"), RuleSet("block"))
=============================================================================
