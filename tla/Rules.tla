------------------------------- MODULE Rules -------------------------------
(***************************************************************************)
(* Lines of filter lists and the rules they parse to: `rule.rs` and        *)
(* `pattern.rs` of sift-filter.                                            *)
(*                                                                         *)
(* Names and patterns are sequences of characters, because shortcuts and   *)
(* their windows are substrings.  A line is a record: the separators that  *)
(* the parser looks for (`$`, `,`, `|`, `;`, white space) are where its    *)
(* fields and sequences end.  An optional value is a set of at most one.   *)
(***************************************************************************)
EXTENDS Naturals, Sequences, SequencesExt, FiniteSetsExt

CONSTANTS
    Scheme,       \* "http", as a sequence of characters
    MinShortcut,  \* MIN_SHORTCUT_LEN
    Types,        \* the record types rr_type_from_str knows
    RCodes        \* the response codes rcode_from_str knows but NOERROR

\* What is not a literal character of a name.
Letters == {"a", "b", "c", "d", "e", "g", "h", "m", "p", "t", "x"}
Url(host) == Scheme \o <<":", "/", "/">> \o host

(***************************************************************************)
(* Names: sift_core::name.                                                 *)
(***************************************************************************)
\* name::suffixes: the name itself and what follows each of its dots.
DomainSuffixes(host) ==
    {host} \union {SubSeq(host, i + 1, Len(host)) :
                     i \in {j \in 1 .. Len(host) - 1 : host[j] = "."}}

\* is_subdomain_of: the name itself, or one that ends with a dot and the domain.
IsSubdomainOf(host, domain) ==
    \/ host = domain
    \/ /\ Len(host) > Len(domain)
       /\ SubSeq(host, Len(host) - Len(domain) + 1, Len(host)) = domain
       /\ host[Len(host) - Len(domain)] = "."

\* is_valid: no empty label.  (Lengths of real names are not reached.)
IsValid(host) ==
    /\ host # <<>> /\ host[1] # "." /\ host[Len(host)] # "."
    /\ \A i \in 1 .. Len(host) - 1 : ~(host[i] = "." /\ host[i + 1] = ".")

(***************************************************************************)
(* Patterns.  A wildcard pattern is [start, body, end, regex |-> FALSE]:   *)
(* its start "||", "|", "://" or "", a body of characters, "*" and "^", and *)
(* whether it ends with "|".  A /regex/ has the same shape with            *)
(* regex |-> TRUE; there "\\." is an escaped dot, "." any character, "?"   *)
(* makes the character before it optional.                                 *)
(***************************************************************************)
MatchesAll(p) == ~p.regex /\ ~p.end /\ (p.body = <<>> \/ (p.start = "" /\ p.body = <<"*">>))

\* domain_anchor_of: exactly ||domain^ with a valid domain.
DomainAnchorOf(p) ==
    LET dom == Front(p.body)
    IN IF /\ ~p.regex /\ p.start = "||" /\ ~p.end
          /\ Len(p.body) > 1 /\ Last(p.body) = "^"
          /\ IsValid(dom) /\ Range(dom) \subseteq Letters \union {"."}
       THEN {dom} ELSE {}

\* target_for: the URL for patterns with a URL prefix, else the host name.
Target(p, host) == IF ~p.regex /\ p.start \in {"||", "://"} THEN Url(host) ELSE host

\* to_regex: the tokens of the expression.  "URL" is the regex for `||`,
\* "BOL" and "EOL" the assertions, "SEP" the separator class, "ANY" is `.*`.
ToRegex(p) ==
    IF MatchesAll(p) THEN <<"ANY">>
    ELSE IF p.regex THEN p.body
    ELSE (CASE p.start = "||" -> <<"URL">> [] p.start = "|" -> <<"BOL">>
            [] p.start = "://" -> <<":", "/", "/">> [] OTHER -> <<>>)
         \o [i \in DOMAIN p.body |->
                CASE p.body[i] = "*" -> "ANY" [] p.body[i] = "^" -> "SEP"
                  [] p.body[i] = "." -> "\\." [] OTHER -> p.body[i]]
         \o (IF p.end THEN <<"EOL">> ELSE <<>>)

\* The positions (numbers of characters consumed) that a token leads to.
RegexStep(text, from, token, optional) ==
    LET n == Len(text)
        Char(ok(_)) == {i + 1 : i \in {j \in from : j < n /\ ok(text[j + 1])}}
        next == CASE token = "BOL" -> from \intersect {0}
                  [] token = "EOL" -> from \intersect {n}
                  [] token = "ANY" -> {i \in 0 .. n : \E j \in from : j <= i}
                  [] token = "SEP" -> Char(LAMBDA c : c \notin Letters \union {"."})
                                        \union (from \intersect {n})
                  [] token = "URL" -> IF 0 \notin from \/ ~IsPrefix(Url(<<>>), text) THEN {}
                                      ELSE {Len(Url(<<>>))}
                                           \union {i \in Len(Url(<<>>)) + 2 .. n : text[i] = "."}
                  [] token = "." -> Char(LAMBDA c : TRUE)
                  [] token = "\\." -> Char(LAMBDA c : c = ".")
                  [] OTHER -> Char(LAMBDA c : c = token)
    IN IF optional THEN next \union from ELSE next

\* Regex::is_match: somewhere in the text unless anchored.
RegexMatches(rx, text) ==
    LET Step(from, i) ==
            IF rx[i] = "?" THEN from
            ELSE RegexStep(text, from, rx[i], i < Len(rx) /\ rx[i + 1] = "?")
    IN FoldLeft(Step, 0 .. Len(text), [i \in 1 .. Len(rx) |-> i]) # {}

\* pattern::shortcut: the longest run of literal characters, the first of
\* equally long ones, if long enough.
Shortcut(p) ==
    LET literal == Letters \union {"."}
        runs == {r \in (1 .. Len(p.body)) \X (1 .. Len(p.body)) :
                   r[1] <= r[2] /\ \A k \in r[1] .. r[2] : p.body[k] \in literal}
        best == CHOOSE r \in runs : \A s \in runs :
                    \/ s[2] - s[1] < r[2] - r[1]
                    \/ (s[2] - s[1] = r[2] - r[1] /\ r[1] <= s[1])
        text == SubSeq(p.body, best[1], best[2])
    IN IF runs # {} /\ Len(text) >= MinShortcut THEN {text} ELSE {}

(***************************************************************************)
(* Modifiers.                                                              *)
(***************************************************************************)
\* StrList, TypeList: values that must match and values that must not.
ParseList(values) == [included |-> {v.value : v \in {w \in values : ~w.negated}},
                      excluded |-> {v.value : v \in {w \in values : w.negated}}]
ListMatches(l, v) == v \notin l.excluded /\ (l.included = {} \/ v \in l.included)
ListMatchesAny(l, vs) ==
    vs \intersect l.excluded = {} /\ (l.included = {} \/ vs \intersect l.included # {})

\* parse_dnsrewrite: shorthand for one part, RCODE;TYPE;VALUE for three.  An
\* address is "v4" or "v6"; what is neither an rcode nor an address is a name.
ParseDnsRewrite(parts) ==
    LET Is(k, v) == {[kind |-> k, value |-> v]}
        first == parts[1]
    IN CASE parts = <<>> -> Is("exclude", "")
         [] Len(parts) = 1 /\ first = "NOERROR" -> Is("exclude", "")
         [] Len(parts) \in {1, 2, 3} /\ first \in RCodes -> Is("rcode", first)
         [] Len(parts) = 1 /\ first \in {"v4", "v6"} -> Is("addr", first)
         [] Len(parts) = 1 /\ first \notin RCodes \union {"NOERROR", "v4", "v6"} -> Is("cname", first)
         [] Len(parts) = 2 /\ first = "NOERROR" -> Is("rcode", first)
         [] Len(parts) = 3 /\ first = "NOERROR" /\ parts[2] \in {"A", "AAAA"} ->
                IF parts[3] \in {"v4", "v6"} THEN Is("addr", parts[3]) ELSE {}
         [] Len(parts) = 3 /\ first = "NOERROR" /\ parts[2] = "CNAME" -> Is("cname", parts[3])
         [] Len(parts) = 3 /\ first = "NOERROR" /\ parts[2] \in Types \ {"A", "AAAA", "CNAME"} -> Is("record", parts[2])
         [] OTHER -> {}

NoOptions == [important |-> FALSE, badfilter |-> FALSE, dnstype |-> {}, client |-> {},
              ctag |-> {}, denyallow |-> {}, dnsrewrite |-> {}]

\* Modifiers of HTTP filtering that are accepted and ignored.
Inert == {"domain", "third-party", "popup", "document", "all"}

\* parse_options: one modifier after another, the last of a kind counts; {}
\* if one is unknown or its value is not understood.
ParseOptions(mods) ==
    LET Parse(acc, m) ==
          IF acc = {} THEN {}
          ELSE LET o == CHOOSE x \in acc : TRUE
               IN CASE m.name = "important" -> {[o EXCEPT !.important = TRUE]}
                    [] m.name = "badfilter" -> {[o EXCEPT !.badfilter = TRUE]}
                    [] m.name = "dnstype" ->
                         IF \E v \in m.value : v.value \notin Types THEN {}
                         ELSE {[o EXCEPT !.dnstype = {ParseList(m.value)}]}
                    [] m.name = "client" -> {[o EXCEPT !.client = {ParseList(m.value)}]}
                    [] m.name = "ctag" -> {[o EXCEPT !.ctag = {ParseList(m.value)}]}
                    [] m.name = "denyallow" -> {[o EXCEPT !.denyallow = m.value]}
                    [] m.name = "dnsrewrite" ->
                         {[o EXCEPT !.dnsrewrite = {r}] : r \in ParseDnsRewrite(m.value)}
                    [] m.name \in Inert -> {o}
                    [] OTHER -> {}
    IN FoldLeft(Parse, {NoOptions}, mods)

\* calcRuleSpecs: how many modifiers a rule carries.
Specificity(o) ==
    Cardinality({f \in {"important", "badfilter"} : o[f]})
    + Cardinality({f \in {"dnstype", "client", "ctag", "denyallow", "dnsrewrite"} : o[f] # {}})

(***************************************************************************)
(* parse: {} for comments, cosmetic rules and what is not understood.  A   *)
(* hosts line without a valid name is tried as a network rule, whose       *)
(* pattern then contains a space and matches no host name.                 *)
(***************************************************************************)
ParseHostRule(l, id) ==
    LET names == {n \in l.names : IsValid(n)}
    IN IF names = {} THEN {}
       ELSE {[rule |-> "host", ip |-> l.ip, names |-> names, list_id |-> id]}

ParseNetworkRule(l, id) ==
    {[rule |-> "network", allowlist |-> l.allow, pattern |-> l.pattern, opts |-> o,
      list_id |-> id, domain |-> DomainAnchorOf(l.pattern),
      shortcut |-> Shortcut(l.pattern), too_long |-> l.too_long,
      text |-> [allow |-> l.allow, pattern |-> l.pattern,
                mods |-> [i \in DOMAIN l.mods |-> l.mods[i].text]]] :
        o \in ParseOptions(l.mods)}

Parse(l, id) ==
    CASE l.form \in {"comment", "cosmetic"} -> {}
      [] l.form = "hosts" -> ParseHostRule(l, id)
      [] l.form = "adblock" -> ParseNetworkRule(l, id)
=============================================================================
