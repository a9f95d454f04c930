------------------------------ MODULE MCEngine ------------------------------
(***************************************************************************)
(* Lists of up to MaxLines lines.  The scheme is "ht", a window two        *)
(* characters and a shortcut at least one; a line of the shortcut table    *)
(* has one slot and the domain index starts with two, so that both         *)
(* overflow, wrap and grow with two or three rules.                        *)
(***************************************************************************)
EXTENDS Engine

MCScheme == <<"h", "t">>

\* Digits of base eight: slots collide, hashes of different texts do not.
Code == [c \in {"a", "b", "h", "t", ".", ":", "/"} |->
           CASE c = "a" -> 1 [] c = "b" -> 2 [] c = "h" -> 3 [] c = "t" -> 4 [] OTHER -> 5]
MCHash(s) == 1 + FoldLeft(LAMBDA n, c : 8 * n + Code[c], 0, s)

A == <<"a">>
B == <<"b">>
AB == <<"a", ".", "b">>
BA == <<"b", ".", "a">>

Pat(start, body, end) == [start |-> start, body |-> body, end |-> end, regex |-> FALSE]
Regex(body) == [start |-> "", body |-> body, end |-> FALSE, regex |-> TRUE]
Net(allow, pattern, mods) ==
    [form |-> "adblock", allow |-> allow, pattern |-> pattern, mods |-> mods, too_long |-> FALSE]
Flag(n) == [name |-> n, text |-> n, value |-> {}]
Mod(n, text, value) == [name |-> n, text |-> text, value |-> value]
Val(v) == [value |-> v, negated |-> FALSE]
Not(v) == [value |-> v, negated |-> TRUE]
Anchor(d) == Pat("||", Append(d, "^"), FALSE)

MCLineOf == [
    comment |-> [form |-> "comment"],
    cosmetic |-> [form |-> "cosmetic"],
    anchorA |-> Net(FALSE, Anchor(A), <<>>),
    anchorB |-> Net(FALSE, Anchor(B), <<>>),
    anchorAB |-> Net(FALSE, Anchor(AB), <<>>),
    exceptAB |-> Net(TRUE, Anchor(AB), <<>>),
    importantB |-> Net(FALSE, Anchor(B), <<Flag("important")>>),
    exceptImportantAB |-> Net(TRUE, Anchor(AB), <<Flag("important")>>),
    badAB |-> Net(FALSE, Anchor(AB), <<Flag("badfilter")>>),
    badImportantB |-> Net(FALSE, Anchor(B), <<Flag("badfilter"), Flag("important")>>),
    typedB |-> Net(FALSE, Anchor(B), <<Flag("popup"), Mod("dnstype", "dnstype=A", {Val("A")})>>),
    clientB |-> Net(FALSE, Anchor(B), <<Mod("client", "client=~c1", {Not("c1")})>>),
    taggedAny |-> Net(FALSE, Pat("", <<"*">>, FALSE), <<Mod("ctag", "ctag=pc", {Val("pc")})>>),
    denyB |-> Net(FALSE, Pat("", <<>>, FALSE), <<Mod("denyallow", "denyallow=b", {B})>>),
    unknown |-> Net(FALSE, Anchor(B), <<Flag("important"), Flag("replace")>>),
    rewriteAB |-> Net(FALSE, Anchor(AB), <<Mod("dnsrewrite", "dnsrewrite=v4", <<"v4">>)>>),
    nxB |-> Net(FALSE, Anchor(B), <<Mod("dnsrewrite", "dnsrewrite=NXDOMAIN;;", <<"NXDOMAIN", "", "">>)>>),
    keepAB |-> Net(TRUE, Anchor(AB), <<Mod("dnsrewrite", "dnsrewrite", <<>>)>>),
    open |-> Net(FALSE, Pat("||", AB, FALSE), <<>>),
    prefix |-> Net(FALSE, Pat("|", <<"b", "a">>, FALSE), <<>>),
    suffix |-> Net(FALSE, Pat("", <<"a", "b">>, TRUE), <<>>),
    middle |-> Net(FALSE, Pat("", <<"a", "*", "b", "a">>, FALSE), <<>>),
    long |-> Net(FALSE, Pat("", <<"a", "b", "a", "a">>, FALSE), <<>>),
    sep |-> Net(TRUE, Pat("://", <<"a", "b", "^">>, FALSE), <<>>),
    scheme |-> Net(FALSE, Pat("", <<"t", "*", "b", "b">>, FALSE), <<>>),
    inscheme |-> Net(FALSE, Pat("://", <<"*", "t">>, FALSE), <<>>),
    regexAB |-> Net(FALSE, Regex(<<"BOL", "a", "\\.", "b", "EOL">>), <<>>),
    hosts4 |-> [form |-> "hosts", ip |-> "v4", names |-> {AB, <<"a", ".", ".">>}],
    hosts6 |-> [form |-> "hosts", ip |-> "v6", names |-> {AB, B}],
    noHosts |-> [form |-> "hosts", ip |-> "v4", names |-> {<<".">>}],
    regexDot |-> Net(FALSE, Regex(<<"a", ".", "b">>), <<>>),
    regexOptional |-> Net(FALSE, Regex(<<"a", "b", "b", "?">>), <<>>),
    overlong |-> [Net(FALSE, Anchor(AB), <<>>) EXCEPT !.too_long = TRUE]]

\* Lines whose rules the indexes are not made for, see the README.
Odd == {"regexDot", "regexOptional", "overlong"}
MCLines == DOMAIN MCLineOf \ Odd
RegexLines == {"regexDot", "regexOptional"}
OverlongLines == {"overlong", "anchorAB"}
MCAllowLines == {"anchorB", "exceptAB", "nxB", "hosts4", "long", "badAB"}

Req(host, qtype, client, tags) == [host |-> host, qtype |-> qtype, client |-> client, tags |-> tags]
MCRequests ==
    {Req(h, "A", {"c1", "tablet"}, {}) :
        h \in {A, B, AB, BA, <<"a", "b">>, <<"b", ".", "a", ".", "b">>, <<"a", "b", "a", "a">>,
               <<"b", "a", "b">>, <<"a", ".", "b", "a">>, <<"b", "b">>, <<"a", "b", "a", "b", "a", "a">>}}
    \union {Req(AB, "AAAA", {"c2"}, {"pc"}), Req(B, "TXT", {}, {"pc"})}

\* An engine starts empty, or with a list that fills the tables.
Block(line, id) == [set |-> "block", id |-> id, line |-> line]
MCPreloaded == {<<>>, <<Block("anchorA", 0), Block("middle", 0), Block("long", 0), Block("importantB", 0)>>}

MCTypes == {"A", "AAAA", "TXT", "CNAME"}
=============================================================================
