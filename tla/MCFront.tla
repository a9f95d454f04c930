------------------------------- MODULE MCFront ------------------------------
EXTENDS Listeners

V4(n) == [fam |-> 4, n |-> n]
MCWidthOf == [f \in {4} |-> 2]

Entry(form, n, bits, id, valid) ==
    [form |-> form, ip |-> V4(n), bits |-> bits, id |-> id, valid |-> valid]

Limits(n) == [per_second |-> n, lens |-> [f \in {4} |-> 1], allowlist |-> {V4(3)}]

\* Open to all but a network and a ClientID, and open to one network only.
Blocklist == [max |-> 1, allowed |-> {}, limit |-> Limits(1),
              disallowed |-> {Entry("cidr", 1, 2, "none", FALSE), Entry("label", 0, 0, "bad", TRUE)},
              guard |-> [strikes |-> 2, allowlist |-> {V4(3)}, exempt_local |-> TRUE]]
Allowlist == [max |-> 0, limit |-> Limits(3), disallowed |-> {},
              allowed |-> {Entry("cidr", 1, 1, "none", FALSE), Entry("cidr", 0, 9, "none", FALSE)},
              guard |-> [strikes |-> 1, allowlist |-> {}, exempt_local |-> FALSE]]
MCServerSettings == {Blocklist, Allowlist}

\* Datagrams through a change of the limit, of one subnet and another while
\* buckets go idle, and through a change of the access lists; streams of one
\* source, so that it strikes out, and of two; and web clients through a proxy.
Scene(start, protos, peers, parses, nvisits, nsaves, nticks) ==
    [start |-> start, protos |-> protos, peers |-> {V4(n) : n \in peers},
     parses |-> parses, visits |-> nvisits, saves |-> nsaves, ticks |-> nticks]
MCScenes == <<Scene(Allowlist, {"udp"}, {0}, {TRUE}, 3, 1, 1),
              Scene(Blocklist, {"udp"}, {0, 2}, {TRUE}, 3, 0, 2),
              Scene(Allowlist, {"udp"}, {0, 3}, BOOLEAN, 2, 1, 0),
              Scene(Blocklist, {"tls"}, {0}, {TRUE}, 3, 0, 2),
              Scene(Blocklist, {"quic", "tls"}, {0}, BOOLEAN, 2, 0, 0),
              Scene(Blocklist, {"tcp"}, {0}, BOOLEAN, 2, 1, 0),
              Scene(Blocklist, {"tcp"}, {0, 1}, {TRUE}, 3, 0, 1),
              Scene(Blocklist, {"https", "http3"}, {0}, BOOLEAN, 2, 0, 0)>>
MCLocal == {}
MCServerName == <<"dns">>
MCServerNames == {<<"dns">>, <<"bad", "dns">>}
MCForwarded == {{}, {V4(2)}}
MCTrusted == {V4(0)}
=============================================================================
