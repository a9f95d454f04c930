------------------------------ MODULE Answers ------------------------------
(***************************************************************************)
(* DNS messages as the resolver builds and shapes them: `msg.rs`,          *)
(* `edns.rs`, `dns64.rs` and `ddr.rs` of sift-dns.                         *)
(*                                                                         *)
(* A request is [id, questions, ad, opt], a response [id, rcode, ad, tc,   *)
(* opt, ans, auth, add].  A question is [name, qtype], a record [name,     *)
(* type, ttl, addr]; `addr` is the set of the address it carries.  An OPT  *)
(* record is [do, size, subnet]; `opt` is the set of the one there is.  An *)
(* address is [fam, bits], a network [fam, bits, len].                     *)
(***************************************************************************)
EXTENDS Naturals, Sequences, SequencesExt, FiniteSetsExt

CONSTANTS
    V4Bits,       \* bits of an IPv4 address (32)
    MaxPrefix,    \* MAX_PREFIX_BITS (96): an IPv6 address has both
    SubnetBits,   \* DEFAULT_PREFIX_V4 and DEFAULT_PREFIX_V6, by family
    WellKnown,    \* the Well-Known Prefix of NAT64
    MinPayload,   \* MIN_UDP_PAYLOAD
    UdpPayload,   \* UDP_PAYLOAD
    HeaderSize, NameSize,  \* encoded sizes of a header and of a whole name
    BlockedTtl,   \* DEFAULT_BLOCKED_TTL
    SynthTtl,     \* MAX_SYNTH_TTL
    DdrTtl,       \* ddr::TTL
    DdrHost,      \* _dns.resolver.arpa
    ReverseOf     \* the reverse names, with the address each stands for

Width(fam) == IF fam = 4 THEN V4Bits ELSE V4Bits + MaxPrefix

(***************************************************************************)
(* Addresses and networks.                                                 *)
(***************************************************************************)
\* mask, mask_v6: what is below the prefix is zero.
MaskBits(bits, n) == [i \in DOMAIN bits |-> IF i <= n THEN bits[i] ELSE 0]

\* clients::in_subnet: the same family, a prefix that fits it, equal masks.
InSubnet(a, net) ==
    /\ a.fam = net.fam /\ net.len <= Width(net.fam)
    /\ MaskBits(a.bits, net.len) = MaskBits(net.bits, net.len)

\* addr_from_reverse: {} for a name that is no whole reverse name.
AddrFromReverse(name) == IF name \in DOMAIN ReverseOf THEN {ReverseOf[name]} ELSE {}

(***************************************************************************)
(* EDNS.                                                                   *)
(***************************************************************************)
DnssecOk(req) == \E o \in req.opt : o.do
WantsDnssec(req) == DnssecOk(req) \/ req.ad

\* A new OPT record, or the one there is.
OptOf(req) == IF req.opt = {} THEN [do |-> FALSE, size |-> UdpPayload, subnet |-> {}]
              ELSE CHOOSE o \in req.opt : TRUE

\* set_subnet: the masked address, in place of any subnet the client sent.
SetSubnet(req, a) ==
    LET net == [fam |-> a.fam, bits |-> MaskBits(a.bits, SubnetBits[a.fam]), len |-> SubnetBits[a.fam]]
    IN [req EXCEPT !.opt = {[OptOf(req) EXCEPT !.subnet = {net}]}]

StripSubnet(req) == [req EXCEPT !.opt = {[o EXCEPT !.subnet = {}] : o \in @}]

SetDnssecOk(req) == [req EXCEPT !.opt = {[OptOf(req) EXCEPT !.do = TRUE]}]

\* mirror_request: an OPT record answers one, with the client's DO and size.
MirrorRequest(req, resp) ==
    [resp EXCEPT !.opt =
        {LET own == IF resp.opt = {} THEN {} ELSE (CHOOSE x \in resp.opt : TRUE).subnet
         IN [do |-> o.do, size |-> o.size, subnet |-> own] : o \in req.opt}]

(***************************************************************************)
(* Responses built here.                                                   *)
(***************************************************************************)
QName(req) == IF req.questions = <<>> THEN <<>> ELSE req.questions[1].name
QType(req) == IF req.questions = <<>> THEN "A" ELSE req.questions[1].qtype

Reply(req, rcode) ==
    [id |-> req.id, rcode |-> rcode, ad |-> FALSE, tc |-> FALSE, opt |-> {},
     ans |-> <<>>, auth |-> <<>>, add |-> <<>>]

Rec(name, type, ttl, addr) == [name |-> name, type |-> type, ttl |-> ttl, addr |-> addr]

SoaRecord(req, ttl) == Rec(QName(req), "SOA", IF ttl = 0 THEN BlockedTtl ELSE ttl, {})

NoData(req, ttl) == [Reply(req, "NOERROR") EXCEPT !.auth = <<SoaRecord(req, ttl)>>]
NxDomain(req, ttl) == [Reply(req, "NXDOMAIN") EXCEPT !.auth = <<SoaRecord(req, ttl)>>]
Refused(req) == Reply(req, "REFUSED")
ServFail(req) == Reply(req, "SERVFAIL")

\* The address family a question asks for.
Family(qtype) == CASE qtype = "A" -> 4 [] qtype = "AAAA" -> 6 [] OTHER -> 0

\* with_addrs: those of the question's family.
WithAddrs(req, addrs, ttl) ==
    LET family == SelectSeq(addrs, LAMBDA a : a.fam = Family(QType(req)))
    IN [Reply(req, "NOERROR") EXCEPT
          !.ans = [i \in DOMAIN family |-> Rec(QName(req), QType(req), ttl, {family[i]})]]

\* with_cname, as the resolver calls it: no addresses follow.
WithCname(req, ttl) ==
    [Reply(req, "NOERROR") EXCEPT !.ans = <<Rec(QName(req), "CNAME", ttl, {})>>]

NullAddr(qtype) ==
    IF Family(qtype) = 0 THEN <<>>
    ELSE <<[fam |-> Family(qtype), bits |-> [i \in 1 .. Width(Family(qtype)) |-> 0]]>>

\* msg::blocked: in the configured mode, a rule's own address first.
BlockedReply(req, b, ruleAddrs) ==
    LET qtype == QType(req)
        usable == SelectSeq(ruleAddrs, LAMBDA a : a.fam = Family(qtype))
        custom == IF qtype = "A" THEN b.custom_v4 ELSE IF qtype = "AAAA" THEN b.custom_v6 ELSE {}
    IN IF qtype \notin {"A", "AAAA", "HTTPS"}
       THEN IF b.mode = "null_ip" THEN Reply(req, "NOERROR") ELSE NoData(req, b.ttl)
       ELSE CASE b.mode = "refused" -> Refused(req)
              [] b.mode = "nxdomain" -> NxDomain(req, b.ttl)
              [] b.mode = "custom_ip" -> WithAddrs(req, SetToSeq(custom), b.ttl)
              [] b.mode = "null_ip" -> WithAddrs(req, NullAddr(qtype), b.ttl)
              [] b.mode = "default" ->
                   WithAddrs(req, IF usable = <<>> THEN NullAddr(qtype) ELSE usable, b.ttl)

\* ddr::respond: SVCB records in the order HTTPS, TLS, QUIC.
DdrIsQuery(req) == QName(req) = DdrHost
DdrRespond(req, ep) ==
    LET served == SelectSeq(<<"https", "tls", "quic">>, LAMBDA e : e \in ep.served)
    IN [Reply(req, "NOERROR") EXCEPT
          !.ans = IF QType(req) # "SVCB" \/ ~ep.named THEN <<>>
                  ELSE [i \in DOMAIN served |-> Rec(DdrHost, "SVCB", DdrTtl, {})]]

(***************************************************************************)
(* Shaping.                                                                *)
(***************************************************************************)
DnssecTypes == {"RRSIG", "DNSKEY", "DS", "NSEC", "NSEC3"}

\* strip_dnssec: but for the type that was asked for.
StripDnssec(resp, qtype) ==
    LET Keep(r) == r.type = qtype \/ r.type \notin DnssecTypes
    IN [resp EXCEPT !.ans = SelectSeq(@, Keep), !.auth = SelectSeq(@, Keep), !.add = SelectSeq(@, Keep)]

ShapeToRequest(req, resp) ==
    LET stripped == IF DnssecOk(req) THEN resp ELSE StripDnssec(resp, QType(req))
        told == IF WantsDnssec(req) THEN stripped ELSE [stripped EXCEPT !.ad = FALSE]
    IN MirrorRequest(req, told)

UdpLimit(req) == Max({MinPayload} \union {o.size : o \in req.opt})

\* encoded_len: a name that was written before is a pointer.
EncodedLen(qname, resp) ==
    LET all == resp.ans \o resp.auth \o resp.add
        size(i) == 1 + (IF all[i].name = qname \/ \E j \in 1 .. i - 1 : all[j].name = all[i].name
                        THEN 1 ELSE NameSize)
    IN HeaderSize + Cardinality(resp.opt) + FoldLeft(LAMBDA n, i : n + size(i), 0, [i \in DOMAIN all |-> i])

\* set_prefix: the first `keep` records, each in its own section.
SetPrefix(resp, keep) ==
    LET all == resp.ans \o resp.auth \o resp.add
        a == Min({keep, Len(resp.ans)})
        b == Min({keep, Len(resp.ans) + Len(resp.auth)})
    IN [resp EXCEPT !.ans = SubSeq(all, 1, a), !.auth = SubSeq(all, a + 1, b), !.add = SubSeq(all, b + 1, keep)]

\* Mutant of Truncate: the halving stops one record too far.
TruncateLate(qname, resp, limit) ==
    LET total == Len(resp.ans) + Len(resp.auth) + Len(resp.add)
        Fits(n) == EncodedLen(qname, SetPrefix(resp, n)) <= limit
        keep == Min({n \in 0 .. total : n = total \/ ~Fits(n)})
    IN IF EncodedLen(qname, resp) <= limit THEN resp
       ELSE [SetPrefix(resp, keep) EXCEPT !.tc = TRUE]

\* truncate: the prefix is found by halving.
Truncate(qname, resp, limit) ==
    LET total == Len(resp.ans) + Len(resp.auth) + Len(resp.add)
        Fits(n) == EncodedLen(qname, SetPrefix(resp, n)) <= limit
        kept[lo \in 0 .. total, hi \in 0 .. total] ==
            IF lo >= hi THEN lo
            ELSE LET mid == (lo + hi + 1) \div 2
                 IN IF Fits(mid) THEN kept[mid, hi] ELSE kept[lo, mid - 1]
    IN IF EncodedLen(qname, resp) <= limit THEN resp
       ELSE [SetPrefix(resp, kept[0, total]) EXCEPT !.tc = kept[0, total] < total]

\* clamp_ttls: a bound of zero is none.
ClampRecords(recs, low, high) ==
    [i \in DOMAIN recs |-> [recs[i] EXCEPT !.ttl =
        LET t == IF @ < low THEN low ELSE @ IN IF high > 0 /\ t > high THEN high ELSE t]]
ClampMessage(resp, low, high) ==
    [resp EXCEPT !.ans = ClampRecords(@, low, high), !.auth = ClampRecords(@, low, high),
                 !.add = ClampRecords(@, low, high)]

(***************************************************************************)
(* DNS64.                                                                  *)
(***************************************************************************)
\* Prefixes::new: masked, in order; the Well-Known Prefix if none is usable.
Dns64Prefixes(enabled, configured) ==
    LET usable == SelectSeq(configured, LAMBDA p : p.fam = 6 /\ p.len <= MaxPrefix)
        masked == [i \in DOMAIN usable |-> [usable[i] EXCEPT !.bits = MaskBits(@, usable[i].len)]]
    IN IF ~enabled THEN <<>> ELSE IF masked = <<>> THEN <<WellKnown>> ELSE masked

InPrefixes(prefixes, a) == \E i \in DOMAIN prefixes : InSubnet(a, prefixes[i])

\* Prefixes::map: the last bits of the first prefix are the IPv4 address.
MapV4(prefixes, a) ==
    [fam |-> 6, bits |-> SubSeq(prefixes[1].bits, 1, MaxPrefix) \o a.bits]

\* filter_excluded: the answer without addresses that are not real hosts.
FilterExcluded(prefixes, resp) ==
    [resp EXCEPT !.ans = SelectSeq(@, LAMBDA r :
        r.type = "AAAA" => \A a \in r.addr : ~InPrefixes(prefixes, a))]

\* needs_synthesis, on the answer filter_excluded has been through.
NeedsSynthesis(prefixes, req, resp) ==
    /\ prefixes # <<>> /\ QType(req) = "AAAA"
    /\ \/ /\ resp.rcode = "NOERROR"
          /\ \A i \in DOMAIN resp.ans : resp.ans[i].type # "AAAA"
       \/ resp.rcode \notin {"NOERROR", "NXDOMAIN"}

\* synthesize: nothing from an empty answer.
Synthesize(prefixes, req, resp, a) ==
    LET soa == SelectSeq(resp.auth, LAMBDA r : r.type = "SOA" /\ r.name = QName(req))
        cap == IF soa = <<>> THEN SynthTtl ELSE soa[1].ttl
        Mapped(r) == IF r.type # "A" THEN r
                     ELSE [r EXCEPT !.type = "AAAA", !.ttl = Min({@, cap}),
                                    !.addr = {MapV4(prefixes, x) : x \in @}]
    IN IF a.ans = <<>> THEN resp
       ELSE [resp EXCEPT !.rcode = "NOERROR", !.ans = [i \in DOMAIN a.ans |-> Mapped(a.ans[i])],
                         !.auth = a.auth]
=============================================================================
