------------------------------ MODULE Clients ------------------------------
(***************************************************************************)
(* Who a request is from: `clients.rs` of sift-dns and the discovery of    *)
(* `discovery.rs`.                                                         *)
(*                                                                         *)
(* `runtime` is the store of discovered clients; the persistent clients    *)
(* are a sequence of records that Persistent::build makes of the           *)
(* configured ones.  An engine is a name, {} is none.                      *)
(***************************************************************************)
EXTENDS Answers

CONSTANTS
    Addrs,        \* addresses of clients
    HostsFile,    \* the system's hosts file: address to name
    ArpTable,     \* the system's ARP table: address to MAC
    RdnsNames,    \* what a reverse lookup may return, "" for nothing
    LocalNets,    \* default_private_networks
    SourceSets,   \* configured sources of discovery
    DiscoveryQueue  \* QUEUE of discovery.rs

VARIABLES
    runtime,   \* [Addrs -> [known, name, source, mac, whois]]
    sources,   \* Sources: which of "hosts", "arp", "rdns", "whois" are on
    priming,   \* what prime has still to record: sequence of [addr, from]
    lookups,   \* the discovery queue
    resolving  \* the address whose reverse lookup is under way, as a set

clientVars == <<runtime, sources, priming, lookups, resolving>>

Unknown == [known |-> FALSE, name |-> "", source |-> "", mac |-> {}, whois |-> FALSE]

(***************************************************************************)
(* Runtime.                                                                *)
(***************************************************************************)
\* rank, rank_of
SourceRank == [s \in {"", "whois", "rdns", "arp", "dhcp", "hosts"} |->
                 CASE s \in {"", "whois"} -> 0 [] s = "rdns" -> 1 [] s = "arp" -> 2
                   [] s = "dhcp" -> 3 [] s = "hosts" -> 4]

\* set_name: a source at least as good as the one the name is from.
SetName(c, name, source) ==
    IF name = "" THEN c
    ELSE IF c.name = "" \/ SourceRank[source] >= SourceRank[c.source]
    THEN [c EXCEPT !.known = TRUE, !.name = name, !.source = source]
    ELSE [c EXCEPT !.known = TRUE]

SetMac(c, mac) == [c EXCEPT !.known = TRUE, !.mac = {mac}]

SetWhois(c) == [c EXCEPT !.known = TRUE, !.whois = TRUE]

\* is_local
IsLocal(a) == \E n \in LocalNets : InSubnet(a, n)

ClientsInit ==
    /\ runtime = [a \in Addrs |-> Unknown]
    /\ sources \in SourceSets
    /\ priming = <<>> /\ lookups = <<>> /\ resolving = {}

\* prime, by the discovery task between two lookups: the hosts file and then
\* the ARP table, entry by entry.
PrimeStart ==
    /\ priming = <<>> /\ resolving = {}
    /\ LET Entries(src, table) ==
               IF src \in sources THEN [i \in 1 .. Cardinality(DOMAIN table) |->
                   [addr |-> SetToSeq(DOMAIN table)[i], from |-> src]] ELSE <<>>
       IN priming' = Entries("hosts", HostsFile) \o Entries("arp", ArpTable)
    /\ UNCHANGED <<runtime, sources, lookups, resolving>>

PrimeEntry ==
    /\ priming # <<>>
    /\ LET p == Head(priming)
       IN runtime' = [runtime EXCEPT ![p.addr] =
                        IF p.from = "hosts" THEN SetName(@, HostsFile[p.addr], "hosts")
                        ELSE SetMac(@, ArpTable[p.addr])]
    /\ priming' = Tail(priming)
    /\ UNCHANGED <<sources, lookups, resolving>>

\* Recorder::note_client, Queue::submit: dropped if the queue is full.
NoteClient(a) ==
    /\ lookups' = IF runtime[a].known \/ Len(lookups) >= DiscoveryQueue THEN lookups ELSE Append(lookups, a)
    /\ UNCHANGED <<runtime, sources, priming, resolving>>

\* discover: the sources are read once, and the name is looked at before the
\* reverse lookup and not after it.
DiscoverStart ==
    /\ lookups # <<>> /\ resolving = {} /\ priming = <<>>
    /\ lookups' = Tail(lookups)
    /\ resolving' = {[addr |-> Head(lookups), sources |-> sources,
                      ask |-> "rdns" \in sources /\ runtime[Head(lookups)].name = ""]}
    /\ UNCHANGED <<runtime, sources, priming>>

DiscoverEnd(name, whois) ==
    /\ \E d \in resolving :
          LET named == IF d.ask THEN SetName(runtime[d.addr], name, "rdns") ELSE runtime[d.addr]
              full == IF "whois" \in d.sources /\ ~IsLocal(d.addr) /\ whois THEN SetWhois(named) ELSE named
          IN runtime' = [runtime EXCEPT ![d.addr] = full]
    /\ resolving # {} /\ resolving' = {}
    /\ UNCHANGED <<sources, priming, lookups>>

\* Runtime::set_sources
SetSources(s) == sources' = s /\ UNCHANGED <<runtime, priming, lookups, resolving>>

ClientsNext ==
    \/ PrimeStart \/ PrimeEntry
    \/ DiscoverStart
    \/ \E name \in RdnsNames, whois \in BOOLEAN : DiscoverEnd(name, whois)

(***************************************************************************)
(* Registry.  An identifier is [kind, addr, net, text] of which the kind's *)
(* own field counts; a request's client is [addr, id], sets of at most one.*)
(***************************************************************************)
\* Id::specificity
IdSpecificity(id) ==
    CASE id.kind = "named" -> 1000 [] id.kind = "mac" -> 900 [] id.kind = "addr" -> 800
      [] id.kind = "net" -> id.net.len

IdMatches(id, who, mac) ==
    CASE id.kind = "addr" -> id.addr \in who.addr
      [] id.kind = "net" -> \E a \in who.addr : InSubnet(a, id.net)
      [] id.kind = "mac" -> id.text \in mac
      [] id.kind = "named" -> id.text \in who.id

\* upstream_key: blank lines and comments are dropped.
UpstreamKey(lines) == SelectSeq(lines, LAMBDA l : l \notin {"", "#"})

\* Persistent::build: engines of its own only where it overrides the global.
BuildClient(spec) ==
    [name |-> spec.name, tags |-> spec.tags, ids |-> spec.ids,
     upstreams |-> UpstreamKey(spec.upstreams),
     use_global_settings |-> spec.use_global_settings, filtering |-> spec.filtering,
     use_global_services |-> spec.use_global_services, schedule |-> spec.schedule,
     services |-> IF spec.use_global_services THEN {} ELSE spec.services,
     safe_search |-> IF spec.use_global_settings THEN {} ELSE spec.safe_search]

\* Persistent::score, {} if it does not match.
Score(c, who, mac) ==
    LET s == {IdSpecificity(id) : id \in {i \in c.ids : IdMatches(i, who, mac)}}
    IN IF s = {} THEN {} ELSE {Max(s)}

\* Registry::find: the best score, the last of equal ones.
Find(registry, who, mac) ==
    LET scored == {i \in DOMAIN registry : Score(registry[i], who, mac) # {}}
        best(i) == \A j \in scored : \/ Max(Score(registry[j], who, mac)) < Max(Score(registry[i], who, mac))
                                     \/ Score(registry[j], who, mac) = Score(registry[i], who, mac) /\ j <= i
    IN {registry[i] : i \in {k \in scored : best(k)}}
=============================================================================
