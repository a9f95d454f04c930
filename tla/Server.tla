------------------------------- MODULE Server -------------------------------
(***************************************************************************)
(* What a query passes on its way to the resolver (Server::handle_as): the *)
(* access lists, the rate limiter for datagrams and the bound on requests  *)
(* handled at once, while a save of the settings replaces each of them.    *)
(*                                                                         *)
(* A query is a record in `queries', kept in the slot of the connection or *)
(* the datagram it came by; module Listeners puts it there and takes the   *)
(* outcome.  Every lock acquisition and every await is a step of its own.  *)
(* Addresses are numbers of a family's width.  Time is in ticks, and the   *)
(* tokens of a bucket are counted in shares of 1/TicksPerSecond, so that   *)
(* the refill is exact.                                                    *)
(***************************************************************************)
EXTENDS Integers, FiniteSets, FiniteSetsExt

CONSTANTS
    Slots,           \* where a query may be handled
    WidthOf,         \* address family -> bits of an address
    ServerSettings,  \* what may be saved: [max, allowed, disallowed, limit, guard]
    TicksPerSecond,  \* ticks of the clock to a second
    SweepAt,         \* SWEEP_AT of the limiter
    IdleTtl,         \* IDLE_TTL, in ticks
    Scenes           \* the bounds of the behaviours, a sequence of
                     \* [start, protos, peers, parses, visits, saves, ticks]

ASSUME ServerBounds ==
    /\ TicksPerSecond \in Nat \ {0}
    /\ IdleTtl \in Nat /\ IdleTtl >= TicksPerSecond
    /\ \A i \in DOMAIN Scenes :
          /\ Scenes[i].visits \in Nat /\ Scenes[i].saves \in Nat /\ Scenes[i].ticks \in Nat
          /\ Scenes[i].start \in ServerSettings
    /\ \A to \in ServerSettings :
          to.limit.per_second \in Nat /\ to.guard.strikes \in Nat

VARIABLES
    scene,     \* which of the bounds hold for this behaviour
    queries,   \* Server's tasks: slot -> the query being handled there
    access,    \* Server.access
    limit,     \* Limiter.cfg
    buckets,   \* Limiter.buckets: subnet -> [tokens, last]
    semaphores,\* every semaphore made so far: sequence of permits, 0 for none
    saving,    \* the save of settings under way: {} or {[to, step]}
    saves,     \* saves started
    ticks,     \* the clock
    spent      \* ghost: [of, late, since], see NothingSpent

serverVars == <<scene, queries, access, limit, buckets, semaphores, saving, saves, ticks, spent>>

-----------------------------------------------------------------------------
(* Addresses and the access lists.                                         *)

\* Zeroes every bit of a number below its top bits.
MaskBits(n, bits, width) ==
    IF bits >= width THEN n ELSE (n \div 2^(width - bits)) * 2^(width - bits)

\* in_net: host bits of the network are ignored, and families never match.
InNet(ip, net, bits) ==
    /\ ip.fam = net.fam
    /\ MaskBits(ip.n, bits, WidthOf[ip.fam]) = MaskBits(net.n, bits, WidthOf[ip.fam])

\* subnet_key: the address a query is limited under.
SubnetKey(ip, lens) ==
    LET w == WidthOf[ip.fam]
    IN  [ip EXCEPT !.n = MaskBits(ip.n, Min({lens[ip.fam], w}), w)]

\* parse_access_entry: an entry is an address, a network or a ClientID, and
\* what is none of them, a prefix longer than the address too, is dropped.
ParseAccessEntry(e) ==
    CASE e.form = "cidr" /\ e.bits > WidthOf[e.ip.fam] -> {}
      [] e.form = "label" /\ ~e.valid -> {}
      [] OTHER -> {e}

\* AccessList::parse: the entries, sorted into the three forms.
AccessListOf(entries) ==
    LET parsed == UNION {ParseAccessEntry(e) : e \in entries}
    IN  [ips  |-> {e.ip : e \in {p \in parsed : p.form = "ip"}},
         nets |-> {<<e.ip, e.bits>> : e \in {p \in parsed : p.form = "cidr"}},
         ids  |-> {e.id : e \in {p \in parsed : p.form = "label"}}]

IsEmptyList(list) == list.ips = {} /\ list.nets = {} /\ list.ids = {}

HasIp(list, ip) == ip \in list.ips \/ \E net \in list.nets : InNet(ip, net[1], net[2])

HasId(list, id) == id \cap list.ids # {}

\* Access::permits.  A listed address or a listed ClientID is enough to be let
\* in, and either is enough to be kept out.
Permits(ac, ip, id) ==
    IF ~IsEmptyList(ac.allowed)
    THEN HasIp(ac.allowed, ip) \/ HasId(ac.allowed, id)
    ELSE ~HasIp(ac.disallowed, ip) /\ ~HasId(ac.disallowed, id)

-----------------------------------------------------------------------------
(* The rate limiter.                                                       *)

\* Tokens a bucket holds when full, in shares.
Capacity(conf) == conf.per_second * TicksPerSecond

\* Instant::duration_since: zero for an instant that is yet to come.
Since(now, then) == IF now > then THEN now - then ELSE 0

\* Sweeping forgets the buckets that have been idle, once there are too many.
Sweep(map, now) ==
    IF Cardinality(DOMAIN map) >= SweepAt
    THEN [k \in {j \in DOMAIN map : Since(now, map[j].last) < IdleTtl} |-> map[k]]
    ELSE map

\* Mutant of Refilled: what a bucket holds is not cut to the capacity.
RefilledUncut(map, key, conf, now) ==
    IF key \in DOMAIN map
    THEN map[key].tokens + Since(now, map[key].last) * conf.per_second
    ELSE Capacity(conf)

\* A bucket after the refill for the time since it was last used.  A bucket
\* seen for the first time is full.
Refilled(map, key, conf, now) ==
    IF key \in DOMAIN map
    THEN Min({map[key].tokens + Since(now, map[key].last) * conf.per_second, Capacity(conf)})
    ELSE Capacity(conf)

-----------------------------------------------------------------------------
(* handle_as.                                                              *)

NoQuery == [pc |-> "none"]

\* What the caller hands over: the address and the ClientID the query is
\* attributed to, the transport, and whether its bytes parse.
NewQuery(proto, ip, id, parses) ==
    [pc |-> "access", proto |-> proto, ip |-> ip, id |-> id, parses |-> parses,
     conf |-> {}, at |-> 0, sem |-> 0]

IsDatagram(proto) == proto = "udp"

Moved(s, pc) == queries' = [queries EXCEPT ![s].pc = pc]

\* The access lists are read.  A refused datagram is dropped, a refused stream
\* told so.
CheckAccess(s) ==
    /\ queries[s].pc = "access"
    /\ LET q == queries[s]
       IN  Moved(s, CASE Permits(access, q.ip, q.id) ->
                             IF IsDatagram(q.proto) THEN "limit" ELSE "bound"
                      [] OTHER -> IF IsDatagram(q.proto) \/ ~q.parses THEN "silent" ELSE "refused")
    /\ UNCHANGED <<scene, access, limit, buckets, semaphores, saving, saves, ticks, spent>>

\* Limiter::allow reads its settings under one lock and then the clock.
ReadLimit(s) ==
    /\ queries[s].pc = "limit"
    /\ IF limit.per_second = 0 \/ queries[s].ip \in limit.allowlist
       THEN Moved(s, "bound")
       ELSE queries' = [queries EXCEPT ![s].pc = "charge", ![s].conf = {limit},
                                          ![s].at = ticks]
    /\ UNCHANGED <<scene, access, limit, buckets, semaphores, saving, saves, ticks, spent>>

\* And charges the bucket of the subnet under another lock, by when both the
\* settings and the clock may have moved on.
Charge(s) ==
    /\ queries[s].pc = "charge"
    /\ \E conf \in queries[s].conf, now \in queries[s].at..ticks :
         LET key == SubnetKey(queries[s].ip, conf.lens)
             map == Sweep(buckets, now)
             tokens == Refilled(map, key, conf, now)
             allowed == tokens >= TicksPerSecond
             left == IF allowed THEN tokens - TicksPerSecond ELSE tokens
             cost == IF allowed /\ conf = limit THEN TicksPerSecond ELSE 0
             extra == IF now # ticks \/ (conf # limit /\ key \in DOMAIN map)
                      THEN Capacity(limit) ELSE 0
         IN  /\ buckets' = [k \in DOMAIN map \cup {key} |->
                               IF k = key THEN [tokens |-> left, last |-> now] ELSE map[k]]
             /\ queries' = [queries EXCEPT ![s].pc = IF allowed THEN "bound" ELSE "silent",
                                           ![s].conf = {}, ![s].at = 0]
             /\ spent' = [spent EXCEPT !.of[key] = @ + cost, !.late[key] = @ + extra]
    /\ UNCHANGED <<scene, access, limit, semaphores, saving, saves, ticks>>

\* The semaphore in force is taken note of: a later one does not concern this
\* query.
ReadBound(s) ==
    /\ queries[s].pc = "bound"
    /\ queries' = [queries EXCEPT ![s].pc = "wait", ![s].sem = Cardinality(DOMAIN semaphores)]
    /\ UNCHANGED <<scene, access, limit, buckets, semaphores, saving, saves, ticks, spent>>

\* The queries that hold a permit of a semaphore.
Holders(g) == {s \in Slots : queries[s].pc = "resolve" /\ queries[s].sem = g}

\* Mutant of AcquirePermit: no bound is a bound of none.
AcquirePermitOfNone(s) ==
    /\ queries[s].pc = "wait"
    /\ Cardinality(Holders(queries[s].sem)) < semaphores[queries[s].sem]
    /\ Moved(s, "resolve")
    /\ UNCHANGED <<scene, access, limit, buckets, semaphores, saving, saves, ticks, spent>>

\* A permit is acquired, or none is needed.
AcquirePermit(s) ==
    /\ queries[s].pc = "wait"
    /\ LET g == queries[s].sem
       IN  semaphores[g] = 0 \/ Cardinality(Holders(g)) < semaphores[g]
    /\ Moved(s, "resolve")
    /\ UNCHANGED <<scene, access, limit, buckets, semaphores, saving, saves, ticks, spent>>

\* The message is parsed and resolved; the permit goes with the end of the
\* call.  Nothing is sent for what does not parse or the resolver drops.
ResolveQuery(s, outcome) ==
    /\ queries[s].pc = "resolve"
    /\ ~queries[s].parses => outcome = "silent"
    /\ Moved(s, outcome)
    /\ UNCHANGED <<scene, access, limit, buckets, semaphores, saving, saves, ticks, spent>>

-----------------------------------------------------------------------------
(* A save of the settings: each part is replaced under its own lock.       *)

StartSave(to) ==
    /\ saving = {}
    /\ saves < Scenes[scene].saves
    /\ saving' = {[to |-> to, step |-> "max"]}
    /\ saves' = saves + 1
    /\ UNCHANGED <<scene, queries, access, limit, buckets, semaphores, ticks, spent>>

\* set_max_concurrent makes a new semaphore; permits of the old one stay out.
SetMaxConcurrent(save) ==
    /\ save.step = "max"
    /\ LET g == Cardinality(DOMAIN semaphores) + 1
       IN  semaphores' = [i \in 1..g |-> IF i = g THEN save.to.max ELSE semaphores[i]]
    /\ saving' = {[save EXCEPT !.step = "access"]}
    /\ UNCHANGED <<scene, queries, access, limit, buckets, saves, ticks, spent>>

SetAccess(save) ==
    /\ save.step = "access"
    /\ access' = [allowed |-> AccessListOf(save.to.allowed),
                  disallowed |-> AccessListOf(save.to.disallowed)]
    /\ saving' = {[save EXCEPT !.step = "limit"]}
    /\ UNCHANGED <<scene, queries, limit, buckets, semaphores, saves, ticks, spent>>

\* Limiter::set_config writes the settings and then clears the buckets.
SetLimit(save) ==
    /\ save.step = "limit"
    /\ limit' = save.to.limit
    /\ saving' = {[save EXCEPT !.step = "clear"]}
    /\ UNCHANGED <<scene, queries, access, buckets, semaphores, saves, ticks, spent>>

NoBuckets == [k \in {} |-> [tokens |-> 0, last |-> 0]]

Addresses == UNION {[fam : {f}, n : 0..(2^WidthOf[f] - 1)] : f \in DOMAIN WidthOf}

\* Ghost.  What the queries of a subnet, limited by the settings in force,
\* have spent since the buckets were last cleared; a burst for each query that
\* charged by a time that was past, or found the subnet's bucket with settings
\* that were; and when the clear was.
NothingSpent(at) ==
    [of |-> [k \in Addresses |-> 0], late |-> [k \in Addresses |-> 0], since |-> at]

ClearBuckets(save) ==
    /\ save.step = "clear"
    /\ buckets' = NoBuckets
    /\ spent' = NothingSpent(ticks)
    /\ saving' = {[save EXCEPT !.step = "guard"]}
    /\ UNCHANGED <<scene, queries, access, limit, semaphores, saves, ticks>>

ServerInit ==
    /\ scene \in DOMAIN Scenes
    /\ queries = [s \in Slots |-> NoQuery]
    /\ \E to \in {Scenes[scene].start} :
          /\ access = [allowed |-> AccessListOf(to.allowed),
                       disallowed |-> AccessListOf(to.disallowed)]
          /\ limit = to.limit
          /\ semaphores = [i \in {1} |-> to.max]
    /\ buckets = NoBuckets
    /\ saving = {} /\ saves = 0 /\ ticks = 0
    /\ spent = NothingSpent(0)

HandleAs(s) ==
    \/ CheckAccess(s)
    \/ ReadLimit(s)
    \/ Charge(s)
    \/ ReadBound(s)
    \/ AcquirePermit(s)
    \/ \E outcome \in {"answered", "silent"} : ResolveQuery(s, outcome)

SaveServer ==
    \/ \E to \in ServerSettings : StartSave(to)
    \/ \E save \in saving :
          SetMaxConcurrent(save) \/ SetAccess(save) \/ SetLimit(save) \/ ClearBuckets(save)

-----------------------------------------------------------------------------
\* The limit holds through a change of it: since the buckets were last
\* cleared, the queries of a subnet let through under the limit in force are
\* at most one burst and what the time since has refilled, and a burst for
\* each query that was overtaken: by the clock, or by a change of the limit
\* before it charged a bucket made since.  A query that read the old settings
\* may also make the bucket after the clear, with the old capacity; the
\* refill's cut is what keeps that from being spent (ratelimit.rs:84-113).
LimitHolds ==
    (limit.per_second # 0 /\ \A save \in saving : save.step # "clear") =>
        \A k \in DOMAIN spent.of :
            spent.of[k] <= Capacity(limit) + spent.late[k]
                             + (ticks - spent.since) * limit.per_second

\* Not so, see the README: a reload that
\* replaces the semaphore lets a second set of queries in beside the first
\* (server.rs:262), so that more are handled at once than either bound says.
BoundHolds ==
    LET g == Cardinality(DOMAIN semaphores)
    IN  semaphores[g] = 0 \/ Cardinality({s \in Slots : queries[s].pc = "resolve"}) <= semaphores[g]
=============================================================================
