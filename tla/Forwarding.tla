----------------------------- MODULE Forwarding -----------------------------
(***************************************************************************)
(* The path of a question through the cache and the upstreams: steps 9 and *)
(* 10 of Resolver::resolve, Resolver::forward and the refresh worker of    *)
(* sift-dns/src/refresh.rs, over the coalescing of module Pending.         *)
(*                                                                         *)
(* A task is a client's query or one background refresh.  It awaits only   *)
(* in the exchange and in Waiter::wait, but runs on a thread of its own,   *)
(* so every lock it takes is a step: the cache's shard, the map of client  *)
(* pools, the refresh queue and the locks of Pending.  The cache is an     *)
(* entry per key here; module Cache has its inside.                        *)
(***************************************************************************)
EXTENDS Pending, Sequences, FiniteSets

CONSTANTS
    Queries,         \* the tasks that are clients' queries
    Refreshes,       \* the tasks the refresh worker spawns
    Clients,         \* records [upstreams, subnet]: eff.upstreams and the ECS
    Names,           \* questions
    Global,          \* no upstreams of one's own
    Ttls,            \* TTLs an upstream may answer with
    TtlMin, TtlMax,  \* Settings.cache_ttl_min and cache_ttl_max
    PendingEnabled,  \* Settings.pending_enabled
    QueueBound,      \* refresh::QUEUE
    Concurrent,      \* refresh::CONCURRENT
    NoEntry, NoJob

\* cache::Key: the question and the upstreams it is scoped to.
CacheKeys == [name : Names, upstreams : {c.upstreams : c \in Clients}]

Subnets == {c.subnet : c \in Clients}

Pools == {c.upstreams : c \in Clients} \cup {Global}

\* An upstream's answer: who gave it, for which subnet, with which TTL.
Messages == [pool : Pools, subnet : Subnets, ttl : Ttls]

\* refresh::Job: a key and the client it is refreshed for.
Jobs == [key : CacheKeys, client : Clients]

ASSUME ForwardingAssumption ==
    /\ Tasks = Queries \cup Refreshes
    /\ Queries \cap Refreshes = {}
    /\ Keys = [key : CacheKeys, subnet : Subnets]
    /\ Answers = Messages
    /\ Ttls \subseteq Nat /\ TtlMin \in Nat /\ TtlMax \in Nat
    /\ PendingEnabled \in BOOLEAN
    /\ QueueBound \in Nat \ {0} /\ Concurrent \in Nat \ {0}
    /\ NoJob \notin Jobs

VARIABLES
    cache,      \* Resolver.cache: [msg, stale, refreshing] of each key
    queue,      \* the refresh channel: jobs [key, client]
    taken,      \* the job the worker received and has no permit for yet
    ready,      \* Resolver.client_pools: the upstreams with a pool
    attached,   \* Resolver.refresh is set
    stage,      \* how far t is through resolve, or through its refresh
    asks,       \* t's client and question: [client, key]
    pool,       \* pool_for's answer: [pool, own]
    alone,      \* what t's exchange returned when it was not coalesced
    reply       \* what t was answered: [msg, from], or Failed

forwardVars == <<cache, queue, taken, ready, attached, stage, asks, pool,
                 alone, reply>>

allVars == <<inflight, answer, notified, role, pkey, watches, result, cache,
             queue, taken, ready, attached, stage, asks, pool, alone, reply>>

\* Answers after clamp_ttls may hold either bound.
Held == [pool : Pools, subnet : Subnets, ttl : Ttls \cup {TtlMin, TtlMax}]

Stages == {"idle", "lookup", "claimed", "giveup", "bypass", "forward", "enter",
           "coalesced", "exchange", "store", "ending", "done", "dropped"}

ForwardTypeOK ==
    /\ PendingTypeOK
    /\ cache \in [CacheKeys ->
                    [msg : Held, stale : BOOLEAN, refreshing : BOOLEAN]
                      \cup {NoEntry}]
    /\ queue \in Seq(Jobs) /\ Len(queue) <= QueueBound
    /\ taken \in Jobs \cup {NoJob}
    /\ ready \subseteq Pools
    /\ attached \in BOOLEAN
    /\ stage \in [Tasks -> Stages]
    /\ asks \in [Tasks -> Jobs \cup {NoJob}]
    /\ pool \in [Tasks -> [pool : Pools, own : BOOLEAN]]
    /\ alone \in [Tasks -> Results]
    /\ reply \in [Tasks -> [msg : Held, from : {"cache", "leader", "upstream"}]
                             \cup {Failed}]

\* msg::clamp_ttls; a bound of zero is no bound.
ClampTtls(m) ==
    LET low == IF m.ttl < TtlMin THEN TtlMin ELSE m.ttl
    IN  [m EXCEPT !.ttl = IF TtlMax > 0 /\ low > TtlMax THEN TtlMax ELSE low]

\* What earlier queries for k, by clients of its upstreams, may have left.
Earlier(k) ==
    LET subnets == {c.subnet : c \in {c \in Clients : c.upstreams = k.upstreams}}
    IN  {NoEntry} \cup
          {[msg |-> ClampTtls(m), stale |-> FALSE, refreshing |-> FALSE] :
             m \in {m \in Messages : m.pool = k.upstreams /\ m.subnet \in subnets}}

ForwardInit ==
    /\ PendingInit
    /\ cache \in {f \in [CacheKeys -> UNION {Earlier(k) : k \in CacheKeys}] :
                    \A k \in CacheKeys : f[k] \in Earlier(k)}
    /\ queue = <<>>
    /\ taken = NoJob
    /\ ready = {}
    /\ attached \in BOOLEAN
    /\ stage = [t \in Tasks |-> "idle"]
    /\ asks = [t \in Tasks |-> NoJob]
    /\ pool = [t \in Tasks |-> [pool |-> Global, own |-> FALSE]]
    /\ alone = [t \in Tasks |-> Failed]
    /\ reply = [t \in Tasks |-> Failed]

At(t, s) == stage[t] = s

Goto(t, s) == stage' = [stage EXCEPT ![t] = s]

\* A query has its answer; a refresh goes on to Cache::end_refresh.
Finish(t, answered) ==
    /\ Goto(t, IF t \in Refreshes THEN "ending" ELSE "done")
    /\ reply' = [reply EXCEPT ![t] = answered]

\* Cache::end_refresh: by key, and nothing if the entry is gone.
EndRefresh(k) ==
    cache' = IF cache[k] = NoEntry THEN cache
             ELSE [cache EXCEPT ![k].refreshing = FALSE]

(***************************************************************************)
(* Resolver::resolve: the cache.                                           *)
(***************************************************************************)
Arrive(t, c, n) ==
    /\ t \in Queries
    /\ At(t, "idle")
    /\ asks' = [asks EXCEPT ![t] =
                  [key |-> [name |-> n, upstreams |-> c.upstreams],
                   client |-> c]]
    /\ Goto(t, "lookup")
    /\ UNCHANGED <<pendingVars, cache, queue, taken, ready, attached, pool,
                   alone, reply>>

LookupMiss(t) ==
    /\ At(t, "lookup")
    /\ cache[asks[t].key] = NoEntry
    /\ Goto(t, "forward")
    /\ UNCHANGED <<pendingVars, cache, queue, taken, ready, attached, asks,
                   pool, alone, reply>>

\* Cache::get claims the refresh of an entry that needs one and has none:
\* every stale entry, and a fresh one that is popular and about to expire.
\* An expired entry is served only if a worker can replace it.
LookupHit(t, expiring) ==
    LET k == asks[t].key
        e == cache[k]
        serve == ~e.stale \/ attached
        refresh == (e.stale \/ expiring) /\ ~e.refreshing
    IN  /\ At(t, "lookup")
        /\ e # NoEntry
        /\ cache' = [cache EXCEPT ![k].refreshing = @ \/ refresh]
        /\ reply' = IF serve
                      THEN [reply EXCEPT ![t] = [msg |-> e.msg, from |-> "cache"]]
                      ELSE reply
        /\ Goto(t, IF serve
                     THEN IF refresh THEN "claimed" ELSE "done"
                     ELSE IF refresh THEN "bypass" ELSE "forward")
        /\ UNCHANGED <<pendingVars, queue, taken, ready, attached, asks, pool,
                       alone>>

\* Mutant of QueueRefresh: a full channel drops the job and keeps its claim.
QueueRefreshDrops(t) ==
    /\ At(t, "claimed")
    /\ queue' = IF attached /\ Len(queue) < QueueBound
                  THEN Append(queue, asks[t]) ELSE queue
    /\ Goto(t, "done")
    /\ UNCHANGED <<pendingVars, cache, taken, ready, attached, asks, pool,
                   alone, reply>>

\* queue_refresh: no sender, room in the channel, or a full channel.
QueueRefresh(t) ==
    /\ At(t, "claimed")
    /\ IF attached /\ Len(queue) < QueueBound
         THEN queue' = Append(queue, asks[t])
         ELSE UNCHANGED queue
    /\ Goto(t, IF attached /\ Len(queue) = QueueBound THEN "giveup" ELSE "done")
    /\ UNCHANGED <<pendingVars, cache, taken, ready, attached, asks, pool,
                   alone, reply>>

\* The claim is given back: after a full channel, or to go upstream instead.
ReturnClaim(t) ==
    /\ stage[t] \in {"giveup", "bypass"}
    /\ EndRefresh(asks[t].key)
    /\ Goto(t, IF At(t, "giveup") THEN "done" ELSE "forward")
    /\ UNCHANGED <<pendingVars, queue, taken, ready, attached, asks, pool,
                   alone, reply>>

(***************************************************************************)
(* Resolver::forward.                                                      *)
(***************************************************************************)
\* Mutant of PoolFor: a pool that stands in counts as the client's own.
PoolForStandIn(upstreams) ==
    [pool |-> IF upstreams \in ready THEN upstreams ELSE Global, own |-> TRUE]

\* pool_for: the global pool stands in, uncached, for one not ready yet.
PoolFor(upstreams) ==
    IF upstreams \in ready \cup {Global}
      THEN [pool |-> upstreams, own |-> TRUE]
      ELSE [pool |-> Global, own |-> FALSE]

ChoosePool(t) ==
    /\ At(t, "forward")
    /\ LET p == PoolFor(asks[t].key.upstreams)
       IN  /\ pool' = [pool EXCEPT ![t] = p]
           /\ Goto(t, IF p.own /\ PendingEnabled THEN "enter" ELSE "exchange")
    /\ UNCHANGED <<pendingVars, cache, queue, taken, ready, attached, asks,
                   alone, reply>>

\* Mutant of PendingKey: the client's subnet is left out.
PendingKeyAnywhere(t) ==
    [key |-> asks[t].key, subnet |-> CHOOSE s \in Subnets : TRUE]

PendingKey(t) == [key |-> asks[t].key, subnet |-> asks[t].client.subnet]

Enter(t) ==
    /\ At(t, "enter")
    /\ Follow(t, PendingKey(t)) \/ Lead(t, PendingKey(t))
    /\ Goto(t, "coalesced")
    /\ UNCHANGED <<cache, queue, taken, ready, attached, asks, pool, alone, reply>>

\* What the pool chosen for t may return, for the subnet t sends.
Outcomes(t) ==
    {Failed} \cup {m \in Messages : /\ m.pool = pool[t].pool
                                    /\ m.subnet = asks[t].client.subnet}

\* The exchange of a leader, and then the rest of Leader::finish.
LeaderExchange(t, r) ==
    /\ At(t, "coalesced")
    /\ r \in Outcomes(t)
    /\ Publish(t, r)
    /\ UNCHANGED forwardVars

LeaderUnlink(t) == Unlink(t) /\ UNCHANGED forwardVars

LeaderNotify(t) ==
    /\ Notify(t)
    /\ stage' = IF At(t, "coalesced") THEN [stage EXCEPT ![t] = "store"] ELSE stage
    /\ UNCHANGED <<cache, queue, taken, ready, attached, asks, pool, alone, reply>>

\* Mutant of FollowerReply: a follower waits for an answer, not for the
\* signal.
FollowerReplyOnSuccess(t) ==
    /\ Wake(t)
    /\ result'[t] # Failed
    /\ Finish(t, [msg |-> result'[t], from |-> "leader"])
    /\ UNCHANGED <<cache, queue, taken, ready, attached, asks, pool, alone>>

\* A follower returns what it was given, as it was given.
FollowerReply(t) ==
    /\ Wake(t)
    /\ Finish(t, IF result'[t] = Failed THEN Failed
                 ELSE [msg |-> result'[t], from |-> "leader"])
    /\ UNCHANGED <<cache, queue, taken, ready, attached, asks, pool, alone>>

\* An exchange that is not coalesced.
Exchange(t, r) ==
    /\ At(t, "exchange")
    /\ r \in Outcomes(t)
    /\ alone' = [alone EXCEPT ![t] = r]
    /\ Goto(t, "store")
    /\ UNCHANGED <<pendingVars, cache, queue, taken, ready, attached, asks,
                   pool, reply>>

Returned(t) == IF role[t] = "released" THEN result[t] ELSE alone[t]

\* Clamp, store under the client's key if its own pool answered, and return.
\* Cache::put may refuse (disabled, oversized, not cacheable).
Store(t, accepted) ==
    /\ At(t, "store")
    /\ Returned(t) # Failed
    /\ LET m == ClampTtls(Returned(t))
       IN  /\ cache' = IF pool[t].own /\ accepted
                         THEN [cache EXCEPT ![asks[t].key] =
                                [msg |-> m, stale |-> FALSE, refreshing |-> FALSE]]
                         ELSE cache
           /\ Finish(t, [msg |-> m, from |-> "upstream"])
    /\ UNCHANGED <<pendingVars, queue, taken, ready, attached, asks, pool, alone>>

\* Nothing answered: SERVFAIL for a query.
NoAnswer(t) ==
    /\ At(t, "store")
    /\ Returned(t) = Failed
    /\ Finish(t, Failed)
    /\ UNCHANGED <<pendingVars, cache, queue, taken, ready, attached, asks,
                   pool, alone>>

\* A query's future is dropped at an await, its connection gone.
DropQuery(t) ==
    /\ t \in Queries
    /\ \/ At(t, "exchange") /\ UNCHANGED pendingVars
       \/ At(t, "coalesced") /\ (Abandon(t) \/ Leave(t))
    /\ Goto(t, "dropped")
    /\ UNCHANGED <<cache, queue, taken, ready, attached, asks, pool, alone, reply>>

(***************************************************************************)
(* refresh::run.                                                           *)
(***************************************************************************)
Running == {t \in Refreshes : stage[t] \notin {"idle", "done"}}

\* The worker receives a job and then waits for a permit, holding it.
Receive ==
    /\ taken = NoJob
    /\ queue # <<>>
    /\ taken' = Head(queue)
    /\ queue' = Tail(queue)
    /\ UNCHANGED <<pendingVars, cache, ready, attached, stage, asks, pool,
                   alone, reply>>

SpawnRefresh(t) ==
    /\ t \in Refreshes
    /\ At(t, "idle")
    /\ taken # NoJob
    /\ Cardinality(Running) < Concurrent
    /\ asks' = [asks EXCEPT ![t] = taken]
    /\ taken' = NoJob
    /\ Goto(t, "forward")
    /\ UNCHANGED <<pendingVars, cache, queue, ready, attached, pool, alone, reply>>

\* "Whether or not it worked."
RefreshDone(t) ==
    /\ At(t, "ending")
    /\ EndRefresh(asks[t].key)
    /\ Goto(t, "done")
    /\ UNCHANGED <<pendingVars, queue, taken, ready, attached, asks, pool,
                   alone, reply>>

(***************************************************************************)
(* The surroundings: time, eviction and reloads.                           *)
(***************************************************************************)
Expire(k) ==
    /\ cache[k] # NoEntry
    /\ ~cache[k].stale
    /\ cache' = [cache EXCEPT ![k].stale = TRUE]
    /\ UNCHANGED <<pendingVars, queue, taken, ready, attached, stage, asks,
                   pool, alone, reply>>

Evict(k) ==
    /\ cache[k] # NoEntry
    /\ cache' = [cache EXCEPT ![k] = NoEntry]
    /\ UNCHANGED <<pendingVars, queue, taken, ready, attached, stage, asks,
                   pool, alone, reply>>

\* Resolver::set_client_pools: the whole map is replaced.
SetClientPools(ups) ==
    /\ ready # ups
    /\ ready' = ups
    /\ UNCHANGED <<pendingVars, cache, queue, taken, attached, stage, asks,
                   pool, alone, reply>>

TaskStep(t) ==
    \/ LookupMiss(t)
    \/ \E expiring \in BOOLEAN : LookupHit(t, expiring)
    \/ QueueRefresh(t)
    \/ ReturnClaim(t)
    \/ ChoosePool(t)
    \/ Enter(t)
    \/ \E r \in Results : LeaderExchange(t, r)
    \/ LeaderUnlink(t)
    \/ LeaderNotify(t)
    \/ FollowerReply(t)
    \/ \E r \in Results : Exchange(t, r)
    \/ \E accepted \in BOOLEAN : Store(t, accepted)
    \/ NoAnswer(t)
    \/ RefreshDone(t)

ForwardNext ==
    \/ \E t \in Tasks : TaskStep(t)
    \/ \E t \in Tasks, c \in Clients, n \in Names : Arrive(t, c, n)
    \/ \E t \in Tasks : DropQuery(t)
    \/ \E t \in Tasks : SpawnRefresh(t)
    \/ Receive
    \/ \E k \in CacheKeys : Expire(k) \/ Evict(k)
    \/ \E ups \in SUBSET (Pools \ {Global}) : SetClientPools(ups)

\* The runtime polls every task that can run and an exchange ends, with an
\* answer or by its timeouts.  Nothing is assumed of the refresh worker: no
\* query waits for it.
ForwardFairness == \A t \in Tasks : WF_allVars(TaskStep(t))

ForwardSpec == ForwardInit /\ [][ForwardNext]_allVars /\ ForwardFairness

(***************************************************************************)
(* Properties.                                                             *)
(***************************************************************************)
\* "An answer from one client's own resolvers is never handed to a client
\* using different ones" (resolver.rs:758-760): an entry holds an answer of
\* the upstreams it is scoped to, although the pools are replaced between
\* choosing one and storing its answer, and the global pool stands in for
\* one that is not ready.
EntriesStayScoped ==
    \A k \in CacheKeys : cache[k] # NoEntry => cache[k].msg.pool = k.upstreams

\* "Two clients in different subnets can legitimately get different answers,
\* so their requests must not be merged" (pending.rs:19-20): whoever is
\* answered by an exchange, its own or its leader's, has an answer from the
\* pool chosen for it and for the subnet it would have sent.
AnsweredAsAsked ==
    \A t \in Tasks :
        reply[t] # Failed /\ reply[t].from # "cache" =>
            /\ reply[t].msg.pool = pool[t].pool
            /\ reply[t].msg.subnet = asks[t].client.subnet

\* Someone who will release the claim on k holds it: the lookup that made
\* it, the queue, the worker or a running refresh.
Carried(k) ==
    \/ \E t \in Queries : stage[t] \in {"claimed", "giveup"} /\ asks[t].key = k
    \/ \E i \in 1..Len(queue) : queue[i].key = k
    \/ taken # NoJob /\ taken.key = k
    \/ \E t \in Running : asks[t].key = k

\* While a worker is attached, an entry marked as refreshing is in the hands
\* of someone who will release it.  Otherwise it is never refreshed again.
ClaimsAreCarried ==
    \A k \in CacheKeys :
        attached /\ cache[k] # NoEntry /\ cache[k].refreshing => Carried(k)

Bounded(ttl) == ttl >= TtlMin /\ (TtlMax > 0 => ttl <= TtlMax)

\* "Lower bound applied to answer TTLs", "Upper bound applied to answer
\* TTLs" (resolver.rs:109,111): every answer a client is given is within
\* the configured bounds.
RepliedTtlsBounded ==
    \A t \in Queries : reply[t] # Failed => Bounded(reply[t].msg.ttl)

\* "The client the entry was stored for, which decides the subnet sent"
\* (refresh.rs:38): the job a lookup queues carries the client whose
\* subnet the entry it found was fetched for.
RefreshForStoredClient ==
    \A t \in Queries :
        At(t, "claimed") => reply[t].msg.subnet = asks[t].client.subnet

\* Every query is answered, if only with SERVFAIL, or its client is gone: no
\* queue, claim or leader keeps it waiting for ever.
QueriesAnswered ==
    \A t \in Queries : At(t, "lookup") ~> stage[t] \in {"done", "dropped"}
=============================================================================
