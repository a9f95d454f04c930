-------------------------------- MODULE Cache --------------------------------
(***************************************************************************)
(* The response cache as its callers use it: struct Cache of               *)
(* sift-dns/src/cache.rs over one of its shards.                           *)
(*                                                                         *)
(* The settings have a lock of their own.  Cache::get and Cache::put read  *)
(* them before they lock the shard, and Cache::set_config replaces them,   *)
(* resizes the shards and clears them under three separate acquisitions,   *)
(* so each operation is a step per lock it takes.  A lookup told to        *)
(* refresh carries its claim until it calls Cache::end_refresh, storing    *)
(* the new answer first if it got one.                                     *)
(***************************************************************************)
EXTENDS CacheShard

CONSTANTS
    Callers,         \* threads inside the cache
    Configurers,     \* the callers that may run set_config
    Configs,         \* settings a reload may install
    Messages,        \* responses offered to put: [ok, ttl, weight]
    Shards,          \* SHARDS
    RefreshMinHits,  \* REFRESH_MIN_HITS
    MaxTime,         \* bound on the clock, in seconds
    NoClaim

ASSUME CacheAssumption ==
    /\ Configurers \subseteq Callers
    /\ Configs \subseteq [size : Nat, ttl_min : Nat, ttl_max : Nat,
                          optimistic : BOOLEAN, max_age : Nat]
    /\ Messages \subseteq [ok : BOOLEAN, ttl : Nat, weight : Weights]
    /\ Shards \in Nat \ {0}
    /\ RefreshMinHits \in Nat \ {0}
    /\ MaxTime \in Nat
    /\ NoClaim \notin Nat

VARIABLES
    cfg,         \* Cache.cfg
    now,         \* Instant::now, in seconds
    hits,        \* Entry.hits of each key, up to RefreshMinHits
    refreshing,  \* the keys whose Entry.refreshing is set
    call         \* where each caller is

cacheVars == <<map, order, bytes, budget, next_seq, cfg, now, hits,
               refreshing, call>>

\* Mutant of PerShard: a floor that leaves room for an entry.
PerShardRoomy(size) == IF size \div Shards < 4 THEN 4 ELSE size \div Shards

\* Cache::new and Cache::set_config: a shard's share of the budget.
PerShard(size) == IF size \div Shards = 0 THEN 1 ELSE size \div Shards

Idle == [op |-> "idle"]

Calls ==
    [op : {"idle"}]
      \cup [op : {"get"}, key : Keys, cfg : Configs, at : Nat]
      \cup [op : {"ttl"}, key : Keys, msg : Messages,
            claim : Nat \cup {NoClaim}]
      \cup [op : {"put"}, key : Keys, msg : Messages, ttl : Nat,
            claim : Nat \cup {NoClaim}]
      \cup [op : {"claimed", "ending"}, key : Keys, claim : Nat]
      \cup [op : {"resize"}, size : Nat]
      \cup [op : {"check", "clear"}]

CacheTypeOK ==
    /\ ShardTypeOK
    /\ cfg \in Configs
    /\ now \in 0..MaxTime
    /\ hits \in [Keys -> 0..RefreshMinHits]
    /\ refreshing \subseteq Keys
    /\ call \in [Callers -> Calls]

CacheInit ==
    /\ cfg \in Configs
    /\ map = [k \in Keys |-> NoEntry]
    /\ order = {}
    /\ bytes = 0
    /\ budget = PerShard(cfg.size)
    /\ next_seq = 0
    /\ now = 0
    /\ hits = [k \in Keys |-> 0]
    /\ refreshing = {}
    /\ call = [c \in Callers |-> Idle]

Goto(c, state) == call' = [call EXCEPT ![c] = state]

(***************************************************************************)
(* Cache::put.                                                             *)
(***************************************************************************)
\* Cache::cache_ttl_for: the TTL to store a response for, zero for none.
CacheTtlFor(cf, msg) ==
    LET low == IF msg.ttl < cf.ttl_min THEN cf.ttl_min ELSE msg.ttl
        ttl == IF cf.ttl_max > 0 /\ low > cf.ttl_max THEN cf.ttl_max ELSE low
    IN  IF msg.ok THEN ttl ELSE 0

\* What put stores is among what a shard is said to hold.
ASSUME StoredAssumption ==
    \A cf \in Configs, msg \in Messages, t \in 0..MaxTime :
        CacheTtlFor(cf, msg) # 0 =>
            [stored |-> t, ttl |-> CacheTtlFor(cf, msg)] \in Payloads

\* The budgets are those the settings ask for.
ASSUME BudgetsAssumption == \A cf \in Configs : PerShard(cf.size) \in Budgets

\* is_disabled: the settings are read once to see whether the cache is on.
\* The last guard only keeps the stores under way within MaxSeq.
PutCheck(c, k, msg) ==
    /\ \/ call[c].op = "idle"
       \/ call[c].op = "claimed" /\ call[c].key = k
    /\ cfg.size # 0
    /\ next_seq + Cardinality({d \in Callers : call[d].op \in {"ttl", "put"}}) < MaxSeq
    /\ Goto(c, [op |-> "ttl", key |-> k, msg |-> msg,
                claim |-> IF call[c].op = "idle" THEN NoClaim
                                                 ELSE call[c].claim])
    /\ UNCHANGED <<map, order, bytes, budget, next_seq, cfg, now, hits,
                   refreshing>>

\* A put is over; a refresh goes on to release its claim.
AfterPut(c) ==
    Goto(c, IF call[c].claim = NoClaim THEN Idle
            ELSE [op |-> "ending", key |-> call[c].key,
                  claim |-> call[c].claim])

\* cache_ttl_for reads them again, before the shard's lock.
PutTtl(c) ==
    /\ call[c].op = "ttl"
    /\ LET ttl == CacheTtlFor(cfg, call[c].msg)
       IN  IF ttl = 0 THEN AfterPut(c)
           ELSE Goto(c, [op |-> "put", key |-> call[c].key,
                         msg |-> call[c].msg, ttl |-> ttl,
                         claim |-> call[c].claim])
    /\ UNCHANGED <<map, order, bytes, budget, next_seq, cfg, now, hits,
                   refreshing>>

\* The entry is stored, with no hits and no claim, and room is made for it.
\* What eviction removed has no hits and no claim either.
PutStore(c) ==
    /\ call[c].op = "put"
    /\ LET k == call[c].key
       IN  /\ ShardPut(k, call[c].msg.weight,
                       [stored |-> now, ttl |-> call[c].ttl])
           /\ hits' = [x \in Keys |->
                         IF x = k \/ map'[x] = NoEntry THEN 0 ELSE hits[x]]
           /\ refreshing' = {x \in refreshing : x # k /\ map'[x] # NoEntry}
    /\ AfterPut(c)
    /\ UNCHANGED <<cfg, now>>

\* "Oversized single entries are simply not cached."
PutOversized(c) ==
    /\ call[c].op = "put"
    /\ call[c].msg.weight > budget
    /\ AfterPut(c)
    /\ UNCHANGED <<map, order, bytes, budget, next_seq, cfg, now, hits,
                   refreshing>>

(***************************************************************************)
(* Cache::get and Cache::end_refresh.                                      *)
(***************************************************************************)
\* The settings and the time are read before the shard is locked.
GetCheck(c, k) ==
    /\ call[c].op = "idle"
    /\ cfg.size # 0
    /\ Goto(c, [op |-> "get", key |-> k, cfg |-> cfg, at |-> now])
    /\ UNCHANGED <<map, order, bytes, budget, next_seq, cfg, now, hits,
                   refreshing>>

\* Entry::age and Entry::is_expired at time t, which may precede the store.
Age(e, t) == Monus(t, e.payload.stored)

Expired(e, t) == Age(e, t) >= e.payload.ttl

\* An entry that is past its TTL and may not be served stale.
Unservable(cf, e, t) ==
    /\ Expired(e, t)
    /\ ~cf.optimistic \/ Age(e, t) > cf.max_age

\* Entry.ttl / 10, but a second at least, is all that is left of it.
Expiring(cf, e, t, n) ==
    LET remaining == Monus(e.payload.ttl, Age(e, t))
    IN  /\ cf.optimistic
        /\ n >= RefreshMinHits
        /\ remaining <= 1 \/ 10 * remaining <= e.payload.ttl

GetMiss(c) ==
    /\ call[c].op = "get"
    /\ map[call[c].key] = NoEntry
    /\ Goto(c, Idle)
    /\ UNCHANGED <<map, order, bytes, budget, next_seq, cfg, now, hits,
                   refreshing>>

GetDrop(c) ==
    /\ call[c].op = "get"
    /\ LET k == call[c].key
       IN  /\ map[k] # NoEntry
           /\ Unservable(call[c].cfg, map[k], call[c].at)
           /\ ShardRemove(k)
           /\ hits' = [hits EXCEPT ![k] = 0]
           /\ refreshing' = refreshing \ {k}
    /\ Goto(c, Idle)
    /\ UNCHANGED <<cfg, now>>

\* A hit: counted, and told to refresh if the entry needs it and nobody has
\* the claim.
GetHit(c) ==
    /\ call[c].op = "get"
    /\ LET k == call[c].key
           e == map[k]
           t == call[c].at
           n == Min({hits[k] + 1, RefreshMinHits})
           refresh == /\ Expired(e, t) \/ Expiring(call[c].cfg, e, t, n)
                      /\ k \notin refreshing
       IN  /\ e # NoEntry
           /\ ~Unservable(call[c].cfg, e, t)
           /\ hits' = [hits EXCEPT ![k] = n]
           /\ refreshing' = IF refresh THEN refreshing \cup {k} ELSE refreshing
           /\ Goto(c, IF refresh
                        THEN [op |-> "claimed", key |-> k, claim |-> e.seq]
                        ELSE Idle)
    /\ UNCHANGED <<map, order, bytes, budget, next_seq, cfg, now>>

\* Cache::end_refresh: by key, whichever entry is there now.
EndRefresh(c) ==
    /\ call[c].op \in {"claimed", "ending"}
    /\ refreshing' = refreshing \ {call[c].key}
    /\ Goto(c, Idle)
    /\ UNCHANGED <<map, order, bytes, budget, next_seq, cfg, now, hits>>

(***************************************************************************)
(* Cache::set_config.                                                      *)
(***************************************************************************)
ConfigWrite(c, new) ==
    /\ c \in Configurers
    /\ call[c].op = "idle"
    /\ new # cfg
    /\ cfg' = new
    /\ Goto(c, [op |-> "resize", size |-> new.size])
    /\ UNCHANGED <<map, order, bytes, budget, next_seq, now, hits, refreshing>>

ConfigResize(c) ==
    /\ call[c].op = "resize"
    /\ ShardResize(PerShard(call[c].size))
    /\ hits' = [k \in Keys |-> IF map'[k] = NoEntry THEN 0 ELSE hits[k]]
    /\ refreshing' = {k \in refreshing : map'[k] # NoEntry}
    /\ Goto(c, [op |-> "check"])
    /\ UNCHANGED <<cfg, now>>

\* is_disabled reads the settings again: they may be another caller's.
ConfigCheck(c) ==
    /\ call[c].op = "check"
    /\ Goto(c, IF cfg.size = 0 THEN [op |-> "clear"] ELSE Idle)
    /\ UNCHANGED <<map, order, bytes, budget, next_seq, cfg, now, hits,
                   refreshing>>

\* Cache::clear, also the cache_clear handler of the API.
ConfigClear(c) ==
    /\ call[c].op = "clear"
    /\ ShardClear
    /\ hits' = [k \in Keys |-> 0]
    /\ refreshing' = {}
    /\ Goto(c, Idle)
    /\ UNCHANGED <<cfg, now>>

AskClear(c) ==
    /\ call[c].op = "idle"
    /\ c \in Configurers
    /\ Goto(c, [op |-> "clear"])
    /\ UNCHANGED <<map, order, bytes, budget, next_seq, cfg, now, hits,
                   refreshing>>

Tick ==
    /\ now < MaxTime
    /\ now' = now + 1
    /\ UNCHANGED <<map, order, bytes, budget, next_seq, cfg, hits, refreshing,
                   call>>

CacheNext ==
    \/ \E c \in Callers :
        \/ \E k \in Keys : GetCheck(c, k) \/ \E m \in Messages : PutCheck(c, k, m)
        \/ \E new \in Configs : ConfigWrite(c, new)
        \/ PutTtl(c)
        \/ PutStore(c)
        \/ PutOversized(c)
        \/ GetMiss(c)
        \/ GetDrop(c)
        \/ GetHit(c)
        \/ EndRefresh(c)
        \/ ConfigResize(c)
        \/ ConfigCheck(c)
        \/ ConfigClear(c)
        \/ AskClear(c)
    \/ Tick

CacheSpec == CacheInit /\ [][CacheNext]_cacheVars

(***************************************************************************)
(* Properties.                                                             *)
(***************************************************************************)
HoldsClaim(c, k) ==
    \/ call[c].op \in {"claimed", "ending"} /\ call[c].key = k
    \/ call[c].op \in {"ttl", "put"} /\ call[c].claim # NoClaim /\ call[c].key = k

Configuring == {c \in Callers : call[c].op \in {"resize", "check", "clear"}}

\* Switching the cache off "takes effect at once" (cache.rs:265-266): once
\* set_config has returned nothing is held, although a put that found the
\* cache enabled may reach the shard's lock after the clear.
DisabledStaysEmpty ==
    cfg.size = 0 /\ Configuring = {} => Present(map) = {} /\ bytes = 0

\* No claim outlives its holder: a key marked as refreshing has a refresh
\* that will release it, or it would never be refreshed again (cache.rs:34-36).
NoClaimLeaks ==
    \A k \in refreshing : map[k] # NoEntry /\ \E c \in Callers : HoldsClaim(c, k)

\* A shard's budget is the configured one whenever no reload is under way.
BudgetFollowsConfig == Configuring = {} => budget = PerShard(cfg.size)

\* "A burst of lookups produces one refresh rather than one each"
\* (cache.rs:32-33): two lookups are never both refreshing one entry.
OneRefreshPerEntry ==
    \A c, d \in Callers :
        /\ c # d
        /\ call[c].op = "claimed"
        /\ call[d].op = "claimed"
        /\ call[c].key = call[d].key
        => call[c].claim # call[d].claim

\* "How long an expired entry may still be served" (cache.rs:151): with
\* optimistic caching on, a lookup discards an entry only when that long has
\* passed since it expired.
ServedForMaxAgeAfterExpiry ==
    [][\A c \in Callers :
         GetDrop(c) /\ call[c].cfg.optimistic =>
            LET e == map[call[c].key]
            IN  call[c].at > e.payload.stored + e.payload.ttl + call[c].cfg.max_age
      ]_cacheVars
=============================================================================
