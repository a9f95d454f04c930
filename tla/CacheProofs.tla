----------------------------- MODULE CacheProofs -----------------------------
(***************************************************************************)
(* Proofs about the response cache, for any keys, weights, budgets and     *)
(* callers: the queue of eviction slots of a shard, taken alone and under  *)
(* the callers' interleavings, what switching the cache off leaves, the    *)
(* claims on a refresh, and that a shard is a FIFO store whose byte count  *)
(* is exact and whose queue stays short.                                   *)
(***************************************************************************)
EXTENDS Cache, FiniteSetTheorems, WellFoundedInduction, TLAPS

\* The types that the queue's bookkeeping depends on.
SlotTypeOK ==
    /\ map \in [Keys -> Entries \cup {NoEntry}]
    /\ order \subseteq Slots
    /\ next_seq \in Nat

\* A live entry's number has been handed out.
SeqsHandedOut == \A k \in Keys : map[k] # NoEntry => map[k].seq < next_seq

SlotInv ==
    /\ SlotTypeOK
    /\ SeqsHandedOut
    /\ EveryEntryHasASlot
    /\ SlotsAreDistinct

\* The bookkeeping of an arbitrary map and queue, as evict_to_fit finds them.
Booked(m, o, end) ==
    /\ m \in [Keys -> Entries \cup {NoEntry}]
    /\ o \subseteq Slots
    /\ end \in Nat
    /\ \A k \in Keys : m[k] # NoEntry =>
           m[k].seq < end /\ <<m[k].seq, k>> \in o
    /\ \A s, u \in o : s[1] = u[1] => s = u
    /\ \A s \in o : s[1] < end

LEMMA CompactKeepsBooks ==
    ASSUME NEW m, NEW o, NEW end, Booked(m, o, end)
    PROVE  Booked(m, CompactOrder(m, o), end)
<1>1. CompactOrder(m, o) \in {o, {s \in o : LiveSlot(m, s)}}
      BY DEF CompactOrder
<1>2. CASE CompactOrder(m, o) = o
      BY <1>2
<1>3. CASE CompactOrder(m, o) = {s \in o : LiveSlot(m, s)}
      BY <1>3 DEF Booked, LiveSlot
<1> QED
    BY <1>1, <1>2, <1>3

LEMMA EvictKeepsBooks ==
    ASSUME NEW m, NEW o, NEW b, NEW bud, NEW end, Booked(m, o, end),
           EvictToFit(m, o, b, bud, end)
    PROVE  Booked(map', order', end)
<1> DEFINE c == EvictionCut(m, o, b, bud, end)
           popped == {s \in o : s[1] < c}
<1>1. /\ map' = [k \in Keys |->
                   IF m[k] # NoEntry /\ <<m[k].seq, k>> \in popped
                     THEN NoEntry ELSE m[k]]
      /\ order' = o \ popped
      BY DEF EvictToFit
<1> HIDE DEF popped
<1> QED
    BY <1>1 DEF Booked

LEMMA BookedIsSlotInv ==
    /\ SlotInv <=> Booked(map, order, next_seq)
    /\ SlotInv' <=> Booked(map', order', next_seq')
BY DEF SlotInv, SlotTypeOK, SeqsHandedOut, EveryEntryHasASlot,
       SlotsAreDistinct, Booked

LEMMA SlotInitInv == ShardInit => SlotInv
BY DEF ShardInit, SlotInv, SlotTypeOK, SeqsHandedOut, EveryEntryHasASlot,
       SlotsAreDistinct

(***************************************************************************)
(* The critical sections of a shard keep its books.                        *)
(***************************************************************************)
\* The map and the queue with the entry that Cache::put adds.
LEMMA PutBooked ==
    ASSUME Booked(map, order, next_seq),
           NEW k \in Keys, NEW w \in Weights, NEW p \in Payloads
    PROVE  Booked([map EXCEPT ![k] = [seq |-> next_seq, weight |-> w, payload |-> p]],
                  order \cup {<<next_seq, k>>}, next_seq + 1)
<1> USE CacheShardAssumption
<1> DEFINE e == [seq |-> next_seq, weight |-> w, payload |-> p]
           m == [map EXCEPT ![k] = e]
           o == order \cup {<<next_seq, k>>}
<1>1. e \in Entries /\ e # NoEntry /\ e.seq = next_seq /\ next_seq \in Nat
      BY DEF Entries, Booked
<1>2. m \in [Keys -> Entries \cup {NoEntry}] /\ o \subseteq Slots
      BY <1>1 DEF Booked, Slots
<1>3. ASSUME NEW x \in Keys, m[x] # NoEntry
      PROVE  m[x].seq < next_seq + 1 /\ <<m[x].seq, x>> \in o
  <2>1. CASE x = k
        BY <1>1, <2>1 DEF Booked
  <2>2. CASE x # k
        BY <1>1, <1>3, <2>2 DEF Booked, Entries
  <2> QED
      BY <2>1, <2>2
<1>4. /\ \A s, u \in o : s[1] = u[1] => s = u
      /\ \A s \in o : s[1] < next_seq + 1
      BY <1>1 DEF Booked, Slots
<1> HIDE DEF m, o
<1>5. Booked(m, o, next_seq + 1)
      BY <1>1, <1>2, <1>3, <1>4 DEF Booked
<1> QED
    BY <1>5 DEF m, o

LEMMA PutKeepsBooks ==
    ASSUME Booked(map, order, next_seq),
           NEW k \in Keys, NEW w \in Weights, NEW p \in Payloads,
           ShardPut(k, w, p)
    PROVE  Booked(map', order', next_seq')
<1> DEFINE m == [map EXCEPT ![k] = [seq |-> next_seq, weight |-> w, payload |-> p]]
           o == order \cup {<<next_seq, k>>}
           b == Monus(bytes, IF map[k] = NoEntry THEN 0 ELSE map[k].weight) + w
<1>1. Booked(m, o, next_seq + 1)
      BY PutBooked
<1>2. EvictToFit(m, CompactOrder(m, o), b, budget, next_seq + 1)
      BY DEF ShardPut
<1> HIDE DEF m, o, b
<1>3. Booked(m, CompactOrder(m, o), next_seq + 1)
      BY <1>1, CompactKeepsBooks
<1>4. Booked(map', order', next_seq + 1)
      BY <1>2, <1>3, EvictKeepsBooks
<1> QED
    BY <1>4 DEF ShardPut

LEMMA RemoveKeepsBooks ==
    ASSUME Booked(map, order, next_seq), NEW k \in Keys, ShardRemove(k)
    PROVE  Booked(map', order', next_seq')
<1> DEFINE m == [map EXCEPT ![k] = NoEntry]
<1>1. map' = m /\ order' = CompactOrder(m, order) /\ next_seq' = next_seq
      BY DEF ShardRemove
<1>2. Booked(m, order, next_seq)
      BY DEF Booked
<1> QED
    BY <1>1, <1>2, CompactKeepsBooks

LEMMA ResizeKeepsBooks ==
    ASSUME Booked(map, order, next_seq), NEW b, ShardResize(b)
    PROVE  Booked(map', order', next_seq')
BY EvictKeepsBooks DEF ShardResize

LEMMA ClearKeepsBooks ==
    ASSUME Booked(map, order, next_seq), ShardClear
    PROVE  Booked(map', order', next_seq')
BY DEF ShardClear, Booked

LEMMA SlotStepInv == SlotInv /\ [ShardNext]_shardVars => SlotInv'
<1> SUFFICES ASSUME Booked(map, order, next_seq), [ShardNext]_shardVars
             PROVE  Booked(map', order', next_seq')
    BY BookedIsSlotInv
<1>1. CASE UNCHANGED shardVars
      BY <1>1 DEF shardVars
<1> QED
    BY <1>1, PutKeepsBooks, RemoveKeepsBooks, ResizeKeepsBooks, ClearKeepsBooks
       DEF ShardNext

LEMMA SlotInvariant == ShardSpec => []SlotInv
BY SlotInitInv, SlotStepInv, PTL DEF ShardSpec

\* Every live entry can be reached by eviction: Shard::evict_to_fit only
\* removes an entry through its own slot, and compact_order never drops one.
THEOREM EveryEntryHasASlotHolds == ShardSpec => []EveryEntryHasASlot
<1>1. SlotInv => EveryEntryHasASlot
      BY DEF SlotInv
<1> QED
    BY <1>1, SlotInvariant, PTL

\* No slot left behind by an older incarnation matches a live entry.
THEOREM SlotsAreDistinctHolds == ShardSpec => []SlotsAreDistinct
<1>1. SlotInv => SlotsAreDistinct
      BY DEF SlotInv
<1> QED
    BY <1>1, SlotInvariant, PTL

(***************************************************************************)
(* The same under the callers' interleavings, where a put reads the        *)
(* settings, then computes the TTL, then locks the shard.                  *)
(***************************************************************************)
\* What a caller carries towards the shard's lock: a put under way holds an
\* answer that may be cached for the TTL it was given.
CarriedOK(s) ==
    /\ s.op \in {"idle", "get", "ttl", "put", "claimed", "ending", "resize",
                 "check", "clear"}
    /\ s.op \in {"get", "ttl", "put", "claimed", "ending"} => s.key \in Keys
    /\ s.op \in {"ttl", "put"} => s.msg \in Messages
    /\ s.op = "put" => \A t \in 0..MaxTime : [stored |-> t, ttl |-> s.ttl] \in Payloads

CallerInv ==
    /\ cfg \in Configs
    /\ now \in 0..MaxTime
    /\ DOMAIN call = Callers
    /\ \A c \in Callers : CarriedOK(call[c])

LEMMA CallerStepInv == CallerInv /\ [CacheNext]_cacheVars => CallerInv'
<1> SUFFICES ASSUME CallerInv, [CacheNext]_cacheVars
             PROVE  CallerInv'
    OBVIOUS
<1> USE CacheAssumption
<1>0. CarriedOK(Idle) /\ CarriedOK([op |-> "check"]) /\ CarriedOK([op |-> "clear"])
      BY DEF CarriedOK, Idle
<1>1. ASSUME NEW c \in Callers, NEW s, CarriedOK(s), Goto(c, s),
             cfg' \in Configs, now' \in 0..MaxTime
      PROVE  CallerInv'
      BY <1>1 DEF CallerInv, Goto
<1>2. ASSUME NEW c \in Callers, call[c].op \in {"ttl", "put"}, AfterPut(c),
             cfg' = cfg, now' = now
      PROVE  CallerInv'
  <2>1. PICK s : s = IF call[c].claim = NoClaim THEN Idle
                     ELSE [op |-> "ending", key |-> call[c].key,
                           claim |-> call[c].claim]
        OBVIOUS
  <2>2. CarriedOK(s)
        BY <1>0, <1>2, <2>1 DEF CarriedOK, CallerInv
  <2>3. Goto(c, s)
        BY <1>2, <2>1 DEF AfterPut
  <2> QED
      BY <1>1, <1>2, <2>2, <2>3 DEF CallerInv
<1>3. ASSUME NEW c \in Callers, NEW k \in Keys, GetCheck(c, k)
      PROVE  CallerInv'
  <2>1. CarriedOK([op |-> "get", key |-> k, cfg |-> cfg, at |-> now])
        BY DEF CarriedOK
  <2> QED
      BY <1>1, <1>3, <2>1 DEF GetCheck, CallerInv
<1>4. ASSUME NEW c \in Callers, NEW k \in Keys, NEW m \in Messages, PutCheck(c, k, m)
      PROVE  CallerInv'
  <2>1. PICK cl : cl = IF call[c].op = "idle" THEN NoClaim ELSE call[c].claim
        OBVIOUS
  <2>2. CarriedOK([op |-> "ttl", key |-> k, msg |-> m, claim |-> cl])
        BY DEF CarriedOK
  <2> QED
      BY <1>1, <1>4, <2>1, <2>2 DEF PutCheck, CallerInv
<1>5. ASSUME NEW c \in Callers, NEW new \in Configs, ConfigWrite(c, new)
      PROVE  CallerInv'
  <2>1. CarriedOK([op |-> "resize", size |-> new.size])
        BY DEF CarriedOK
  <2> QED
      BY <1>1, <1>5, <2>1 DEF ConfigWrite, CallerInv
<1>6. ASSUME NEW c \in Callers, PutTtl(c)
      PROVE  CallerInv'
  <2>1. PICK ttl : ttl = CacheTtlFor(cfg, call[c].msg)
        OBVIOUS
  <2>2. CASE ttl = 0
        BY <1>2, <1>6, <2>1, <2>2 DEF PutTtl
  <2>3. CASE ttl # 0
    <3>1. call[c].msg \in Messages /\ call[c].key \in Keys /\ cfg \in Configs
          BY <1>6 DEF PutTtl, CallerInv, CarriedOK
    <3>2. \A t \in 0..MaxTime : [stored |-> t, ttl |-> ttl] \in Payloads
          BY <2>1, <2>3, <3>1, StoredAssumption
    <3>3. PICK s : s = [op |-> "put", key |-> call[c].key, msg |-> call[c].msg,
                        ttl |-> ttl, claim |-> call[c].claim]
          OBVIOUS
    <3>4. s.op = "put" /\ s.key = call[c].key /\ s.msg = call[c].msg /\ s.ttl = ttl
          BY <3>3
    <3>5. CarriedOK(s)
          BY <3>1, <3>2, <3>4 DEF CarriedOK
    <3>6. Goto(c, s) /\ cfg' = cfg /\ now' = now
          BY <1>6, <2>1, <2>3, <3>3 DEF PutTtl
    <3> QED
        BY <1>1, <3>5, <3>6 DEF CallerInv
  <2> QED
      BY <2>2, <2>3
<1>7. ASSUME NEW c \in Callers, PutStore(c) \/ PutOversized(c)
      PROVE  CallerInv'
      BY <1>2, <1>7 DEF PutStore, PutOversized
<1>8. ASSUME NEW c \in Callers, GetMiss(c) \/ GetDrop(c) \/ EndRefresh(c)
      PROVE  CallerInv'
      BY <1>0, <1>1, <1>8 DEF GetMiss, GetDrop, EndRefresh, CallerInv
<1>9. ASSUME NEW c \in Callers, GetHit(c)
      PROVE  CallerInv'
  <2>1. PICK k : k = call[c].key
        OBVIOUS
  <2>2. k \in Keys /\ cfg' = cfg /\ now' = now
        BY <1>9, <2>1 DEF GetHit, CallerInv, CarriedOK
  <2>3. Goto(c, [op |-> "claimed", key |-> k, claim |-> map[k].seq]) \/ Goto(c, Idle)
        BY <1>9, <2>1 DEF GetHit
  <2>4. CarriedOK([op |-> "claimed", key |-> k, claim |-> map[k].seq])
        BY <2>2 DEF CarriedOK
  <2> QED
      BY <1>0, <1>1, <2>2, <2>3, <2>4 DEF CallerInv
<1>10. ASSUME NEW c \in Callers, ConfigResize(c) \/ ConfigClear(c) \/ AskClear(c)
       PROVE  CallerInv'
       BY <1>0, <1>1, <1>10 DEF ConfigResize, ConfigClear, AskClear, CallerInv
<1>11. ASSUME NEW c \in Callers, ConfigCheck(c)
       PROVE  CallerInv'
  <2>1. Goto(c, Idle) \/ Goto(c, [op |-> "clear"])
        BY <1>11 DEF ConfigCheck
  <2> QED
      BY <1>0, <1>1, <1>11, <2>1 DEF ConfigCheck, CallerInv
<1>12. ASSUME Tick
       PROVE  CallerInv'
       BY <1>12 DEF Tick, CallerInv
<1>13. ASSUME UNCHANGED cacheVars
       PROVE  CallerInv'
       BY <1>13 DEF cacheVars, CallerInv
<1> QED
    BY <1>3, <1>4, <1>5, <1>6, <1>7, <1>8, <1>9, <1>10, <1>11, <1>12, <1>13
       DEF CacheNext

\* A step of the cache leaves a shard alone or runs one critical section.
LEMMA ShardEffects ==
    ASSUME CallerInv, [CacheNext]_cacheVars
    PROVE  \/ UNCHANGED shardVars
           \/ \E k \in Keys, w \in Weights, p \in Payloads : ShardPut(k, w, p)
           \/ \E k \in Keys : ShardRemove(k)
           \/ \E c \in Callers :
                 call[c].op = "resize" /\ ShardResize(PerShard(call[c].size))
           \/ ShardClear
<1> USE CacheAssumption
<1>1. ASSUME NEW c \in Callers, PutStore(c)
      PROVE  \E k \in Keys, w \in Weights, p \in Payloads : ShardPut(k, w, p)
  <2>1. PICK p : p = [stored |-> now, ttl |-> call[c].ttl]
        OBVIOUS
  <2>2. call[c].key \in Keys /\ call[c].msg \in Messages /\ p \in Payloads
        BY <1>1, <2>1 DEF PutStore, CallerInv, CarriedOK
  <2>3. call[c].msg.weight \in Weights
        BY <2>2
  <2>4. ShardPut(call[c].key, call[c].msg.weight, p)
        BY <1>1, <2>1 DEF PutStore
  <2> QED
      BY <2>2, <2>3, <2>4
<1>2. ASSUME NEW c \in Callers, GetDrop(c)
      PROVE  \E k \in Keys : ShardRemove(k)
      BY <1>2 DEF GetDrop, CallerInv, CarriedOK
<1>3. ASSUME NEW c \in Callers, ConfigResize(c)
      PROVE  call[c].op = "resize" /\ ShardResize(PerShard(call[c].size))
      BY <1>3 DEF ConfigResize
<1>4. ASSUME NEW c \in Callers, ConfigClear(c)
      PROVE  ShardClear
      BY <1>4 DEF ConfigClear
<1>5. ASSUME NEW c \in Callers,
             \/ \E k \in Keys : GetCheck(c, k) \/ \E m \in Messages : PutCheck(c, k, m)
             \/ \E new \in Configs : ConfigWrite(c, new)
             \/ PutTtl(c) \/ PutOversized(c) \/ GetMiss(c) \/ GetHit(c)
             \/ EndRefresh(c) \/ ConfigCheck(c) \/ AskClear(c)
      PROVE  UNCHANGED shardVars
      BY <1>5 DEF GetCheck, PutCheck, ConfigWrite, PutTtl, PutOversized, GetMiss,
                  GetHit, EndRefresh, ConfigCheck, AskClear, shardVars
<1>6. ASSUME Tick \/ UNCHANGED cacheVars
      PROVE  UNCHANGED shardVars
      BY <1>6 DEF Tick, cacheVars, shardVars
<1> QED
    BY <1>1, <1>2, <1>3, <1>4, <1>5, <1>6 DEF CacheNext

LEMMA BooksStep ==
    ASSUME CallerInv, Booked(map, order, next_seq), [CacheNext]_cacheVars
    PROVE  Booked(map', order', next_seq')
<1>1. CASE UNCHANGED shardVars
      BY <1>1 DEF shardVars
<1>2. CASE ~ UNCHANGED shardVars
      BY <1>2, ShardEffects, PutKeepsBooks, RemoveKeepsBooks, ResizeKeepsBooks,
         ClearKeepsBooks
<1> QED
    BY <1>1, <1>2

\* The books of the shard are kept whatever the callers interleave: every
\* entry that Cache::put stored can be reached by eviction until Cache::get,
\* set_config or clear removes it.
THEOREM CacheEntriesStayReachable == CacheSpec => []EveryEntryHasASlot
<1> DEFINE Books == CallerInv /\ Booked(map, order, next_seq)
<1>1. CacheInit => Books
      BY CacheAssumption DEF CacheInit, CallerInv, CarriedOK, Idle, Booked
<1>2. Books /\ [CacheNext]_cacheVars => Books'
      BY CallerStepInv, BooksStep
<1>3. Books => EveryEntryHasASlot
      BY DEF Booked, EveryEntryHasASlot
<1> QED
    BY <1>1, <1>2, <1>3, PTL DEF CacheSpec

(***************************************************************************)
(* Switching the cache off.  A put that found the cache on may reach the   *)
(* shard after the clear; what stops it is the budget, one byte, that the  *)
(* resize left behind.  Two reloads at once could leave the budget of the  *)
(* other, so the theorem is about reloads that run one at a time.          *)
(***************************************************************************)
OneReloadAtATime == \A c, d \in Configurers : c = d

Reloading == {c \in Callers : call[c].op = "resize"}

SwitchedOff ==
    /\ \A c \in Configuring : c \in Configurers
    /\ \A c \in Reloading : call[c].size = cfg.size
    /\ Reloading = {} => budget = PerShard(cfg.size)
    /\ cfg.size = 0 /\ Configuring = {} => map = [k \in Keys |-> NoEntry] /\ bytes = 0

\* What one caller does: it moves to s, and the shard and the settings
\* change only as the moves of set_config allow.
LEMMA SwitchedOffStep ==
    ASSUME OneReloadAtATime, CallerInv, SwitchedOff, [CacheNext]_cacheVars
    PROVE  SwitchedOff'
<1> USE CacheAssumption
<1>0. DOMAIN call = Callers /\ cfg \in Configs /\ cfg.size \in Nat
      BY DEF CallerInv
\* A caller that is not and will not be configuring, over an unchanged shard.
<1>1. ASSUME NEW c \in Callers, NEW s, Goto(c, s), UNCHANGED <<map, bytes, budget, cfg>>,
             s.op \notin {"resize", "check", "clear"},
             call[c].op \notin {"resize", "check", "clear"}
      PROVE  SwitchedOff'
  <2>1. Configuring' = Configuring /\ Reloading' = Reloading
        BY <1>0, <1>1 DEF Goto, Configuring, Reloading
  <2>2. \A d \in Reloading : call'[d] = call[d]
        BY <1>0, <1>1 DEF Goto, Reloading
  <2> QED
      BY <1>1, <2>1, <2>2 DEF SwitchedOff
<1>2. ASSUME NEW c \in Callers, AfterPut(c)
      PROVE  \E s : Goto(c, s) /\ s.op \in {"idle", "ending"}
  <2>1. PICK s : s = IF call[c].claim = NoClaim THEN Idle
                     ELSE [op |-> "ending", key |-> call[c].key,
                           claim |-> call[c].claim]
        OBVIOUS
  <2>2. s.op \in {"idle", "ending"}
        BY <2>1 DEF Idle
  <2> QED
      BY <1>2, <2>1, <2>2 DEF AfterPut
<1>3. ASSUME NEW c \in Callers, NEW k \in Keys,
             GetCheck(c, k) \/ \E m \in Messages : PutCheck(c, k, m)
      PROVE  SwitchedOff'
  <2>1. CASE GetCheck(c, k)
        BY <1>1, <2>1 DEF GetCheck
  <2>2. ASSUME NEW m \in Messages, PutCheck(c, k, m)
        PROVE  SwitchedOff'
    <3>1. PICK cl : cl = IF call[c].op = "idle" THEN NoClaim ELSE call[c].claim
          OBVIOUS
    <3> QED
        BY <1>1, <2>2, <3>1 DEF PutCheck
  <2> QED
      BY <1>3, <2>1, <2>2
<1>4. ASSUME NEW c \in Callers, PutTtl(c) \/ PutOversized(c)
      PROVE  SwitchedOff'
  <2>1. CASE AfterPut(c)
        BY <1>1, <1>2, <1>4, <2>1 DEF PutTtl, PutOversized
  <2>2. CASE ~AfterPut(c)
    <3>1. PICK ttl : ttl = CacheTtlFor(cfg, call[c].msg)
          OBVIOUS
    <3>2. Goto(c, [op |-> "put", key |-> call[c].key, msg |-> call[c].msg,
                   ttl |-> ttl, claim |-> call[c].claim])
          BY <1>4, <2>2, <3>1 DEF PutTtl, PutOversized
    <3> QED
        BY <1>1, <1>4, <2>2, <3>2 DEF PutTtl, PutOversized
  <2> QED
      BY <2>1, <2>2
<1>5. ASSUME NEW c \in Callers, GetMiss(c) \/ EndRefresh(c)
      PROVE  SwitchedOff'
      BY <1>1, <1>5 DEF GetMiss, EndRefresh, Idle
<1>6. ASSUME NEW c \in Callers, GetHit(c)
      PROVE  SwitchedOff'
  <2>1. PICK k : k = call[c].key
        OBVIOUS
  <2>2. Goto(c, [op |-> "claimed", key |-> k, claim |-> map[k].seq]) \/ Goto(c, Idle)
        BY <1>6, <2>1 DEF GetHit
  <2>3. call[c].op = "get" /\ UNCHANGED <<map, bytes, budget, cfg>>
        BY <1>6 DEF GetHit
  <2> QED
      BY <1>1, <2>2, <2>3 DEF Idle
\* A put and an expiry find a shard that the cache, switched off, left empty
\* and with no room.
<1>7. ASSUME NEW c \in Callers, NEW s, Goto(c, s), UNCHANGED <<budget, cfg>>,
             s.op \notin {"resize", "check", "clear"},
             call[c].op \notin {"resize", "check", "clear"},
             ~(cfg.size = 0 /\ Configuring = {})
      PROVE  SwitchedOff'
  <2>1. Configuring' = Configuring /\ Reloading' = Reloading
        BY <1>0, <1>7 DEF Goto, Configuring, Reloading
  <2>2. \A d \in Reloading : call'[d] = call[d]
        BY <1>0, <1>7 DEF Goto, Reloading
  <2> QED
      BY <1>7, <2>1, <2>2 DEF SwitchedOff
<1>8. ASSUME NEW c \in Callers, PutStore(c)
      PROVE  SwitchedOff'
  <2>1. call[c].msg.weight \in Weights /\ call[c].msg.weight <= budget
        BY <1>8 DEF PutStore, ShardPut, CallerInv, CarriedOK
  <2>2. 0 \div Shards = 0
        OBVIOUS
  <2>3. ASSUME cfg.size = 0, Configuring = {}
        PROVE  FALSE
    <3>1. budget = 1
          BY <2>2, <2>3 DEF SwitchedOff, PerShard, Configuring, Reloading
    <3>2. PICK w \in Weights : w <= budget
          BY <2>1
    <3>3. w \in Nat \ {0, 1}
          BY CacheShardAssumption
    <3> QED
        BY <3>1, <3>2, <3>3
  <2>4. UNCHANGED <<budget, cfg>> /\ call[c].op = "put" /\ AfterPut(c)
        BY <1>8 DEF PutStore, ShardPut
  <2> QED
      BY <1>2, <1>7, <2>3, <2>4
<1>9. ASSUME NEW c \in Callers, GetDrop(c)
      PROVE  SwitchedOff'
  <2>1. call[c].key \in Keys /\ map[call[c].key] # NoEntry
        BY <1>9 DEF GetDrop, CallerInv, CarriedOK
  <2>2. ~(cfg.size = 0 /\ Configuring = {})
        BY <2>1 DEF SwitchedOff
  <2>3. UNCHANGED <<budget, cfg>> /\ call[c].op = "get" /\ Goto(c, Idle)
        BY <1>9 DEF GetDrop, ShardRemove
  <2> QED
      BY <1>7, <2>2, <2>3 DEF Idle
\* The steps of the one reload.
<1>10. ASSUME NEW c \in Configurers
       PROVE  /\ Configuring \subseteq {c}
              /\ Reloading \subseteq {c}
              /\ c \in Callers
       BY <1>10 DEF SwitchedOff, OneReloadAtATime, Configuring, Reloading
<1>11. ASSUME NEW c \in Callers, NEW new \in Configs, ConfigWrite(c, new)
       PROVE  SwitchedOff'
  <2>1. c \in Configurers /\ cfg' = new
        /\ call' = [call EXCEPT ![c] = [op |-> "resize", size |-> new.size]]
        BY <1>11 DEF ConfigWrite, Goto
  <2>2. Configuring' = {c} /\ Reloading' = {c} /\ call'[c].size = cfg'.size
        BY <1>0, <1>10, <2>1 DEF Configuring, Reloading
  <2> QED
      BY <2>1, <2>2 DEF SwitchedOff
<1>12. ASSUME NEW c \in Callers, ConfigResize(c)
       PROVE  SwitchedOff'
  <2>1. c \in Configurers /\ c \in Reloading
        BY <1>12 DEF ConfigResize, SwitchedOff, Configuring, Reloading
  <2>2. cfg' = cfg /\ budget' = PerShard(cfg.size)
        /\ call' = [call EXCEPT ![c] = [op |-> "check"]]
        BY <1>12, <2>1 DEF ConfigResize, ShardResize, Goto, SwitchedOff
  <2>3. Configuring' = {c} /\ Reloading' = {}
        BY <1>0, <1>10, <2>1, <2>2 DEF Configuring, Reloading
  <2> QED
      BY <2>1, <2>2, <2>3 DEF SwitchedOff
<1>13. ASSUME NEW c \in Callers, ConfigCheck(c)
       PROVE  SwitchedOff'
  <2>1. c \in Configurers
        BY <1>13 DEF ConfigCheck, SwitchedOff, Configuring
  <2>2. UNCHANGED <<map, bytes, budget, cfg>>
        BY <1>13 DEF ConfigCheck
  <2>3. Reloading = {}
        BY <1>10, <1>13, <2>1 DEF ConfigCheck, Reloading
  <2>4. CASE cfg.size = 0
    <3>1. call' = [call EXCEPT ![c] = [op |-> "clear"]]
          BY <1>13, <2>4 DEF ConfigCheck, Goto
    <3>2. Configuring' = {c} /\ Reloading' = {}
          BY <1>0, <1>10, <2>1, <3>1 DEF Configuring, Reloading
    <3> QED
        BY <2>1, <2>2, <2>3, <3>2 DEF SwitchedOff
  <2>5. CASE cfg.size # 0
    <3>1. call' = [call EXCEPT ![c] = Idle]
          BY <1>13, <2>5 DEF ConfigCheck, Goto
    <3>2. Configuring' = {} /\ Reloading' = {}
          BY <1>0, <1>10, <2>1, <3>1 DEF Configuring, Reloading, Idle
    <3> QED
        BY <2>2, <2>3, <2>5, <3>2 DEF SwitchedOff
  <2> QED
      BY <2>4, <2>5
<1>14. ASSUME NEW c \in Callers, ConfigClear(c)
       PROVE  SwitchedOff'
  <2>1. c \in Configurers
        BY <1>14 DEF ConfigClear, SwitchedOff, Configuring
  <2>2. Reloading = {}
        BY <1>10, <1>14, <2>1 DEF ConfigClear, Reloading
  <2>3. /\ map' = [k \in Keys |-> NoEntry] /\ bytes' = 0
        /\ UNCHANGED <<budget, cfg>>
        /\ call' = [call EXCEPT ![c] = Idle]
        BY <1>14 DEF ConfigClear, ShardClear, Goto
  <2>4. Configuring' = {} /\ Reloading' = {}
        BY <1>0, <1>10, <2>1, <2>3 DEF Configuring, Reloading, Idle
  <2> QED
      BY <2>2, <2>3, <2>4 DEF SwitchedOff
<1>15. ASSUME NEW c \in Callers, AskClear(c)
       PROVE  SwitchedOff'
  <2>1. c \in Configurers /\ UNCHANGED <<map, bytes, budget, cfg>>
        /\ call[c].op = "idle" /\ call' = [call EXCEPT ![c] = [op |-> "clear"]]
        BY <1>15 DEF AskClear, Goto
  <2>2. Configuring' = {c} /\ Reloading' = {} /\ Reloading = {}
        BY <1>0, <1>10, <2>1 DEF Configuring, Reloading
  <2> QED
      BY <2>1, <2>2 DEF SwitchedOff
<1>16. ASSUME Tick \/ UNCHANGED cacheVars
       PROVE  SwitchedOff'
       BY <1>16 DEF Tick, cacheVars, SwitchedOff, Configuring, Reloading
<1> QED
    BY <1>3, <1>4, <1>5, <1>6, <1>8, <1>9, <1>11, <1>12, <1>13, <1>14, <1>15, <1>16
       DEF CacheNext

\* With reloads that run one at a time, once Cache::set_config has switched
\* the cache off nothing is held, however many puts, lookups and refreshes
\* were under way when it did.
THEOREM DisabledStaysEmptyHolds ==
    ASSUME OneReloadAtATime
    PROVE  CacheSpec => []DisabledStaysEmpty
<1> DEFINE Off == CallerInv /\ SwitchedOff
<1>1. CacheInit => Off
      BY CacheAssumption DEF CacheInit, CallerInv, CarriedOK, Idle, SwitchedOff,
                             Configuring, Reloading
<1>2. Off /\ [CacheNext]_cacheVars => Off'
      BY CallerStepInv, SwitchedOffStep
<1>3. Off => DisabledStaysEmpty
      BY DEF SwitchedOff, DisabledStaysEmpty, Present
<1> QED
    BY <1>1, <1>2, <1>3, PTL DEF CacheSpec

(***************************************************************************)
(* Claims on a refresh.                                                    *)
(***************************************************************************)
\* The caller in state s will release the claim on k.
Holds(s, k) ==
    \/ s.op \in {"claimed", "ending"} /\ s.key = k
    \/ s.op \in {"ttl", "put"} /\ s.claim # NoClaim /\ s.key = k

ClaimsKept ==
    /\ refreshing \subseteq Keys
    /\ \A c \in Callers : call[c].op = "claimed" => call[c].claim # NoClaim
    /\ NoClaimLeaks

LEMMA ClaimStep ==
    ASSUME CallerInv, Booked(map, order, next_seq), ClaimsKept, [CacheNext]_cacheVars
    PROVE  ClaimsKept'
<1> USE CacheAssumption
<1>0. /\ DOMAIN call = Callers
      /\ \A c \in Callers, k \in Keys : HoldsClaim(c, k) <=> Holds(call[c], k)
      /\ \A c \in Callers, k \in Keys : HoldsClaim(c, k)' <=> Holds(call'[c], k)
      BY DEF CallerInv, HoldsClaim, Holds
<1>1. refreshing \subseteq Keys /\ \A k \in refreshing : map[k] # NoEntry
      BY DEF ClaimsKept, NoClaimLeaks
\* A step that adds no claim, and takes from its caller only claims that it
\* releases.
<1>2. ASSUME NEW c \in Callers, NEW s, Goto(c, s), refreshing' \subseteq refreshing,
             \A k \in refreshing' : map'[k] # NoEntry,
             \A k \in refreshing' : Holds(call[c], k) => Holds(s, k),
             s.op # "claimed"
      PROVE  ClaimsKept'
  <2>1. \A d \in Callers : call'[d] = IF d = c THEN s ELSE call[d]
        BY <1>0, <1>2 DEF Goto
  <2>2. \A k \in refreshing' : \E d \in Callers : Holds(call'[d], k)
        BY <1>0, <1>2, <2>1 DEF ClaimsKept, NoClaimLeaks
  <2>3. \A d \in Callers : call'[d].op = "claimed" => call'[d].claim # NoClaim
        BY <1>2, <2>1 DEF ClaimsKept
  <2> QED
      BY <1>0, <1>2, <1>1, <2>2, <2>3 DEF ClaimsKept, NoClaimLeaks
<1>3. ASSUME NEW c \in Callers, call[c].op \in {"ttl", "put"}, AfterPut(c)
      PROVE  \E s : /\ Goto(c, s)
                     /\ s.op # "claimed"
                     /\ \A k \in Keys : Holds(call[c], k) => Holds(s, k)
  <2>1. PICK s : s = IF call[c].claim = NoClaim THEN Idle
                     ELSE [op |-> "ending", key |-> call[c].key,
                           claim |-> call[c].claim]
        OBVIOUS
  <2>2. s.op # "claimed" /\ \A k \in Keys : Holds(call[c], k) => Holds(s, k)
        BY <1>3, <2>1 DEF Holds, Idle
  <2> QED
      BY <1>3, <2>1, <2>2 DEF AfterPut
<1>4. ASSUME NEW c \in Callers, NEW k \in Keys, GetCheck(c, k)
      PROVE  ClaimsKept'
  <2>1. \A x \in Keys : ~Holds(call[c], x)
        BY <1>4 DEF GetCheck, Holds
  <2> QED
      BY <1>2, <1>1, <1>4, <2>1 DEF GetCheck
<1>5. ASSUME NEW c \in Callers, NEW k \in Keys, NEW m \in Messages, PutCheck(c, k, m)
      PROVE  ClaimsKept'
  <2>1. PICK cl : cl = IF call[c].op = "idle" THEN NoClaim ELSE call[c].claim
        OBVIOUS
  <2>2. PICK s : s = [op |-> "ttl", key |-> k, msg |-> m, claim |-> cl]
        OBVIOUS
  <2>3. s.op = "ttl" /\ s.key = k /\ s.claim = cl
        BY <2>2
  <2>4. \A x \in Keys : Holds(call[c], x) => Holds(s, x)
        BY <1>5, <2>1, <2>3 DEF PutCheck, Holds, ClaimsKept
  <2>5. Goto(c, s)
        BY <1>5, <2>1, <2>2 DEF PutCheck
  <2> QED
      BY <1>2, <1>1, <1>5, <2>3, <2>4, <2>5 DEF PutCheck, ClaimsKept
<1>6. ASSUME NEW c \in Callers,
             \/ \E new \in Configs : ConfigWrite(c, new)
             \/ ConfigCheck(c) \/ AskClear(c) \/ GetMiss(c)
      PROVE  ClaimsKept'
  <2>1. \A x \in Keys : ~Holds(call[c], x)
        BY <1>6 DEF ConfigWrite, ConfigCheck, AskClear, GetMiss, Holds
  <2>2. UNCHANGED <<map, refreshing>>
        BY <1>6 DEF ConfigWrite, ConfigCheck, AskClear, GetMiss
  <2>3. PICK s : /\ Goto(c, s)
                 /\ \/ \E new \in Configs : s = [op |-> "resize", size |-> new.size]
                    \/ s = [op |-> "clear"]
                    \/ s = Idle
        BY <1>6 DEF ConfigWrite, ConfigCheck, AskClear, GetMiss
  <2>4. s.op # "claimed"
        BY <2>3 DEF Idle
  <2> QED
      BY <1>2, <1>1, <2>1, <2>2, <2>3, <2>4
<1>7. ASSUME NEW c \in Callers, PutTtl(c) \/ PutOversized(c)
      PROVE  ClaimsKept'
  <2>0. UNCHANGED <<map, refreshing>> /\ call[c].op \in {"ttl", "put"}
        BY <1>7 DEF PutTtl, PutOversized
  <2>1. CASE AfterPut(c)
        BY <1>2, <1>1, <1>3, <2>0, <2>1
  <2>2. CASE ~AfterPut(c)
    <3>1. PICK ttl : ttl = CacheTtlFor(cfg, call[c].msg)
          OBVIOUS
    <3>2. PICK s : s = [op |-> "put", key |-> call[c].key, msg |-> call[c].msg,
                        ttl |-> ttl, claim |-> call[c].claim]
          OBVIOUS
    <3>3. call[c].op = "ttl" /\ Goto(c, s)
          BY <1>7, <2>2, <3>1, <3>2 DEF PutTtl, PutOversized
    <3>4. s.op # "claimed" /\ \A x \in Keys : Holds(call[c], x) => Holds(s, x)
          BY <3>2, <3>3 DEF Holds
    <3> QED
        BY <1>2, <1>1, <2>0, <3>3, <3>4
  <2> QED
      BY <2>1, <2>2
<1>8. ASSUME NEW c \in Callers, PutStore(c)
      PROVE  ClaimsKept'
  <2>1. refreshing' = {x \in refreshing : x # call[c].key /\ map'[x] # NoEntry}
        /\ call[c].op \in {"ttl", "put"} /\ AfterPut(c)
        BY <1>8 DEF PutStore
  <2> QED
      BY <1>2, <1>1, <1>3, <2>1
<1>9. ASSUME NEW c \in Callers, GetDrop(c)
      PROVE  ClaimsKept'
  <2>1. \A x \in Keys : ~Holds(call[c], x)
        BY <1>9 DEF GetDrop, Holds
  <2>2. /\ refreshing' = refreshing \ {call[c].key}
        /\ map' = [map EXCEPT ![call[c].key] = NoEntry]
        /\ Goto(c, Idle)
        BY <1>9 DEF GetDrop, ShardRemove
  <2>3. \A k \in refreshing' : map'[k] # NoEntry
        BY <1>1, <2>2 DEF Booked
  <2> QED
      BY <1>2, <1>1, <2>1, <2>2, <2>3 DEF Idle
<1>10. ASSUME NEW c \in Callers, GetHit(c)
       PROVE  ClaimsKept'
  <2>1. PICK k \in Keys : k = call[c].key
        BY <1>10 DEF GetHit, CallerInv, CarriedOK
  <2>2. \A x \in Keys : ~Holds(call[c], x)
        BY <1>10 DEF GetHit, Holds
  <2>3. map' = map /\ map[k] # NoEntry
        BY <1>10, <2>1 DEF GetHit
  <2>4. \/ refreshing' = refreshing /\ Goto(c, Idle)
        \/ /\ refreshing' = refreshing \cup {k}
           /\ Goto(c, [op |-> "claimed", key |-> k, claim |-> map[k].seq])
        BY <1>10, <2>1 DEF GetHit
  <2>5. CASE refreshing' = refreshing /\ Goto(c, Idle)
        BY <1>2, <1>1, <2>2, <2>3, <2>5 DEF Idle
  <2>6. CASE /\ refreshing' = refreshing \cup {k}
             /\ Goto(c, [op |-> "claimed", key |-> k, claim |-> map[k].seq])
    <3>1. PICK s : s = [op |-> "claimed", key |-> k, claim |-> map[k].seq]
          OBVIOUS
    <3>2. s.op = "claimed" /\ s.key = k /\ s.claim # NoClaim
          BY <2>3, <3>1 DEF Booked, Entries
    <3>3. Holds(s, k)
          BY <3>2 DEF Holds
    <3>4. \A d \in Callers : call'[d] = IF d = c THEN s ELSE call[d]
          BY <1>0, <2>6, <3>1 DEF Goto
    <3>5. \A x \in refreshing : \E d \in Callers : Holds(call'[d], x)
          BY <1>0, <2>2, <3>4 DEF ClaimsKept, NoClaimLeaks
    <3>6. \A x \in refreshing' : \E d \in Callers : Holds(call'[d], x)
          BY <2>6, <3>3, <3>4, <3>5
    <3>7. \A x \in refreshing' : map'[x] # NoEntry
          BY <1>1, <2>3, <2>6
    <3> QED
        BY <1>0, <2>6, <3>2, <3>4, <3>6, <3>7 DEF ClaimsKept, NoClaimLeaks
  <2> QED
      BY <2>4, <2>5, <2>6
<1>11. ASSUME NEW c \in Callers, EndRefresh(c)
       PROVE  ClaimsKept'
  <2>1. /\ refreshing' = refreshing \ {call[c].key} /\ map' = map
        /\ Goto(c, Idle) /\ call[c].op \in {"claimed", "ending"}
        BY <1>11 DEF EndRefresh
  <2>2. \A k \in refreshing' : ~Holds(call[c], k)
        BY <2>1 DEF Holds
  <2> QED
      BY <1>2, <1>1, <2>1, <2>2 DEF Idle
<1>12. ASSUME NEW c \in Callers, ConfigResize(c) \/ ConfigClear(c)
       PROVE  ClaimsKept'
  <2>1. \A x \in Keys : ~Holds(call[c], x)
        BY <1>12 DEF ConfigResize, ConfigClear, Holds
  <2>2. refreshing' \in {{}, {k \in refreshing : map'[k] # NoEntry}} 
        /\ \E s : Goto(c, s) /\ s.op # "claimed"
        BY <1>12 DEF ConfigResize, ConfigClear, Idle
  <2> QED
      BY <1>2, <1>1, <2>1, <2>2
<1>13. ASSUME Tick \/ UNCHANGED cacheVars
       PROVE  ClaimsKept'
       BY <1>13 DEF Tick, cacheVars, ClaimsKept, NoClaimLeaks, HoldsClaim
<1> QED
    BY <1>4, <1>5, <1>6, <1>7, <1>8, <1>9, <1>10, <1>11, <1>12, <1>13
       DEF CacheNext

\* A key marked as refreshing has an entry and a caller that will release it:
\* the mark that Cache::get sets is cleared by end_refresh, by the put of the
\* new answer, by an expiry, an eviction or a clear, and by nothing too early
\* to leave it set with nobody behind it.
THEOREM NoClaimLeaksHolds == CacheSpec => []NoClaimLeaks
<1> DEFINE Claims == CallerInv /\ Booked(map, order, next_seq) /\ ClaimsKept
<1>1. CacheInit => Claims
      BY CacheAssumption DEF CacheInit, CallerInv, CarriedOK, Idle, Booked, ClaimsKept,
                             NoClaimLeaks
<1>2. Claims /\ [CacheNext]_cacheVars => Claims'
      BY CallerStepInv, BooksStep, ClaimStep
<1>3. Claims => NoClaimLeaks
      BY DEF ClaimsKept
<1> QED
    BY <1>1, <1>2, <1>3, PTL DEF CacheSpec

(***************************************************************************)
(* What the entries weigh.  A sum of weights is the number of bytes of the *)
(* entries together, so that adding and taking away are facts about the    *)
(* cardinality of disjoint sets.                                           *)
(***************************************************************************)
\* The bytes of the entries under ks: Weigh counts them.
Units(m, ks) == UNION {{k} \X (1 .. m[k].weight) : k \in ks}

LEMMA UnitsAre ==
    ASSUME NEW m, NEW ks
    PROVE  /\ Weigh(m, ks) = Cardinality(Units(m, ks))
           /\ Fifo!WeightOf(m) = Cardinality(Units(m, Fifo!Held(m)))
           /\ \A u : u \in Units(m, ks) <=>
                 \E k \in ks : \E i \in 1 .. m[k].weight : u = <<k, i>>
<1>1. Weigh(m, ks) = Cardinality(Units(m, ks))
      BY DEF Weigh, Units
<1>2. Fifo!WeightOf(m) = Cardinality(Units(m, Fifo!Held(m)))
  <2>1. \A S : Fifo!Cardinality(S) = Cardinality(S)
        BY DEF Cardinality, Fifo!Cardinality
  <2> QED
      BY <2>1, Zenon DEF Fifo!WeightOf, Units
<1>3. \A u : u \in Units(m, ks) <=> \E k \in ks : u \in {k} \X (1 .. m[k].weight)
      BY Zenon DEF Units
<1>4. \A k, w, u : u \in {k} \X (1 .. w) <=> \E i \in 1 .. w : u = <<k, i>>
      OBVIOUS
<1>5. \A u : u \in Units(m, ks) <=>
           \E k \in ks : \E i \in 1 .. m[k].weight : u = <<k, i>>
  <2> SUFFICES ASSUME NEW u
               PROVE  u \in Units(m, ks) <=>
                        \E k \in ks : \E i \in 1 .. m[k].weight : u = <<k, i>>
      OBVIOUS
  <2>1. \A k \in ks : u \in {k} \X (1 .. m[k].weight)
                        <=> \E i \in 1 .. m[k].weight : u = <<k, i>>
        BY <1>4
  <2> QED
      BY <1>3, <2>1
<1> QED
    BY <1>1, <1>2, <1>5

LEMMA NoUnits ==
    ASSUME NEW m
    PROVE  IsFiniteSet(Units(m, {})) /\ Weigh(m, {}) = 0
<1>1. Units(m, {}) = {}
      BY UnitsAre
<1>2. Weigh(m, {}) = Cardinality(Units(m, {}))
      BY UnitsAre, Zenon
<1> QED
    BY <1>1, <1>2, FS_EmptySet

LEMMA UnitsSplit ==
    ASSUME NEW m, NEW ks, NEW some \in SUBSET ks, IsFiniteSet(Units(m, ks))
    PROVE  /\ IsFiniteSet(Units(m, some)) /\ IsFiniteSet(Units(m, ks \ some))
           /\ Weigh(m, some) \in Nat /\ Weigh(m, ks \ some) \in Nat
           /\ Weigh(m, ks) = Weigh(m, some) + Weigh(m, ks \ some)
<1>1. /\ Units(m, some) \subseteq Units(m, ks)
      /\ Units(m, ks \ some) \subseteq Units(m, ks)
      BY UnitsAre
<1>2. IsFiniteSet(Units(m, some)) /\ IsFiniteSet(Units(m, ks \ some))
      BY <1>1, FS_Subset
<1>3. Units(m, ks) = Units(m, some) \cup Units(m, ks \ some)
      BY UnitsAre
<1>4. Units(m, some) \cap Units(m, ks \ some) = {}
      BY UnitsAre
<1>5. /\ Cardinality(Units(m, some)) \in Nat
      /\ Cardinality(Units(m, ks \ some)) \in Nat
      BY <1>2, FS_CardinalityType
<1>6. Cardinality(Units(m, ks))
        = Cardinality(Units(m, some)) + Cardinality(Units(m, ks \ some))
  <2>1. Cardinality(Units(m, ks))
          = Cardinality(Units(m, some)) + Cardinality(Units(m, ks \ some))
            - Cardinality({})
        BY <1>2, <1>3, <1>4, FS_Union
  <2> QED
      BY <1>5, <2>1, FS_EmptySet
<1> QED
    BY <1>2, <1>5, <1>6, UnitsAre

LEMMA UnitsMore ==
    ASSUME NEW m, NEW ks, NEW k, k \notin ks, m[k].weight \in Nat,
           IsFiniteSet(Units(m, ks))
    PROVE  /\ IsFiniteSet(Units(m, ks \cup {k}))
           /\ Weigh(m, ks \cup {k}) = Weigh(m, ks) + m[k].weight
           /\ Weigh(m, {k}) = m[k].weight
           /\ Weigh(m, ks) \in Nat
<1>1. Units(m, {k}) = {k} \X (1 .. m[k].weight)
      BY Zenon DEF Units
<1>2. /\ IsFiniteSet({k}) /\ Cardinality({k}) = 1
      /\ IsFiniteSet(1 .. m[k].weight) /\ Cardinality(1 .. m[k].weight) = m[k].weight
  <2>1. IsFiniteSet({k}) /\ Cardinality({k}) = 1
        BY FS_Singleton, Zenon
  <2>2. PICK w \in Nat : w = m[k].weight
        OBVIOUS
  <2>3. IsFiniteSet(1 .. w) /\ Cardinality(1 .. w) = IF 1 > w THEN 0 ELSE w - 1 + 1
    <3>1. 1 \in Int /\ w \in Int
          OBVIOUS
    <3> QED
        BY <3>1, FS_Interval
  <2>4. Cardinality(1 .. w) = w
        BY <2>3
  <2> QED
      BY <2>1, <2>2, <2>3, <2>4
<1>3. IsFiniteSet(Units(m, {k})) /\ Cardinality(Units(m, {k})) = m[k].weight
  <2>1. PICK I : I = 1 .. m[k].weight
        OBVIOUS
  <2>2. IsFiniteSet(I) /\ Cardinality(I) = m[k].weight
        BY <1>2, <2>1
  <2>3. IsFiniteSet({k} \X I) /\ Cardinality({k} \X I) = Cardinality({k}) * Cardinality(I)
        BY <1>2, <2>2, FS_Product, Zenon
  <2>4. Cardinality({k} \X I) = m[k].weight
        BY <1>2, <2>2, <2>3
  <2> QED
      BY <1>1, <2>1, <2>3, <2>4
<1>4. Units(m, ks \cup {k}) = Units(m, ks) \cup Units(m, {k})
      BY UnitsAre
<1>5. IsFiniteSet(Units(m, ks \cup {k}))
      BY <1>3, <1>4, FS_Union
<1>6. (ks \cup {k}) \ {k} = ks
      OBVIOUS
<1>7. /\ Weigh(m, {k}) \in Nat /\ Weigh(m, ks) \in Nat
      /\ Weigh(m, ks \cup {k}) = Weigh(m, {k}) + Weigh(m, ks)
  <2>1. {k} \in SUBSET (ks \cup {k})
        OBVIOUS
  <2> QED
      BY <1>5, <1>6, <2>1, UnitsSplit
<1>8. Weigh(m, {k}) = m[k].weight
      BY <1>3, UnitsAre
<1> QED
    BY <1>5, <1>7, <1>8

LEMMA UnitsAgree ==
    ASSUME NEW m, NEW n, NEW ks, \A k \in ks : m[k] = n[k]
    PROVE  Units(m, ks) = Units(n, ks) /\ Weigh(m, ks) = Weigh(n, ks)
<1>1. {{k} \X (1 .. m[k].weight) : k \in ks} = {{k} \X (1 .. n[k].weight) : k \in ks}
      BY Zenon
<1>2. Units(m, ks) = Units(n, ks)
      BY <1>1, Zenon DEF Units
<1> QED
    BY <1>2, UnitsAre

\* A set of numbers has a least.
LEMMA LeastOf ==
    ASSUME NEW T, T \subseteq Nat, T # {}
    PROVE  /\ Min(T) \in T /\ \A i \in T : Min(T) <= i
           /\ Fifo!Min(T) = Min(T)
<1>1. PICK m \in T : \A y \in T : ~ (<<y, m>> \in OpToRel(<, Nat))
      BY NatLessThanWellFounded, WFMin
<1>2. \A y \in T : ~(y < m)
      BY <1>1 DEF OpToRel
<1>3. \A y \in T : m =< y
      BY <1>2
<1> QED
    BY <1>3 DEF Min, Fifo!Min

\* A bounded one has a greatest.
LEMMA GreatestOf ==
    ASSUME NEW T, T \subseteq Nat, T # {}, NEW end \in Nat, \A i \in T : i < end
    PROVE  Fifo!Max(T) \in T /\ \A i \in T : i <= Fifo!Max(T)
<1> DEFINE D == {end - i : i \in T}
<1>1. D \subseteq Nat /\ D # {}
  <2>1. \A i \in T : i \in Nat /\ i < end
        OBVIOUS
  <2>2. \A i \in Nat : i < end => end - i \in Nat
        OBVIOUS
  <2>3. \A i \in T : end - i \in Nat
        BY <2>1, <2>2
  <2>4. PICK t \in T : TRUE
        OBVIOUS
  <2>5. end - t \in D
        BY <2>4
  <2> QED
      BY <2>3, <2>5
<1>2. PICK d \in D : \A i \in D : d <= i
  <2> HIDE DEF D
  <2> QED
      BY <1>1, LeastOf
<1>3. PICK t \in T : d = end - t
      OBVIOUS
<1>4. ASSUME NEW i \in T
      PROVE  i <= t
  <2>1. end - i \in D
        OBVIOUS
  <2>2. d <= end - i
        BY <1>2, <2>1
  <2>3. i \in Nat /\ t \in Nat
        OBVIOUS
  <2> QED
      BY <1>3, <2>2, <2>3
<1>5. \E x \in T : \A y \in T : x >= y
  <2>1. \A y \in T : t >= y
        BY <1>4
  <2> QED
      BY <2>1
<1> HIDE DEF D
<1>6. Fifo!Max(T) \in T /\ \A y \in T : Fifo!Max(T) >= y
      BY <1>5 DEF Fifo!Max
<1> QED
    BY <1>6

(***************************************************************************)
(* What evict_to_fit leaves is what a FIFO store of that capacity keeps.   *)
(***************************************************************************)
\* The keys of m whose entry was stored at c or later.
Since(m, c) == {k \in Present(m) : m[k].seq >= c}

\* A map and its byte count as evict_to_fit finds them.
Counted(m, b) ==
    /\ IsFiniteSet(Units(m, Present(m)))
    /\ b = Weigh(m, Present(m))

LEMMA SinceWeighs ==
    ASSUME NEW m, NEW o, NEW end, NEW b, Booked(m, o, end), Counted(m, b),
           NEW c \in Nat
    PROVE  /\ Weigh(m, Since(m, c)) \in Nat
           /\ Monus(b, WeightBelow(m, o, c)) = Weigh(m, Since(m, c))
           /\ Fifo!WeightOf(Fifo!From(m, c)) = Weigh(m, Since(m, c))
           /\ IsFiniteSet(Units(m, Since(m, c)))
<1>1. \A k \in Present(m) : k \in Keys /\ m[k].seq \in Nat /\ <<m[k].seq, k>> \in o
      BY DEF Booked, Present, Entries
<1>2. Since(m, c) \in SUBSET Present(m)
      BY DEF Since
<1>3. {s[2] : s \in {s \in o : s[1] < c /\ LiveSlot(m, s)}} = Present(m) \ Since(m, c)
  <2>1. ASSUME NEW s \in o, s[1] < c, LiveSlot(m, s)
        PROVE  s[2] \in Present(m) \ Since(m, c)
    <3>1. s[1] \in Nat /\ s[2] \in Keys
          BY DEF Booked, Slots
    <3> QED
        BY <2>1, <3>1 DEF LiveSlot, Present, Since
  <2>2. ASSUME NEW k \in Present(m) \ Since(m, c)
        PROVE  \E s \in o : s[1] < c /\ LiveSlot(m, s) /\ s[2] = k
    <3>1. m[k].seq < c
      <4>1. PICK n \in Nat : n = m[k].seq
            BY <1>1
      <4>2. ~(n >= c)
            BY <4>1, Zenon DEF Since
      <4>3. n < c
            BY <4>1, <4>2
      <4> QED
          BY <4>1, <4>3
    <3>2. PICK s \in o : s = <<m[k].seq, k>>
          BY <1>1
    <3>3. s[1] = m[k].seq /\ s[2] = k
          BY <3>2
    <3> QED
        BY <3>1, <3>3 DEF LiveSlot, Present
  <2> QED
      BY <2>1, <2>2
<1>4. /\ Weigh(m, Since(m, c)) \in Nat
      /\ Weigh(m, Present(m) \ Since(m, c)) \in Nat
      /\ b = Weigh(m, Since(m, c)) + Weigh(m, Present(m) \ Since(m, c))
      /\ IsFiniteSet(Units(m, Since(m, c)))
      BY <1>2, UnitsSplit DEF Counted
<1>5. Monus(b, WeightBelow(m, o, c)) = Weigh(m, Since(m, c))
  <2>1. PICK x \in Nat : x = Weigh(m, Since(m, c))
        BY <1>4
  <2>2. PICK y \in Nat : y = WeightBelow(m, o, c)
        BY <1>3, <1>4 DEF WeightBelow
  <2>3. y = Weigh(m, Present(m) \ Since(m, c))
        BY <1>3, <2>2 DEF WeightBelow
  <2>4. b = x + y
        BY <1>4, <2>1, <2>3
  <2>5. Monus(b, y) = x
        BY <2>4 DEF Monus
  <2> QED
      BY <2>1, <2>2, <2>5
<1>6. Fifo!WeightOf(Fifo!From(m, c)) = Weigh(m, Since(m, c))
  <2>1. PICK f : f = Fifo!From(m, c)
        OBVIOUS
  <2>2. Fifo!Held(f) = Since(m, c) /\ \A k \in Since(m, c) : f[k] = m[k]
        BY <1>1, <2>1 DEF Fifo!From, Fifo!Held, Since, Present
  <2>3. Weigh(f, Since(m, c)) = Weigh(m, Since(m, c))
        BY <2>2, UnitsAgree
  <2> QED
      BY <2>1, <2>2, <2>3, UnitsAre
<1> QED
    BY <1>4, <1>5, <1>6

\* The younger the entries, the less they weigh.
LEMMA SinceShrinks ==
    ASSUME NEW m, NEW o, NEW end, NEW b, Booked(m, o, end), Counted(m, b),
           NEW c \in Nat, NEW d \in Nat, c <= d
    PROVE  Weigh(m, Since(m, d)) <= Weigh(m, Since(m, c))
<1>1. Since(m, d) \in SUBSET Since(m, c)
      BY DEF Since, Booked, Present, Entries
<1>2. IsFiniteSet(Units(m, Since(m, c)))
      BY SinceWeighs
<1>3. PICK rest : rest = Weigh(m, Since(m, c) \ Since(m, d))
      OBVIOUS
<1>4. /\ Weigh(m, Since(m, d)) \in Nat /\ rest \in Nat
      /\ Weigh(m, Since(m, c)) = Weigh(m, Since(m, d)) + rest
      BY <1>1, <1>2, <1>3, UnitsSplit
<1> QED
    BY <1>4

\* The cut of evict_to_fit is the first place to stop within the budget.
LEMMA CutIsLeast ==
    ASSUME NEW m, NEW o, NEW end, NEW b, NEW bud \in Nat, Booked(m, o, end), Counted(m, b)
    PROVE  LET c == EvictionCut(m, o, b, bud, end)
           IN  /\ c \in Nat /\ c <= end
               /\ Weigh(m, Since(m, c)) <= bud
               /\ \A k \in Present(m) : Weigh(m, Since(m, m[k].seq)) <= bud => c <= m[k].seq
<1> DEFINE stops == {s[1] : s \in o} \cup {end}
           fits == {c \in stops : Monus(b, WeightBelow(m, o, c)) <= bud} \cup {end}
<1>1. end \in Nat /\ stops \subseteq Nat
      BY DEF Booked, Slots
<1>2. fits \subseteq Nat /\ end \in fits
      BY <1>1
<1>3. PICK c : c = Min(fits)
      OBVIOUS
<1>4. c \in fits /\ \A i \in fits : c <= i
  <2> HIDE DEF fits
  <2> QED
      BY <1>2, <1>3, LeastOf
<1>5. Since(m, end) = {}
  <2>1. \A k \in Present(m) : m[k].seq \in Nat /\ m[k].seq < end
        BY DEF Booked, Present, Entries
  <2>2. \A k \in Present(m) : ~(m[k].seq >= end)
        BY <1>1, <2>1
  <2> QED
      BY <2>2, Zenon DEF Since
<1>6. Weigh(m, {}) = 0
      BY NoUnits
<1>7. Weigh(m, Since(m, c)) <= bud
  <2>1. CASE c = end
        BY <1>5, <1>6, <2>1
  <2>2. CASE c # end
    <3>1. c \in stops /\ Monus(b, WeightBelow(m, o, c)) <= bud
          BY <1>4, <2>2
    <3>2. c \in Nat
      <4> HIDE DEF stops
      <4> QED
          BY <1>1, <3>1
    <3>3. Monus(b, WeightBelow(m, o, c)) = Weigh(m, Since(m, c))
          BY <3>2, SinceWeighs
    <3> QED
        BY <3>1, <3>3
  <2> QED
      BY <2>1, <2>2
<1>8. ASSUME NEW k \in Present(m), Weigh(m, Since(m, m[k].seq)) <= bud
      PROVE  c <= m[k].seq
  <2>1. <<m[k].seq, k>> \in o /\ m[k].seq \in Nat
        BY DEF Booked, Present, Entries
  <2>2. m[k].seq \in stops
        BY <2>1
  <2>3. Monus(b, WeightBelow(m, o, m[k].seq)) <= bud
        BY <1>8, <2>1, SinceWeighs
  <2> QED
      BY <1>4, <2>2, <2>3
<1>9. c = EvictionCut(m, o, b, bud, end)
      BY <1>3 DEF EvictionCut
<1>10. c \in Nat /\ c <= end
       BY <1>2, <1>4
<1> HIDE DEF fits, stops
<1> QED
    BY <1>7, <1>8, <1>9, <1>10

\* So is that of the abstract store, over the stamps of what it holds.
LEMMA FittedFrom ==
    ASSUME NEW m, NEW o, NEW end, NEW b, NEW bud \in Nat, Booked(m, o, end), Counted(m, b)
    PROVE  \E c \in Nat : /\ Fifo!Fitted(m, bud) = Fifo!From(m, c)
                          /\ Weigh(m, Since(m, c)) <= bud
                          /\ \A k \in Present(m) :
                                Weigh(m, Since(m, m[k].seq)) <= bud => c <= m[k].seq
<1> DEFINE stamps == {m[k].seq : k \in Fifo!Held(m)}
           past == IF stamps = {} THEN 0 ELSE Fifo!Max(stamps) + 1
           fits == {c \in stamps \cup {past} : Fifo!WeightOf(Fifo!From(m, c)) <= bud}
<1>1. Fifo!Held(m) = Present(m)
      BY DEF Fifo!Held, Present
<1>2. \A k \in Present(m) : m[k].seq \in Nat /\ m[k].seq < end
      BY DEF Booked, Present, Entries
<1>3. end \in Nat /\ stamps \subseteq Nat /\ \A i \in stamps : i < end
      BY <1>1, <1>2 DEF Booked
<1>4. past \in Nat /\ \A i \in stamps : i < past
  <2> HIDE DEF stamps
  <2>1. CASE stamps = {}
        BY <2>1
  <2>2. CASE stamps # {}
    <3>1. Fifo!Max(stamps) \in stamps /\ \A i \in stamps : i <= Fifo!Max(stamps)
          BY <1>3, <2>2, GreatestOf
    <3>2. PICK x \in Nat : x = Fifo!Max(stamps)
          BY <1>3, <3>1
    <3>3. past = x + 1
          BY <2>2, <3>2
    <3>4. \A i \in stamps : i \in Nat /\ i <= x
          BY <1>3, <3>1, <3>2
    <3> QED
        BY <3>3, <3>4
  <2> QED
      BY <2>1, <2>2
<1> HIDE DEF past
<1>5. Since(m, past) = {}
  <2>1. \A k \in Present(m) : m[k].seq \in Nat /\ m[k].seq < past
        BY <1>1, <1>2, <1>4
  <2>2. \A k \in Present(m) : ~(m[k].seq >= past)
        BY <1>4, <2>1
  <2> QED
      BY <2>2, Zenon DEF Since
<1>6. Weigh(m, {}) = 0
      BY NoUnits
<1>7. Fifo!WeightOf(Fifo!From(m, past)) <= bud
      BY <1>4, <1>5, <1>6, SinceWeighs
<1>8. fits \subseteq Nat /\ past \in fits
  <2> HIDE DEF stamps
  <2> QED
      BY <1>3, <1>4, <1>7
<1>9. PICK c : c = Fifo!Min(fits)
      OBVIOUS
<1>10. c \in fits /\ \A i \in fits : c <= i
  <2> HIDE DEF fits
  <2> QED
      BY <1>8, <1>9, LeastOf
<1>11. Weigh(m, Since(m, c)) <= bud /\ c \in Nat
  <2> HIDE DEF stamps
  <2> QED
      BY <1>8, <1>10, SinceWeighs
<1>12. ASSUME NEW k \in Present(m), Weigh(m, Since(m, m[k].seq)) <= bud
       PROVE  c <= m[k].seq
  <2>1. m[k].seq \in Nat /\ m[k].seq \in stamps
        BY <1>1, <1>2
  <2>2. Fifo!WeightOf(Fifo!From(m, m[k].seq)) <= bud
        BY <1>12, <2>1, SinceWeighs
  <2> HIDE DEF stamps
  <2> QED
      BY <1>10, <2>1, <2>2
<1>13. Fifo!Fitted(m, bud) = Fifo!From(m, c)
       BY <1>9 DEF Fifo!Fitted, past
<1> HIDE DEF fits, stamps
<1> QED
    BY <1>11, <1>12, <1>13

LEMMA EvictionFits ==
    ASSUME NEW m, NEW o, NEW b, NEW bud \in Nat, NEW end, Booked(m, o, end),
           Counted(m, b), EvictToFit(m, o, b, bud, end)
    PROVE  /\ map' = Fifo!Fitted(m, bud)
           /\ Counted(map', bytes') /\ bytes' <= bud
           /\ \A k \in Present(m) :
                 Weigh(m, Since(m, m[k].seq)) <= bud => map'[k] = m[k]
<1>1. PICK c : c = EvictionCut(m, o, b, bud, end)
      OBVIOUS
<1>2. /\ c \in Nat /\ c <= end
      /\ Weigh(m, Since(m, c)) <= bud
      /\ \A k \in Present(m) : Weigh(m, Since(m, m[k].seq)) <= bud => c <= m[k].seq
      BY <1>1, CutIsLeast
<1>3. PICK f \in Nat :
        /\ Fifo!Fitted(m, bud) = Fifo!From(m, f)
        /\ Weigh(m, Since(m, f)) <= bud
        /\ \A k \in Present(m) : Weigh(m, Since(m, m[k].seq)) <= bud => f <= m[k].seq
      BY FittedFrom
<1>4. \A k \in Present(m) : k \in Keys /\ m[k].seq \in Nat /\ <<m[k].seq, k>> \in o
      BY DEF Booked, Present, Entries
<1>5. \A k \in Keys : k \notin Present(m) => m[k] = NoEntry
      BY DEF Present
\* Nothing is stamped between the two cuts.
<1>6. ASSUME NEW k \in Present(m), NEW g \in Nat, Weigh(m, Since(m, g)) <= bud,
             g <= m[k].seq
      PROVE  c <= m[k].seq /\ f <= m[k].seq
  <2>1. PICK n \in Nat : n = m[k].seq
        BY <1>4
  <2>2. PICK x \in Nat : x = Weigh(m, Since(m, n))
        BY SinceWeighs
  <2>3. PICK y \in Nat : y = Weigh(m, Since(m, g))
        BY SinceWeighs
  <2>4. x <= y
        BY <1>6, <2>1, <2>2, <2>3, SinceShrinks
  <2>5. x <= bud
        BY <1>6, <2>3, <2>4
  <2> QED
      BY <1>2, <1>3, <2>1, <2>2, <2>5
<1>7. \A k \in Present(m) : c <= m[k].seq <=> f <= m[k].seq
      BY <1>2, <1>3, <1>6
<1>8. map' = [k \in Keys |-> IF k \in Present(m) /\ m[k].seq >= c THEN m[k] ELSE NoEntry]
  <2>1. map' = [k \in Keys |->
                 IF m[k] # NoEntry /\ <<m[k].seq, k>> \in {s \in o : s[1] < c}
                   THEN NoEntry ELSE m[k]]
        BY <1>1 DEF EvictToFit
  <2>2. ASSUME NEW k \in Keys
        PROVE  (IF m[k] # NoEntry /\ <<m[k].seq, k>> \in {s \in o : s[1] < c}
                  THEN NoEntry ELSE m[k])
               = (IF k \in Present(m) /\ m[k].seq >= c THEN m[k] ELSE NoEntry)
    <3>1. CASE k \notin Present(m)
          BY <1>5, <3>1
    <3>2. CASE k \in Present(m)
      <4>1. PICK n \in Nat : n = m[k].seq
            BY <1>4, <3>2
      <4>2. <<n, k>> \in {s \in o : s[1] < c} <=> n < c
            BY <1>4, <3>2, <4>1
      <4>3. n < c <=> ~(n >= c)
            BY <1>2
      <4>4. m[k] # NoEntry
            BY <3>2 DEF Present
      <4> QED
          BY <3>2, <4>1, <4>2, <4>3, <4>4
    <3> QED
        BY <3>1, <3>2
  <2> QED
      BY <2>1, <2>2, Zenon
<1>9. map' = Fifo!Fitted(m, bud)
  <2>1. Fifo!From(m, f) = [k \in Keys |-> IF k \in Present(m) /\ m[k].seq >= f
                                            THEN m[k] ELSE NoEntry]
        BY Zenon DEF Fifo!From, Fifo!Held, Present
  <2>2. \A k \in Present(m) : m[k].seq >= c <=> m[k].seq >= f
    <3>1. \A n \in Nat : (n >= c <=> c <= n) /\ (n >= f <=> f <= n)
          BY <1>2
    <3> QED
        BY <1>4, <1>7, <3>1
  <2>3. map' = Fifo!From(m, f)
        BY <1>8, <2>1, <2>2, Zenon
  <2> QED
      BY <1>3, <2>3
<1>10. Present(map') = Since(m, c) /\ \A k \in Since(m, c) : map'[k] = m[k]
       BY <1>8, Zenon DEF Present, Since
<1>11. Units(map', Present(map')) = Units(m, Since(m, c))
       /\ Weigh(map', Present(map')) = Weigh(m, Since(m, c))
  <2>1. PICK n : n = map'
        OBVIOUS
  <2>2. Present(n) = Since(m, c) /\ \A k \in Since(m, c) : n[k] = m[k]
        BY <1>10, <2>1
  <2>3. Units(n, Since(m, c)) = Units(m, Since(m, c))
        /\ Weigh(n, Since(m, c)) = Weigh(m, Since(m, c))
        BY <2>2, UnitsAgree
  <2> QED
      BY <2>1, <2>2, <2>3
<1>12. bytes' = Weigh(m, Since(m, c)) /\ IsFiniteSet(Units(m, Since(m, c)))
  <2>1. bytes' = Monus(b, WeightBelow(m, o, c))
        BY <1>1 DEF EvictToFit
  <2> QED
      BY <1>2, <2>1, SinceWeighs
<1>13. Counted(map', bytes') /\ bytes' <= bud
  <2>1. IsFiniteSet(Units(map', Present(map')))
        BY <1>11, <1>12
  <2> QED
      BY <1>2, <1>11, <1>12, <2>1 DEF Counted
<1>14. ASSUME NEW k \in Present(m), Weigh(m, Since(m, m[k].seq)) <= bud
       PROVE  map'[k] = m[k]
  <2>1. PICK n \in Nat : n = m[k].seq
        BY <1>4
  <2>2. c <= n
        BY <1>2, <1>14, <2>1
  <2>3. m[k].seq >= c
        BY <1>2, <2>1, <2>2
  <2> QED
      BY <1>4, <1>8, <2>3
<1> QED
    BY <1>9, <1>13, <1>14

(***************************************************************************)
(* Each critical section is a step of the FIFO store.                      *)
(***************************************************************************)
\* The shard with its bytes counted and within its budget.
ShardExact ==
    /\ Booked(map, order, next_seq)
    /\ Counted(map, bytes)
    /\ budget \in Budgets
    /\ bytes <= budget

LEMMA PutIsStore ==
    ASSUME ShardExact, NEW k \in Keys, NEW w \in Weights, NEW p \in Payloads,
           ShardPut(k, w, p)
    PROVE  Fifo!Store(k, w, p) /\ Counted(map', bytes') /\ bytes' <= budget'
           /\ budget' = budget
<1> DEFINE e == [seq |-> next_seq, weight |-> w, payload |-> p]
           m == [map EXCEPT ![k] = e]
           freed == IF map[k] = NoEntry THEN 0 ELSE map[k].weight
           b == Monus(bytes, freed) + w
           o == order \cup {<<next_seq, k>>}
           others == Present(map) \ {k}
<1>1. /\ e \in Entries /\ e # NoEntry /\ e.seq = next_seq /\ e.weight = w
      /\ next_seq \in Nat /\ w \in Nat /\ budget \in Nat /\ w <= budget
      BY CacheShardAssumption DEF Entries, Booked, ShardExact, ShardPut
<1>2. EvictToFit(m, CompactOrder(m, o), b, budget, next_seq + 1)
      /\ next_seq' = next_seq + 1 /\ budget' = budget
      BY DEF ShardPut
<1> HIDE DEF e
<1>3. /\ \A x \in Keys : m[x] = IF x = k THEN e ELSE map[x]
      /\ Present(m) = others \cup {k}
      /\ m \in [Keys -> Entries \cup {NoEntry}]
      BY <1>1 DEF ShardExact, Booked, Present
<1>4. Booked(m, CompactOrder(m, o), next_seq + 1)
  <2>1. Booked(m, o, next_seq + 1)
        BY PutBooked DEF ShardExact, e
  <2> HIDE DEF m, o
  <2> QED
      BY <2>1, CompactKeepsBooks
<1> HIDE DEF m
\* What the others weigh: the old entry's weight has been taken off.
<1>5. /\ IsFiniteSet(Units(map, others))
      /\ Weigh(map, others) \in Nat
      /\ Monus(bytes, freed) = Weigh(map, others)
  <2>1. CASE map[k] = NoEntry
    <3>1. others = Present(map)
          BY <2>1 DEF Present
    <3>2. bytes \in Nat /\ bytes = Weigh(map, Present(map))
          /\ IsFiniteSet(Units(map, Present(map)))
          BY FS_CardinalityType, UnitsAre DEF ShardExact, Counted
    <3>3. Monus(bytes, freed) = bytes
          BY <2>1, <3>2 DEF Monus
    <3> QED
        BY <3>1, <3>2, <3>3
  <2>2. CASE map[k] # NoEntry
    <3>1. map[k].weight \in Nat
          BY <2>2, CacheShardAssumption DEF ShardExact, Booked, Entries
    <3>2. others \cup {k} = Present(map) /\ k \notin others /\ others \in SUBSET Present(map)
          BY <2>2 DEF Present
    <3>3. IsFiniteSet(Units(map, others))
          BY <3>2, UnitsSplit DEF ShardExact, Counted
    <3>4. bytes = Weigh(map, others) + map[k].weight /\ Weigh(map, others) \in Nat
      <4>1. k \notin others
            BY <3>2
      <4> HIDE DEF others
      <4>2. /\ Weigh(map, others \cup {k}) = Weigh(map, others) + map[k].weight
            /\ Weigh(map, others) \in Nat
            BY <3>1, <3>3, <4>1, UnitsMore, Zenon
      <4> QED
          BY <3>2, <4>2 DEF ShardExact, Counted
    <3>5. PICK x \in Nat, y \in Nat : x = Weigh(map, others) /\ y = map[k].weight
          BY <3>1, <3>4
    <3>6. bytes = x + y /\ freed = y
          BY <2>2, <3>4, <3>5
    <3>7. Monus(bytes, freed) = x
          BY <3>6 DEF Monus
    <3> QED
        BY <3>3, <3>4, <3>5, <3>7
  <2> QED
      BY <2>1, <2>2
<1>6. Counted(m, b)
  <2>1. \A x \in others : m[x] = map[x]
        BY <1>3 DEF Present
  <2>2. Units(m, others) = Units(map, others) /\ Weigh(m, others) = Weigh(map, others)
        BY <2>1, UnitsAgree
  <2>3. m[k].weight = w
        BY <1>1, <1>3
  <2>4. k \notin others
        OBVIOUS
  <2>5. IsFiniteSet(Units(m, others \cup {k}))
        /\ Weigh(m, others \cup {k}) = Weigh(m, others) + w
    <3>1. m[k].weight \in Nat /\ IsFiniteSet(Units(m, others))
          BY <1>1, <1>5, <2>2, <2>3
    <3> HIDE DEF others
    <3>2. /\ IsFiniteSet(Units(m, others \cup {k}))
          /\ Weigh(m, others \cup {k}) = Weigh(m, others) + m[k].weight
          BY <2>4, <3>1, UnitsMore, Zenon
    <3> QED
        BY <2>3, <3>2
  <2> QED
      BY <1>3, <1>5, <2>2, <2>5 DEF Counted
<1>7. Weigh(m, Since(m, m[k].seq)) <= budget /\ k \in Present(m)
  <2>1. Since(m, next_seq) = {k}
    <3>1. \A x \in others : m[x].seq \in Nat /\ m[x].seq < next_seq
          BY <1>3 DEF ShardExact, Booked, Present, Entries
    <3>2. \A x \in others : ~(m[x].seq >= next_seq)
          BY <1>1, <3>1
    <3>3. m[k].seq >= next_seq
          BY <1>1, <1>3
    <3> QED
        BY <1>3, <3>2, <3>3 DEF Since
  <2>2. m[k].weight = w /\ m[k].seq = next_seq
        BY <1>1, <1>3
  <2>3. Weigh(m, {k}) = w
    <3>1. IsFiniteSet(Units(m, {}))
      <4>1. Units(m, {}) = {}
            BY UnitsAre
      <4> QED
          BY <4>1, FS_EmptySet
    <3>2. k \notin {} /\ m[k].weight \in Nat
          BY <1>1, <2>2
    <3> QED
        BY <2>2, <3>1, <3>2, UnitsMore
  <2> QED
      BY <1>1, <1>3, <2>1, <2>2, <2>3
<1>8. /\ map' = Fifo!Fitted(m, budget)
      /\ Counted(map', bytes') /\ bytes' <= budget
      /\ map'[k] = m[k]
  <2> HIDE DEF o, b
  <2> QED
      BY <1>1, <1>2, <1>4, <1>6, <1>7, EvictionFits
<1>9. Fifo!Store(k, w, p)
      BY <1>1, <1>2, <1>3, <1>8 DEF Fifo!Store, e, m
<1> QED
    BY <1>2, <1>8, <1>9

LEMMA RemoveIsForget ==
    ASSUME ShardExact, NEW k \in Keys, ShardRemove(k)
    PROVE  Fifo!Forget(k) /\ Counted(map', bytes') /\ bytes' <= budget'
           /\ budget' = budget
<1> DEFINE others == Present(map) \ {k}
<1>1. /\ map[k] # NoEntry /\ map' = [map EXCEPT ![k] = NoEntry]
      /\ bytes' = Monus(bytes, map[k].weight) /\ budget' = budget /\ next_seq' = next_seq
      BY DEF ShardRemove
<1>2. map[k].weight \in Nat
      BY <1>1, CacheShardAssumption DEF ShardExact, Booked, Entries
<1>3. others \cup {k} = Present(map) /\ k \notin others /\ others \in SUBSET Present(map)
      BY <1>1 DEF Present
<1>4. IsFiniteSet(Units(map, others))
      BY <1>3, UnitsSplit DEF ShardExact, Counted
<1>5. bytes = Weigh(map, others) + map[k].weight /\ Weigh(map, others) \in Nat
  <2>1. k \notin others
        BY <1>3
  <2> HIDE DEF others
  <2>2. /\ Weigh(map, others \cup {k}) = Weigh(map, others) + map[k].weight
        /\ Weigh(map, others) \in Nat
        BY <1>2, <1>4, <2>1, UnitsMore, Zenon
  <2> QED
      BY <1>3, <2>2 DEF ShardExact, Counted
<1>6. bytes' = Weigh(map, others) /\ bytes' <= budget
  <2>1. PICK x \in Nat, y \in Nat : x = Weigh(map, others) /\ y = map[k].weight
        BY <1>2, <1>5
  <2>2. bytes = x + y /\ bytes' = Monus(bytes, y) /\ bytes <= budget /\ budget \in Nat
        BY <1>1, <1>5, <2>1, CacheShardAssumption DEF ShardExact
  <2>3. bytes' = x /\ x <= budget
        BY <2>2 DEF Monus
  <2> QED
      BY <2>1, <2>3
<1>7. Present(map') = others /\ \A x \in others : map'[x] = map[x]
      BY <1>1 DEF Present, ShardExact, Booked
<1>8. Counted(map', bytes')
  <2>1. PICK n : n = map'
        OBVIOUS
  <2>2. Units(n, others) = Units(map, others) /\ Weigh(n, others) = Weigh(map, others)
        BY <1>7, <2>1, UnitsAgree
  <2>3. IsFiniteSet(Units(n, Present(n))) /\ bytes' = Weigh(n, Present(n))
        BY <1>4, <1>6, <1>7, <2>1, <2>2
  <2> QED
      BY <2>1, <2>3 DEF Counted
<1> QED
    BY <1>1, <1>6, <1>8 DEF Fifo!Forget

LEMMA ResizeIsResize ==
    ASSUME ShardExact, NEW b \in Budgets, ShardResize(b)
    PROVE  Fifo!Resize(b) /\ Counted(map', bytes') /\ bytes' <= budget'
           /\ budget' = b
<1>1. b \in Nat
      BY CacheShardAssumption
<1>2. budget' = b /\ next_seq' = next_seq /\ EvictToFit(map, order, bytes, b, next_seq)
      BY DEF ShardResize
<1>3. map' = Fifo!Fitted(map, b) /\ Counted(map', bytes') /\ bytes' <= b
      BY <1>1, <1>2, EvictionFits DEF ShardExact
<1> QED
    BY <1>2, <1>3 DEF Fifo!Resize

LEMMA NothingWeighsNothing ==
    ASSUME NEW m, m = [k \in Keys |-> NoEntry]
    PROVE  Counted(m, 0)
<1>1. Present(m) = {}
      BY DEF Present
<1> QED
    BY <1>1, NoUnits DEF Counted

LEMMA ClearIsEmpty ==
    ASSUME ShardExact, ShardClear
    PROVE  Fifo!Empty /\ Counted(map', bytes') /\ bytes' <= budget'
           /\ budget' = budget
<1>1. /\ map' = [k \in Keys |-> NoEntry] /\ bytes' = 0 /\ budget' = budget
      /\ next_seq' = next_seq
      BY DEF ShardClear
<1>2. Counted(map', 0)
      BY <1>1, NothingWeighsNothing
<1>3. 0 <= budget
      BY CacheShardAssumption DEF ShardExact
<1> QED
    BY <1>1, <1>2, <1>3 DEF Fifo!Empty

\* The budget that a reload is about to install is one of a configuration.
ReloadsConfigured ==
    \A c \in Callers : call[c].op = "resize" => PerShard(call[c].size) \in Budgets

ExactInv == CallerInv /\ ShardExact /\ ReloadsConfigured

LEMMA ReloadsStep ==
    ASSUME ExactInv, [CacheNext]_cacheVars
    PROVE  ReloadsConfigured'
<1>0. DOMAIN call = Callers
      BY DEF ExactInv, CallerInv
<1>1. ASSUME NEW c \in Callers, NEW s, Goto(c, s),
             s.op = "resize" => PerShard(s.size) \in Budgets
      PROVE  ReloadsConfigured'
  <2>1. \A d \in Callers : call'[d] = IF d = c THEN s ELSE call[d]
        BY <1>0, <1>1 DEF Goto
  <2> QED
      BY <1>1, <2>1 DEF ReloadsConfigured, ExactInv
<1>2. ASSUME NEW c \in Callers, NEW new \in Configs, ConfigWrite(c, new)
      PROVE  ReloadsConfigured'
  <2>1. PICK s : s = [op |-> "resize", size |-> new.size]
        OBVIOUS
  <2>2. s.size = new.size
        BY <2>1
  <2>3. PerShard(s.size) \in Budgets
        BY <2>2, BudgetsAssumption
  <2> QED
      BY <1>1, <1>2, <2>1, <2>3 DEF ConfigWrite
<1>3. ASSUME NEW c \in Callers, NEW k \in Keys,
             GetCheck(c, k) \/ \E m \in Messages : PutCheck(c, k, m)
      PROVE  ReloadsConfigured'
  <2>1. \/ \E f, t : Goto(c, [op |-> "get", key |-> k, cfg |-> f, at |-> t])
        \/ \E m, q : Goto(c, [op |-> "ttl", key |-> k, msg |-> m, claim |-> q])
        BY <1>3 DEF GetCheck, PutCheck
  <2>2. CASE \E f, t : Goto(c, [op |-> "get", key |-> k, cfg |-> f, at |-> t])
    <3>1. PICK f, t : Goto(c, [op |-> "get", key |-> k, cfg |-> f, at |-> t])
          BY <2>2
    <3>2. [op |-> "get", key |-> k, cfg |-> f, at |-> t].op # "resize"
          OBVIOUS
    <3> QED
        BY <1>1, <3>1, <3>2
  <2>3. CASE \E m, q : Goto(c, [op |-> "ttl", key |-> k, msg |-> m, claim |-> q])
    <3>1. PICK m, q : Goto(c, [op |-> "ttl", key |-> k, msg |-> m, claim |-> q])
          BY <2>3
    <3>2. [op |-> "ttl", key |-> k, msg |-> m, claim |-> q].op # "resize"
          OBVIOUS
    <3> QED
        BY <1>1, <3>1, <3>2
  <2> QED
      BY <2>1, <2>2, <2>3
<1>4. ASSUME NEW c \in Callers,
             \/ PutTtl(c) \/ PutStore(c) \/ PutOversized(c) \/ GetMiss(c) \/ GetDrop(c)
             \/ EndRefresh(c) \/ ConfigResize(c) \/ ConfigCheck(c) \/ ConfigClear(c)
             \/ AskClear(c)
      PROVE  ReloadsConfigured'
  <2>1. PICK s : Goto(c, s) /\ s.op # "resize"
        BY <1>4 DEF PutTtl, PutStore, PutOversized, GetMiss, GetDrop, EndRefresh,
                    ConfigResize, ConfigCheck, ConfigClear, AskClear, AfterPut, Idle
  <2> QED
      BY <1>1, <2>1
<1>5. ASSUME NEW c \in Callers, GetHit(c)
      PROVE  ReloadsConfigured'
  <2>1. \/ Goto(c, Idle)
        \/ \E k, q : Goto(c, [op |-> "claimed", key |-> k, claim |-> q])
        BY <1>5 DEF GetHit
  <2>2. Idle.op # "resize"
        BY DEF Idle
  <2>3. CASE \E k, q : Goto(c, [op |-> "claimed", key |-> k, claim |-> q])
    <3>1. PICK k, q : Goto(c, [op |-> "claimed", key |-> k, claim |-> q])
          BY <2>3
    <3>2. [op |-> "claimed", key |-> k, claim |-> q].op # "resize"
          OBVIOUS
    <3> QED
        BY <1>1, <3>1, <3>2
  <2> QED
      BY <1>1, <2>1, <2>2, <2>3
<1>6. ASSUME Tick \/ UNCHANGED cacheVars
      PROVE  ReloadsConfigured'
      BY <1>6 DEF Tick, cacheVars, ReloadsConfigured, ExactInv
<1> QED
    BY <1>2, <1>3, <1>4, <1>5, <1>6 DEF CacheNext

\* A step of the cache leaves the books exact, and is a step of the FIFO
\* store or leaves it alone.
LEMMA ExactStep ==
    ASSUME ExactInv, [CacheNext]_cacheVars
    PROVE  ExactInv' /\ [Fifo!FifoNext]_(Fifo!fifoVars)
<1>1. CallerInv' /\ ReloadsConfigured'
      BY CallerStepInv, ReloadsStep DEF ExactInv
<1>2. Booked(map', order', next_seq')
      BY BooksStep DEF ExactInv, ShardExact
<1>3. ShardExact' <=> /\ Booked(map', order', next_seq')
                      /\ Counted(map', bytes')
                      /\ budget' \in Budgets
                      /\ bytes' <= budget'
      BY DEF ShardExact
<1>4. CASE UNCHANGED shardVars
  <2>1. ShardExact'
        BY <1>2, <1>3, <1>4 DEF ExactInv, ShardExact, shardVars
  <2>2. UNCHANGED Fifo!fifoVars
        BY <1>4 DEF shardVars, Fifo!fifoVars
  <2> QED
      BY <1>1, <2>1, <2>2 DEF ExactInv
<1>5. ASSUME NEW k \in Keys, NEW w \in Weights, NEW p \in Payloads, ShardPut(k, w, p)
      PROVE  ShardExact' /\ Fifo!FifoNext
  <2>1. Fifo!Store(k, w, p) /\ Counted(map', bytes') /\ bytes' <= budget'
        /\ budget' = budget
        BY <1>5, PutIsStore DEF ExactInv
  <2> QED
      BY <1>2, <1>3, <2>1 DEF Fifo!FifoNext, ExactInv, ShardExact
<1>6. ASSUME NEW k \in Keys, ShardRemove(k)
      PROVE  ShardExact' /\ Fifo!FifoNext
  <2>1. Fifo!Forget(k) /\ Counted(map', bytes') /\ bytes' <= budget' /\ budget' = budget
        BY <1>6, RemoveIsForget DEF ExactInv
  <2> QED
      BY <1>2, <1>3, <2>1 DEF Fifo!FifoNext, ExactInv, ShardExact
<1>7. ASSUME NEW b \in Budgets, ShardResize(b)
      PROVE  ShardExact' /\ Fifo!FifoNext
  <2>1. Fifo!Resize(b) /\ Counted(map', bytes') /\ bytes' <= budget' /\ budget' = b
        BY <1>7, ResizeIsResize DEF ExactInv
  <2> QED
      BY <1>2, <1>3, <2>1 DEF Fifo!FifoNext
<1>8. CASE ShardClear
  <2>1. Fifo!Empty /\ Counted(map', bytes') /\ bytes' <= budget' /\ budget' = budget
        BY <1>8, ClearIsEmpty DEF ExactInv
  <2> QED
      BY <1>1, <1>2, <1>3, <2>1 DEF Fifo!FifoNext, ExactInv, ShardExact
\* A resize is a reload's, to the budget of the settings it installed.
<1>9. \/ UNCHANGED shardVars
      \/ \E k \in Keys, w \in Weights, p \in Payloads : ShardPut(k, w, p)
      \/ \E k \in Keys : ShardRemove(k)
      \/ \E b \in Budgets : ShardResize(b)
      \/ ShardClear
  <2>1. ASSUME NEW c \in Callers, call[c].op = "resize",
               ShardResize(PerShard(call[c].size))
        PROVE  \E b \in Budgets : ShardResize(b)
        BY <2>1 DEF ExactInv, ReloadsConfigured
  <2> QED
      BY <2>1, ShardEffects DEF ExactInv
<1> QED
    BY <1>1, <1>4, <1>5, <1>6, <1>7, <1>8, <1>9 DEF ExactInv

LEMMA ExactInit == CacheInit => ExactInv /\ Fifo!FifoInit
<1> SUFFICES ASSUME CacheInit PROVE ExactInv /\ Fifo!FifoInit
    OBVIOUS
<1>1. CallerInv /\ Booked(map, order, next_seq) /\ ReloadsConfigured
      BY CacheAssumption DEF CacheInit, CallerInv, CarriedOK, Idle, Booked,
                             ReloadsConfigured
<1>2. budget \in Budgets /\ budget \in Nat
      BY BudgetsAssumption, CacheShardAssumption DEF CacheInit
<1>3. Counted(map, bytes) /\ bytes <= budget
      BY <1>2, NothingWeighsNothing DEF CacheInit
<1> QED
    BY <1>1, <1>2, <1>3 DEF ExactInv, ShardExact, CacheInit, Fifo!FifoInit

\* The byte count is what the entries weigh together, and within the budget,
\* after every Cache::put, expiry and set_config, whichever of them callers
\* interleave: no saturating subtraction ever saturates.
THEOREM BytesAreExactHolds == CacheSpec => []BytesAreExact
<1>1. ExactInv => BytesAreExact
      BY DEF ExactInv, ShardExact, Counted, BytesAreExact
<1>2. CacheInit => ExactInv
      BY ExactInit
<1>3. ExactInv /\ [CacheNext]_cacheVars => ExactInv'
      BY ExactStep
<1> QED
    BY <1>1, <1>2, <1>3, PTL DEF CacheSpec

\* The cache's shard is a FIFO store for every set of keys, weights, budgets
\* and callers: Cache::put keeps what it stores and the newest entries that
\* fit beside it, set_config the newest that fit, and Cache::get and clear
\* give up what they are told to and nothing else.
THEOREM ImplementsFifoStoreHolds == CacheSpec => ImplementsFifoStore
<1>1. CacheInit => ExactInv /\ Fifo!FifoInit
      BY ExactInit
<1>2. ExactInv /\ [CacheNext]_cacheVars => ExactInv' /\ [Fifo!FifoNext]_(Fifo!fifoVars)
      BY ExactStep
<1> QED
    BY <1>1, <1>2, PTL DEF CacheSpec, ImplementsFifoStore, Fifo!FifoSpec

(***************************************************************************)
(* Dead slots: every critical section that may leave one compacts the      *)
(* queue, and eviction leaves none that was not there.                     *)
(***************************************************************************)
\* The slots of o whose entry is gone.
Dead(m, o) == {s \in o : ~LiveSlot(m, s)}

\* There are at least as many live slots as entries, so what compact_order
\* lets stand is at most one dead slot for each entry, and the slack.
LEMMA CompactBoundsDead ==
    ASSUME NEW m, NEW o, NEW end, Booked(m, o, end), IsFiniteSet(o), IsFiniteSet(Keys)
    PROVE  /\ IsFiniteSet(CompactOrder(m, o))
           /\ Cardinality(Dead(m, CompactOrder(m, o))) <= Cardinality(Keys) + CompactSlack
<1> DEFINE P == Present(m)
           live == {s \in o : LiveSlot(m, s)}
           f == [k \in P |-> <<m[k].seq, k>>]
<1>1. P \subseteq Keys /\ live \subseteq o /\ Dead(m, o) \subseteq o
      BY DEF Present, Dead
<1>2. /\ IsFiniteSet(live) /\ IsFiniteSet(Dead(m, o)) /\ IsFiniteSet(P)
      /\ Cardinality(P) <= Cardinality(Keys)
      BY <1>1, FS_Subset
<1>3. f \in Injection(P, live)
  <2>1. ASSUME NEW k \in P
        PROVE  <<m[k].seq, k>> \in live
    <3>1. <<m[k].seq, k>> \in o /\ m[k] # NoEntry
          BY DEF Booked, Present
    <3> QED
        BY <3>1 DEF LiveSlot
  <2>2. f \in [P -> live]
        BY <2>1
  <2>3. \A a, b \in P : f[a] = f[b] => a = b
        OBVIOUS
  <2> HIDE DEF f, P, live
  <2> QED
      BY <2>2, <2>3 DEF Injection, IsInjective
<1>4. Cardinality(P) <= Cardinality(live)
  <2> HIDE DEF f, P, live
  <2> QED
      BY <1>2, <1>3, FS_Injection
<1>5. Cardinality(o) = Cardinality(live) + Cardinality(Dead(m, o))
  <2>1. o = live \cup Dead(m, o) /\ live \cap Dead(m, o) = {}
        BY DEF Dead
  <2> HIDE DEF live
  <2>2. Cardinality(o) = Cardinality(live) + Cardinality(Dead(m, o)) - Cardinality({})
        BY <1>2, <2>1, FS_Union
  <2>3. Cardinality(live) \in Nat /\ Cardinality(Dead(m, o)) \in Nat
        BY <1>2, FS_CardinalityType
  <2> QED
      BY <2>2, <2>3, FS_EmptySet
<1>6. /\ Cardinality(P) \in Nat /\ Cardinality(live) \in Nat
      /\ Cardinality(Dead(m, o)) \in Nat /\ Cardinality(Keys) \in Nat
      /\ CompactSlack \in Nat
      BY <1>2, FS_CardinalityType, CacheShardAssumption
<1>7. CASE Cardinality(o) <= 2 * Cardinality(P) + CompactSlack
  <2>1. CompactOrder(m, o) = o
        BY <1>7 DEF CompactOrder
  <2>2. Cardinality(Dead(m, o)) <= Cardinality(Keys) + CompactSlack
    <3> HIDE DEF P, live
    <3> QED
        BY <1>2, <1>4, <1>5, <1>6, <1>7
  <2> QED
      BY <2>1, <2>2
<1>8. CASE ~(Cardinality(o) <= 2 * Cardinality(P) + CompactSlack)
  <2>1. CompactOrder(m, o) = live
        BY <1>8 DEF CompactOrder
  <2>2. Dead(m, live) = {}
        BY DEF Dead
  <2>3. Cardinality(Dead(m, live)) = 0
        BY <2>2, FS_EmptySet
  <2> HIDE DEF P, live
  <2> QED
      BY <1>2, <1>6, <2>1, <2>3
<1> QED
    BY <1>7, <1>8

\* Eviction takes an entry only through its slot: it leaves no dead slot that
\* was not there before.
LEMMA EvictMakesNoDead ==
    ASSUME NEW m, NEW o, NEW b, NEW bud, NEW end, Booked(m, o, end),
           EvictToFit(m, o, b, bud, end)
    PROVE  order' \subseteq o /\ Dead(map', order') \subseteq Dead(m, o)
<1>1. PICK popped : /\ map' = [k \in Keys |->
                                 IF m[k] # NoEntry /\ <<m[k].seq, k>> \in popped
                                   THEN NoEntry ELSE m[k]]
                    /\ order' = o \ popped
      BY DEF EvictToFit
<1>2. ASSUME NEW s \in o, s \notin popped, LiveSlot(m, s)
      PROVE  LiveSlot(map', s)
  <2>1. s[2] \in Keys /\ s = <<s[1], s[2]>>
        BY DEF Booked, Slots
  <2>2. PICK k \in Keys : k = s[2]
        BY <2>1
  <2>3. m[k] # NoEntry /\ m[k].seq = s[1]
        BY <1>2, <2>2 DEF LiveSlot
  <2>4. <<m[k].seq, k>> \notin popped
        BY <1>2, <2>1, <2>2, <2>3
  <2>5. map'[k] = m[k]
        BY <1>1, <2>4
  <2> QED
      BY <2>2, <2>3, <2>5 DEF LiveSlot
<1> QED
    BY <1>1, <1>2 DEF Dead

\* The queue is finite, and has few slots whose entry is gone.
DeadInv ==
    /\ IsFiniteSet(order)
    /\ Cardinality(Dead(map, order)) <= Cardinality(Keys) + CompactSlack

LEMMA DeadStep ==
    ASSUME IsFiniteSet(Keys), CallerInv, Booked(map, order, next_seq), DeadInv,
           [CacheNext]_cacheVars
    PROVE  DeadInv'
<1>1. DeadInv' <=> /\ IsFiniteSet(order')
                   /\ Cardinality(Dead(map', order')) <= Cardinality(Keys) + CompactSlack
      BY DEF DeadInv, Dead, LiveSlot
<1>2. Cardinality(Keys) \in Nat /\ CompactSlack \in Nat
      BY FS_CardinalityType, CacheShardAssumption
\* Fewer slots, and fewer dead ones.
<1>3. ASSUME NEW m, NEW o, IsFiniteSet(o),
             Cardinality(Dead(m, o)) <= Cardinality(Keys) + CompactSlack,
             order' \subseteq o, Dead(map', order') \subseteq Dead(m, o)
      PROVE  DeadInv'
  <2>1. IsFiniteSet(order') /\ IsFiniteSet(Dead(m, o))
    <3>1. Dead(m, o) \subseteq o
          BY DEF Dead
    <3> QED
        BY <1>3, <3>1, FS_Subset
  <2>2. PICK x, y : x = Cardinality(Dead(m, o)) /\ y = Cardinality(Dead(map', order'))
        OBVIOUS
  <2>3. x \in Nat /\ y \in Nat /\ y <= x
    <3>1. /\ IsFiniteSet(Dead(map', order'))
          /\ Cardinality(Dead(map', order')) <= Cardinality(Dead(m, o))
          BY <1>3, <2>1, FS_Subset
    <3> QED
        BY <2>1, <2>2, <3>1, FS_CardinalityType
  <2> QED
      BY <1>1, <1>2, <1>3, <2>1, <2>2, <2>3
<1>4. ASSUME NEW k \in Keys, NEW w \in Weights, NEW p \in Payloads, ShardPut(k, w, p)
      PROVE  DeadInv'
  <2> DEFINE e == [seq |-> next_seq, weight |-> w, payload |-> p]
             m == [map EXCEPT ![k] = e]
             o == order \cup {<<next_seq, k>>}
             b == Monus(bytes, IF map[k] = NoEntry THEN 0 ELSE map[k].weight) + w
  <2>1. Booked(m, o, next_seq + 1)
        BY PutBooked
  <2>2. EvictToFit(m, CompactOrder(m, o), b, budget, next_seq + 1)
        BY <1>4 DEF ShardPut
  <2>3. IsFiniteSet(o)
    <3>1. IsFiniteSet({<<next_seq, k>>})
          BY FS_Singleton, Zenon
    <3> QED
        BY <3>1, FS_Union DEF DeadInv
  <2> HIDE DEF m, o, b
  <2>4. /\ Booked(m, CompactOrder(m, o), next_seq + 1)
        /\ IsFiniteSet(CompactOrder(m, o))
        /\ Cardinality(Dead(m, CompactOrder(m, o))) <= Cardinality(Keys) + CompactSlack
        BY <2>1, <2>3, CompactKeepsBooks, CompactBoundsDead
  <2>5. /\ order' \subseteq CompactOrder(m, o)
        /\ Dead(map', order') \subseteq Dead(m, CompactOrder(m, o))
        BY <2>2, <2>4, EvictMakesNoDead
  <2> QED
      BY <1>3, <2>4, <2>5
<1>5. ASSUME NEW k \in Keys, ShardRemove(k)
      PROVE  DeadInv'
  <2>1. PICK m : m = [map EXCEPT ![k] = NoEntry]
        OBVIOUS
  <2>2. map' = m /\ order' = CompactOrder(m, order)
        BY <1>5, <2>1 DEF ShardRemove
  <2>3. Booked(m, order, next_seq)
        BY <2>1 DEF Booked
  <2>4. /\ IsFiniteSet(CompactOrder(m, order))
        /\ Cardinality(Dead(m, CompactOrder(m, order))) <= Cardinality(Keys) + CompactSlack
        BY <2>3, CompactBoundsDead DEF DeadInv
  <2> QED
      BY <1>1, <2>2, <2>4
<1>6. ASSUME NEW b, ShardResize(b)
      PROVE  DeadInv'
  <2>1. order' \subseteq order /\ Dead(map', order') \subseteq Dead(map, order)
        BY <1>6, EvictMakesNoDead DEF ShardResize
  <2> QED
      BY <1>3, <2>1 DEF DeadInv
<1>7. CASE ShardClear
  <2>1. order' = {}
        BY <1>7 DEF ShardClear
  <2>2. Dead(map', order') = {}
        BY <2>1 DEF Dead
  <2>3. Cardinality(Dead(map', order')) = 0
        BY <2>2, FS_EmptySet
  <2> QED
      BY <1>1, <1>2, <2>1, <2>3, FS_EmptySet
<1>8. CASE UNCHANGED shardVars
      BY <1>1, <1>8 DEF shardVars, DeadInv
<1> QED
    BY <1>4, <1>5, <1>6, <1>7, <1>8, ShardEffects

\* Shard::compact_order keeps the slots of entries that are gone to one for
\* each key and the slack, also on a shard that expires, never evicts.
THEOREM DeadSlotsBoundedHolds ==
    ASSUME IsFiniteSet(Keys)
    PROVE  CacheSpec => []DeadSlotsBounded
<1> DEFINE Slack == CallerInv /\ Booked(map, order, next_seq) /\ DeadInv
<1>1. CacheInit => Slack
  <2> SUFFICES ASSUME CacheInit PROVE Slack
      OBVIOUS
  <2>1. CallerInv /\ Booked(map, order, next_seq)
        BY CacheAssumption DEF CacheInit, CallerInv, CarriedOK, Idle, Booked
  <2>2. order = {} /\ Dead(map, order) = {}
        BY DEF CacheInit, Dead
  <2>3. Cardinality(Dead(map, order)) = 0 /\ IsFiniteSet(order)
        BY <2>2, FS_EmptySet
  <2>4. Cardinality(Keys) \in Nat /\ CompactSlack \in Nat
        BY FS_CardinalityType, CacheShardAssumption
  <2> QED
      BY <2>1, <2>3, <2>4 DEF DeadInv
<1>2. Slack /\ [CacheNext]_cacheVars => Slack'
      BY CallerStepInv, BooksStep, DeadStep
<1>3. Slack => DeadSlotsBounded
      BY DEF DeadInv, Dead, DeadSlotsBounded
<1> QED
    BY <1>1, <1>2, <1>3, PTL DEF CacheSpec
==============================================================================
