----------------------------- MODULE CacheShard -----------------------------
(***************************************************************************)
(* One shard of the response cache: struct Shard of sift-dns/src/cache.rs. *)
(* Every action runs under the shard's lock.                               *)
(*                                                                         *)
(* Shard.order, a queue of (seq, key) slots, is kept as the set of its     *)
(* slots.  A slot is only ever pushed at the back and carries the next     *)
(* sequence number, so the queue is in order of seq: its front is its      *)
(* least seq, and popping until a condition holds removes the slots below  *)
(* some seq.                                                               *)
(***************************************************************************)
EXTENDS Integers, FiniteSetsExt

CONSTANTS
    Keys,        \* cache keys that hash to this shard
    Weights,     \* estimate_weight(msg) + Key::weight
    Payloads,    \* what else an entry holds
    Budgets,     \* per-shard budgets a configuration may ask for
    CompactSlack,\* COMPACT_SLACK
    MaxSeq,      \* bound on the number of stores explored
    NoEntry

ASSUME CacheShardAssumption ==
    /\ Weights \subseteq Nat \ {0, 1}
    /\ Budgets \subseteq Nat \ {0}
    /\ CompactSlack \in Nat
    /\ MaxSeq \in Nat
    /\ NoEntry \notin [seq : Nat, weight : Weights, payload : Payloads]

VARIABLES
    map,         \* Shard.map
    order,       \* Shard.order, as the set of its slots
    bytes,       \* Shard.bytes
    budget,      \* Shard.budget
    next_seq     \* Shard.next_seq

shardVars == <<map, order, bytes, budget, next_seq>>

Entries == [seq : Nat, weight : Weights, payload : Payloads]

Slots == Nat \X Keys

ShardTypeOK ==
    /\ map \in [Keys -> Entries \cup {NoEntry}]
    /\ order \subseteq Slots
    /\ bytes \in Nat
    /\ budget \in Nat \ {0}
    /\ next_seq \in Nat

ShardInit ==
    /\ map = [k \in Keys |-> NoEntry]
    /\ order = {}
    /\ bytes = 0
    /\ budget \in Budgets
    /\ next_seq = 0

(***************************************************************************)
(* Helpers of struct Shard.                                                *)
(***************************************************************************)
Monus(a, b) == IF a >= b THEN a - b ELSE 0

Present(m) == {k \in Keys : m[k] # NoEntry}

\* The slot names the entry it was pushed for, not one stored since.
LiveSlot(m, s) == m[s[2]] # NoEntry /\ m[s[2]].seq = s[1]

\* Mutant of CompactOrder: the queue is emptied, live slots and all.
CompactAway(m, o) ==
    IF Cardinality(o) <= 2 * Cardinality(Present(m)) + CompactSlack THEN o ELSE {}

\* Shard::compact_order, over a map and its queue.
CompactOrder(m, o) ==
    IF Cardinality(o) <= 2 * Cardinality(Present(m)) + CompactSlack
      THEN o
      ELSE {s \in o : LiveSlot(m, s)}

\* What the entries under ks weigh together: their bytes, counted one by one.
Weigh(m, ks) == Cardinality(UNION {{k} \X (1 .. m[k].weight) : k \in ks})

\* What the live slots below c weigh.
WeightBelow(m, o, c) ==
    Weigh(m, {s[2] : s \in {s \in o : s[1] < c /\ LiveSlot(m, s)}})

\* Mutant of EvictionCut: stops only below the budget, not at it.
EvictionCutStrict(m, o, b, bud, end) ==
    LET stops == {s[1] : s \in o} \cup {end}
    IN  Min({c \in stops : Monus(b, WeightBelow(m, o, c)) < bud} \cup {end})

\* Where the loop of Shard::evict_to_fit stops popping: the first slot found
\* at the front with the bytes within the budget, or past the last slot.
EvictionCut(m, o, b, bud, end) ==
    LET stops == {s[1] : s \in o} \cup {end}
    IN  Min({c \in stops : Monus(b, WeightBelow(m, o, c)) <= bud} \cup {end})

\* The effect of Shard::evict_to_fit on map m, queue o and byte count b.
EvictToFit(m, o, b, bud, end) ==
    LET c == EvictionCut(m, o, b, bud, end)
        popped == {s \in o : s[1] < c}
    IN  /\ map' = [k \in Keys |->
                     IF m[k] # NoEntry /\ <<m[k].seq, k>> \in popped
                       THEN NoEntry ELSE m[k]]
        /\ order' = o \ popped
        /\ bytes' = Monus(b, WeightBelow(m, o, c))

(***************************************************************************)
(* The critical sections of Cache's operations.                            *)
(***************************************************************************)
\* Cache::put from the lock on, for an entry that is not oversized.
ShardPut(k, w, p) ==
    /\ w <= budget
    /\ next_seq < MaxSeq
    /\ next_seq' = next_seq + 1
    /\ LET e == [seq |-> next_seq, weight |-> w, payload |-> p]
           m == [map EXCEPT ![k] = e]
           freed == IF map[k] = NoEntry THEN 0 ELSE map[k].weight
           o == CompactOrder(m, order \cup {<<next_seq, k>>})
       IN  EvictToFit(m, o, Monus(bytes, freed) + w, budget, next_seq + 1)
    /\ UNCHANGED budget

\* Cache::get on an entry that may no longer be served.
ShardRemove(k) ==
    /\ map[k] # NoEntry
    /\ map' = [map EXCEPT ![k] = NoEntry]
    /\ bytes' = Monus(bytes, map[k].weight)
    /\ order' = CompactOrder(map', order)
    /\ UNCHANGED <<budget, next_seq>>

\* Cache::set_config on one shard.
ShardResize(b) ==
    /\ budget' = b
    /\ EvictToFit(map, order, bytes, b, next_seq)
    /\ UNCHANGED next_seq

\* Cache::clear on one shard.
ShardClear ==
    /\ map' = [k \in Keys |-> NoEntry]
    /\ order' = {}
    /\ bytes' = 0
    /\ UNCHANGED <<budget, next_seq>>

ShardNext ==
    \/ \E k \in Keys, w \in Weights, p \in Payloads : ShardPut(k, w, p)
    \/ \E k \in Keys : ShardRemove(k)
    \/ \E b \in Budgets : ShardResize(b)
    \/ ShardClear

ShardSpec == ShardInit /\ [][ShardNext]_shardVars

(***************************************************************************)
(* Properties.                                                             *)
(***************************************************************************)
\* The byte count never drifts from what the map holds, and the shard is
\* within its budget after every operation: a put that replaces an entry, an
\* expiry and an eviction each adjust the count on their own, saturating.
BytesAreExact ==
    /\ bytes = Weigh(map, Present(map))
    /\ bytes <= budget

\* Every live entry owns a slot, so that evict_to_fit can always reach it,
\* whatever mix of expiries, re-stores and compactions came before.
EveryEntryHasASlot ==
    \A k \in Keys : map[k] # NoEntry => <<map[k].seq, k>> \in order

\* A sequence number is handed out once: no slot of an older incarnation can
\* be taken for the live entry's.
SlotsAreDistinct ==
    /\ \A s, u \in order : s[1] = u[1] => s = u
    /\ \A s \in order : s[1] < next_seq

\* "Was an unbounded leak" (cache.rs:228): dead slots stay within the slack,
\* also on a shard that never fills and so never evicts.
DeadSlotsBounded ==
    Cardinality({s \in order : ~LiveSlot(map, s)})
        <= Cardinality(Keys) + CompactSlack

\* The shard behaves as a store that gives up what was stored longest ago:
\* dead slots, lazy compaction and the byte counter are invisible outside.
Fifo == INSTANCE FifoStore
          WITH store <- map, clock <- next_seq, capacity <- budget,
               Capacities <- Budgets

ImplementsFifoStore == Fifo!FifoSpec
=============================================================================
