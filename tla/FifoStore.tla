------------------------------ MODULE FifoStore ------------------------------
(***************************************************************************)
(* What one cache shard promises: a store whose entries weigh no more than *)
(* its capacity together, and that makes room by giving up the entries     *)
(* stored longest ago -- no more of them than it must.  It has no queue,   *)
(* no dead slots and no byte counter: the weight is that of what it holds. *)
(***************************************************************************)
EXTENDS Integers, FiniteSetsExt

CONSTANTS Keys, Weights, Payloads, Capacities, NoEntry

VARIABLES store,      \* store[k]: the entry under k, or NoEntry
          clock,      \* the stamp of the next entry
          capacity

fifoVars == <<store, clock, capacity>>

Held(s) == {k \in Keys : s[k] # NoEntry}

WeightOf(s) == Cardinality(UNION {{k} \X (1 .. s[k].weight) : k \in Held(s)})

\* s without the entries stamped before c.
From(s, c) ==
    [k \in Keys |-> IF k \in Held(s) /\ s[k].seq >= c THEN s[k] ELSE NoEntry]

\* The newest entries of s that fit in cap.
Fitted(s, cap) ==
    LET stamps == {s[k].seq : k \in Held(s)}
        past == IF stamps = {} THEN 0 ELSE Max(stamps) + 1
        cut == Min({c \in stamps \cup {past} : WeightOf(From(s, c)) <= cap})
    IN  From(s, cut)

FifoInit ==
    /\ store = [k \in Keys |-> NoEntry]
    /\ clock = 0
    /\ capacity \in Capacities

\* The entry that is stored is kept, and as many of the others as fit beside it.
Store(k, w, p) ==
    /\ clock' = clock + 1
    /\ UNCHANGED capacity
    /\ w <= capacity
    /\ LET e == [seq |-> clock, weight |-> w, payload |-> p]
       IN  /\ store'[k] = e
           /\ store' = Fitted([store EXCEPT ![k] = e], capacity)

Forget(k) ==
    /\ store[k] # NoEntry
    /\ store' = [store EXCEPT ![k] = NoEntry]
    /\ UNCHANGED <<clock, capacity>>

Resize(cap) ==
    /\ capacity' = cap
    /\ UNCHANGED clock
    /\ store' = Fitted(store, cap)

Empty ==
    /\ store' = [k \in Keys |-> NoEntry]
    /\ UNCHANGED <<clock, capacity>>

FifoNext ==
    \/ \E k \in Keys, w \in Weights, p \in Payloads : Store(k, w, p)
    \/ \E k \in Keys : Forget(k)
    \/ \E cap \in Capacities : Resize(cap)
    \/ Empty

FifoSpec == FifoInit /\ [][FifoNext]_fifoVars
=============================================================================
