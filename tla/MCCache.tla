------------------------------- MODULE MCCache -------------------------------
(* Callers race lookups, stores and refreshes against a reload that turns   *)
(* the cache off, shrinks it or changes how stale entries are treated.      *)
EXTENDS Cache

CONSTANTS k1, k2, c1, c2, c3

MCKeys == {k1, k2}
OneKey == {k1}
MCCallers == {c1, c2}
ThreeCallers == {c1, c2, c3}
OneConfigurer == {c1}
NoConfigurer == {}

Setting(size, optimistic, max_age) ==
    [size |-> size, ttl_min |-> 0, ttl_max |-> 3, optimistic |-> optimistic,
     max_age |-> max_age]

MCConfigs == {Setting(0, FALSE, 2), Setting(8, TRUE, 1)}
OptimisticOnly == {Setting(8, TRUE, 2)}
Resizes == {Setting(0, FALSE, 2), Setting(8, FALSE, 2)}

MCMessages ==
    {[ok |-> TRUE, ttl |-> 1, weight |-> 2], [ok |-> TRUE, ttl |-> 9, weight |-> 3],
     [ok |-> FALSE, ttl |-> 1, weight |-> 2]}
OneSecond == {[ok |-> TRUE, ttl |-> 1, weight |-> 2]}
Lasting == {[ok |-> TRUE, ttl |-> 9, weight |-> 2]}

MCPayloads == [stored : 0..MaxTime, ttl : 1..3]
=============================================================================
