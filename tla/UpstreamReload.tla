--------------------------- MODULE UpstreamReload ---------------------------
(***************************************************************************)
(* Rebuilding the upstream pools after a settings save:                    *)
(* LiveReloader::reload_upstreams of sift/src/wiring.rs.                   *)
(*                                                                         *)
(* A reload compares fingerprints, takes a number and spawns a task that   *)
(* connects the new upstreams, for as long as that takes, and installs     *)
(* three pools unless a newer reload has taken a number since.  A reload   *)
(* is never used twice.                                                    *)
(***************************************************************************)
EXTENDS Naturals, FiniteSets

CONSTANTS
    Reloads,       \* calls of reload_upstreams
    Upstreams,     \* upstream settings, as fingerprints
    Initial        \* the settings the server started with

ASSUME UpstreamReloadAssumption == Initial \in Upstreams

VARIABLES
    upstream_fingerprint, upstream_generation,
    pool,           \* Resolver.pool, by the settings it was built from
    client_pools,   \* Resolver.client_pools
    private_pool,   \* Resolver.private_pool
    pc,             \* where each reload is
    cfg,            \* the settings it was called with
    mine            \* its number

reloadVars == <<upstream_fingerprint, upstream_generation, pool, client_pools,
                private_pool, pc, cfg, mine>>

ReloadTypeOK ==
    /\ upstream_fingerprint \in Upstreams
    /\ upstream_generation \in 0..Cardinality(Reloads)
    /\ pool \in Upstreams /\ client_pools \in Upstreams /\ private_pool \in Upstreams
    /\ pc \in [Reloads -> {"idle", "number", "build", "check", "pool", "clients",
                           "private", "installed", "discarded", "same"}]
    /\ cfg \in [Reloads -> Upstreams]
    /\ mine \in [Reloads -> 0..Cardinality(Reloads)]

ReloadInit ==
    /\ upstream_fingerprint = Initial
    /\ upstream_generation = 0
    /\ pool = Initial /\ client_pools = Initial /\ private_pool = Initial
    /\ pc = [r \in Reloads |-> "idle"]
    /\ cfg = [r \in Reloads |-> Initial]
    /\ mine = [r \in Reloads |-> 0]

Goto(r, p) == pc' = [pc EXCEPT ![r] = p]

\* Under the fingerprint's lock: nothing to do, or claim the rebuild.
Compare(r, u) ==
    /\ pc[r] = "idle"
    /\ cfg' = [cfg EXCEPT ![r] = u]
    /\ upstream_fingerprint' = u
    /\ Goto(r, IF upstream_fingerprint = u THEN "same" ELSE "number")
    /\ UNCHANGED <<upstream_generation, pool, client_pools, private_pool, mine>>

\* Mutant of Number: fetch_add's old value, without the one added.
NumberBefore(r) ==
    /\ pc[r] = "number"
    /\ upstream_generation' = upstream_generation + 1
    /\ mine' = [mine EXCEPT ![r] = upstream_generation]
    /\ Goto(r, "build")
    /\ UNCHANGED <<upstream_fingerprint, pool, client_pools, private_pool, cfg>>

\* generation.fetch_add, after that lock was dropped.
Number(r) ==
    /\ pc[r] = "number"
    /\ upstream_generation' = upstream_generation + 1
    /\ mine' = [mine EXCEPT ![r] = upstream_generation + 1]
    /\ Goto(r, "build")
    /\ UNCHANGED <<upstream_fingerprint, pool, client_pools, private_pool, cfg>>

\* The last upstream is connected, or has been given up on.
Built(r) ==
    /\ pc[r] = "build"
    /\ Goto(r, "check")
    /\ UNCHANGED <<upstream_fingerprint, upstream_generation, pool,
                   client_pools, private_pool, cfg, mine>>

CheckGeneration(r) ==
    /\ pc[r] = "check"
    /\ Goto(r, IF upstream_generation = mine[r] THEN "pool" ELSE "discarded")
    /\ UNCHANGED <<upstream_fingerprint, upstream_generation, pool,
                   client_pools, private_pool, cfg, mine>>

StorePool(r) ==
    /\ pc[r] = "pool"
    /\ pool' = cfg[r]
    /\ Goto(r, "clients")
    /\ UNCHANGED <<upstream_fingerprint, upstream_generation, client_pools,
                   private_pool, cfg, mine>>

SetClientPools(r) ==
    /\ pc[r] = "clients"
    /\ client_pools' = cfg[r]
    /\ Goto(r, "private")
    /\ UNCHANGED <<upstream_fingerprint, upstream_generation, pool,
                   private_pool, cfg, mine>>

SetPrivatePool(r) ==
    /\ pc[r] = "private"
    /\ private_pool' = cfg[r]
    /\ Goto(r, "installed")
    /\ UNCHANGED <<upstream_fingerprint, upstream_generation, pool,
                   client_pools, cfg, mine>>

RebuildStep(r) ==
    \/ Number(r)
    \/ Built(r)
    \/ CheckGeneration(r)
    \/ StorePool(r)
    \/ SetClientPools(r)
    \/ SetPrivatePool(r)

ReloadNext ==
    \E r \in Reloads : RebuildStep(r) \/ \E u \in Upstreams : Compare(r, u)

\* Connecting has a timeout, and a spawned task is polled until it is done.
ReloadFairness == \A r \in Reloads : WF_reloadVars(RebuildStep(r))

ReloadSpec == ReloadInit /\ [][ReloadNext]_reloadVars /\ ReloadFairness

(***************************************************************************)
(* Properties.                                                             *)
(***************************************************************************)
Settled == \A r \in Reloads : pc[r] \in {"idle", "installed", "discarded", "same"}

\* Rebuilds never all discard themselves: one that gave way gave way to a
\* later one, and when all is settled the last of them was installed.
LastRebuildInstalls ==
    /\ \A r \in Reloads : pc[r] = "discarded" => mine[r] < upstream_generation
    /\ Settled /\ upstream_generation > 0 =>
         \E r \in Reloads : mine[r] = upstream_generation /\ pc[r] = "installed"

\* The pools catch up: unless settings go on changing, every rebuild comes to
\* its end.
RebuildsEnd ==
    \A r \in Reloads : pc[r] = "number" ~> pc[r] \in {"installed", "discarded"}

\* "Two saves in quick succession start two rebuilds, and the slower one must
\* not win" (wiring.rs:443-444): when all is settled the pools are those of
\* the settings that were compared last.
NewestWins ==
    Settled => /\ pool = upstream_fingerprint
               /\ client_pools = upstream_fingerprint
               /\ private_pool = upstream_fingerprint
=============================================================================
