------------------------------- MODULE Stats -------------------------------
(***************************************************************************)
(* The statistics (sift-stats: stats.rs, unit.rs, store.rs) with the tasks *)
(* that save them (main.rs: maintenance, the end of run).                  *)
(*                                                                         *)
(* Every operation reads the clock before it takes the lock, so reading    *)
(* the hour is a step of its own.  Processing times and the counts per     *)
(* upstream are left out; they are kept and merged as the names are.       *)
(***************************************************************************)
EXTENDS Integers, Sequences, FiniteSets, Functions, FiniteSetsExt, TLC

CONSTANTS
    FirstHour, LastHour,  \* the hours of a behaviour
    QueryNames,           \* names asked for, ordered; 0 is the empty one
    BlockedNames,         \* the names of them that the filter blocks
    MaxTop,               \* MAX_DOMAINS
    StatsConfigs,         \* the settings: enabled, and limit_hours as limit
    HoursPerDay, WeekDays,\* 24 and 7
    MaxQueries,           \* bound on the queries of a behaviour
    ClockWaits,           \* no hour begins between reading the clock and the lock
    SavesOverlap          \* a shutdown may begin in the middle of a round of maintenance

ASSUME StatsAssumption ==
    /\ FirstHour \in Nat /\ LastHour \in Nat
    /\ \A c \in StatsConfigs : c.enabled \in BOOLEAN /\ c.limit \in 0..FirstHour
    /\ MaxTop > 0 /\ HoursPerDay > 0

VARIABLES
    clock,       \* the hour now
    statsCfg,    \* Config: enabled, limit
    current,     \* Inner::current, at most one unit
    past,        \* Inner::past, hour -> stored unit
    unsaved,
    statsDb,     \* stats.db, hour -> stored unit
    adder,       \* the query being counted: <<>>, or the name and the hour read
    keeper,      \* the maintenance task
    visitor,     \* a request that clears or configures the statistics
    closer,      \* the shutdown
    counted,     \* ghost: hour -> queries that were counted
    promised,    \* ghost: counted when the shutdown took its snapshot
    asks         \* how many queries were made

statsVars == <<clock, statsCfg, current, past, unsaved, statsDb, adder, keeper, visitor,
               closer, counted, promised, asks>>

Hours24 == FirstHour..LastHour
RealNames == QueryNames \ {0}
NoCounts == [h \in Hours24 |-> 0]

-----------------------------------------------------------------------------
(* Units: the names are counted in a function whose domain are the names   *)
(* seen; blocked and other names are counted apart.                        *)

NewUnit(h) == [id |-> h, names |-> [n \in {} |-> 0], total |-> 0, blocked |-> 0]

CountName(f, n) == IF n \in DOMAIN f THEN [f EXCEPT ![n] = @ + 1] ELSE (n :> 1) @@ f

UnitAdd(u, n) ==
    [u EXCEPT !.names = CountName(@, n), !.total = @ + 1,
              !.blocked = @ + (IF n \in BlockedNames THEN 1 ELSE 0)]

\* to_pairs: the highest counts, and among equal ones the first names.
Top(f) ==
    {n \in DOMAIN f :
        Cardinality({m \in DOMAIN f : f[m] > f[n] \/ (f[m] = f[n] /\ m < n)}) < MaxTop}

ToDb(u) ==
    LET free == Restrict(u.names, DOMAIN u.names \ BlockedNames)
        blocked == Restrict(u.names, DOMAIN u.names \cap BlockedNames)
    IN  [names |-> Restrict(u.names, Top(free) \cup Top(blocked)),
         total |-> u.total, blocked |-> u.blocked]

\* The stored units with these among them, in the place of older ones.
Stored(units, live) ==
    [id \in DOMAIN units \cup {u.id : u \in live} |->
        IF \E u \in live : u.id = id THEN ToDb(CHOOSE u \in live : u.id = id) ELSE units[id]]

FromDb(h, db) == [id |-> h, names |-> db.names, total |-> db.total, blocked |-> db.blocked]

-----------------------------------------------------------------------------
(* Inner::roll and the operations under the lock. *)

Rolls(h) == \E u \in current : u.id # h

\* The units after roll(h): the live one first, then the finished ones.
CurrentAfter(h) == {u \in current : u.id = h}
PastAfter(h) == Stored(past, current \ CurrentAfter(h))

UnitAt(id) ==
    IF \E u \in current : u.id = id THEN {ToDb(u) : u \in current}
    ELSE {past[h] : h \in {id} \cap DOMAIN past}

Oldest(h, limit) == h - (IF limit = 0 THEN 0 ELSE limit - 1)

-----------------------------------------------------------------------------
(* The response of /control/stats at hour h.                               *)

StatsUnits(h, limit) == [i \in 1..limit |-> UnitAt(h - (limit - i))]

TotalOf(units) == FoldFunction(LAMBDA s, n : n + SumSet({u.total : u \in s}), 0, units)

\* fill_per_unit: days beyond a week, without the leading partial day.
PerUnit(units) ==
    LET days == Len(units) \div HoursPerDay
        tail == SubSeq(units, Len(units) - days * HoursPerDay + 1, Len(units))
        Day(d) == SubSeq(tail, (d - 1) * HoursPerDay + 1, d * HoursPerDay)
    IN  IF days > WeekDays THEN [d \in 1..days |-> TotalOf(Day(d))]
        ELSE [i \in 1..Len(units) |-> TotalOf(<<units[i]>>)]

\* merge_top over the unblocked or the blocked names.
MergeTop(units, names) ==
    LET sum == [n \in {m \in names : \E i \in DOMAIN units : \E u \in units[i] : m \in DOMAIN u.names} |->
                    FoldFunction(LAMBDA s, c :
                        c + SumSet({u.names[n] : u \in {v \in s : n \in DOMAIN v.names}}), 0, units)]
    IN  Restrict(sum, Top(sum))

StatsData(h, limit) ==
    LET units == StatsUnits(h, limit)
    IN  [dns_queries |-> PerUnit(units), num_dns_queries |-> TotalOf(units),
         top_queried |-> MergeTop(units, RealNames \ BlockedNames),
         top_blocked |-> MergeTop(units, BlockedNames)]

-----------------------------------------------------------------------------
StatsInit ==
    /\ clock = FirstHour
    /\ statsCfg \in StatsConfigs
    /\ current = {} /\ past = <<>> /\ statsDb = <<>>
    /\ unsaved = FALSE
    /\ adder = <<>> /\ keeper = [at |-> "tick"] /\ visitor = <<>>
    /\ closer = [at |-> "up"]
    /\ counted = NoCounts /\ promised = NoCounts
    /\ asks = 0

\* Whether some operation has read the hour and not used it yet.
HourInHand == adder # <<>> \/ keeper.at \in {"prune", "snap"} \/ closer.at = "snap" \/ visitor # <<>>

HourTurns ==
    /\ clock < LastHour
    /\ ClockWaits => ~HourInHand
    /\ clock' = clock + 1
    /\ UNCHANGED <<statsCfg, current, past, unsaved, statsDb, adder, keeper, visitor, closer,
                   counted, promised, asks>>

\* add: current_hour(), then add_at.
AddReadsHour(n) ==
    /\ closer.at \in {"up", "snap", "write"}
    /\ adder = <<>> /\ asks < MaxQueries
    /\ asks' = asks + 1
    /\ adder' = <<n, clock>>
    /\ UNCHANGED <<clock, statsCfg, current, past, unsaved, statsDb, keeper, visitor, closer,
                   counted, promised>>

AddAt ==
    /\ adder # <<>>
    /\ adder' = <<>>
    /\ LET n == adder[1]
           h == adder[2]
           live == IF CurrentAfter(h) = {} THEN {NewUnit(h)} ELSE CurrentAfter(h)
       IN  IF statsCfg.enabled /\ n # 0
           THEN /\ current' = {UnitAdd(u, n) : u \in live}
                /\ past' = PastAfter(h)
                /\ unsaved' = (unsaved \/ Rolls(h))
                /\ counted' = [counted EXCEPT ![h] = @ + 1]
           ELSE UNCHANGED <<current, past, unsaved, counted>>
    /\ UNCHANGED <<clock, statsCfg, statsDb, keeper, visitor, closer, promised, asks>>

\* prune at the hour h that was read, with the limit that was read.
Prune(h, limit) ==
    LET rolled == PastAfter(h)
        kept == {id \in DOMAIN rolled : id >= Oldest(h, limit)}
    IN  /\ current' = CurrentAfter(h)
        /\ past' = Restrict(rolled, kept)
        /\ unsaved' = (unsaved \/ Rolls(h) \/ kept # DOMAIN rolled)
        /\ counted' = [id \in Hours24 |-> IF id >= Oldest(h, limit) THEN counted[id] ELSE NoCounts[id]]

-----------------------------------------------------------------------------
(* One round of maintenance: prune, claim the write, snapshot, save.       *)

KeeperTicks ==
    /\ keeper.at = "tick" /\ closer.at = "up"
    /\ keeper' = [at |-> "prune", hour |-> clock, limit |-> statsCfg.limit]
    /\ UNCHANGED <<clock, statsCfg, current, past, unsaved, statsDb, adder, visitor, closer,
                   counted, promised, asks>>

KeeperPrunes ==
    /\ keeper.at = "prune"
    /\ Prune(keeper.hour, keeper.limit)
    /\ keeper' = [at |-> "claim"]
    /\ UNCHANGED <<clock, statsCfg, statsDb, adder, visitor, closer, promised, asks>>

\* claim_save, and the hour that snapshot reads.
KeeperClaims ==
    /\ keeper.at = "claim"
    /\ unsaved' = FALSE
    /\ keeper' = IF unsaved THEN [at |-> "snap", hour |-> clock] ELSE [at |-> "tick"]
    /\ UNCHANGED <<clock, statsCfg, current, past, statsDb, adder, visitor, closer,
                   counted, promised, asks>>

\* snapshot: roll, then every unit in its stored form.
Snapshot(h) == Stored(PastAfter(h), CurrentAfter(h))

TakesSnapshot(h) ==
    /\ current' = CurrentAfter(h)
    /\ past' = PastAfter(h)
    /\ unsaved' = (unsaved \/ Rolls(h))

KeeperSnapshots ==
    /\ keeper.at = "snap"
    /\ TakesSnapshot(keeper.hour)
    /\ keeper' = [at |-> "write", units |-> Snapshot(keeper.hour)]
    /\ UNCHANGED <<clock, statsCfg, statsDb, adder, visitor, closer, counted, promised, asks>>

\* Mutant of KeeperSaves: the flag is cleared once the file is written.
KeeperSavesClearing ==
    /\ keeper.at = "write"
    /\ statsDb' = keeper.units
    /\ unsaved' = FALSE
    /\ keeper' = [at |-> "tick"]
    /\ UNCHANGED <<clock, statsCfg, current, past, adder, visitor, closer, counted,
                   promised, asks>>

\* store::save: the file is replaced as a whole.
KeeperSaves ==
    /\ keeper.at = "write"
    /\ statsDb' = keeper.units
    /\ keeper' = [at |-> "tick"]
    /\ UNCHANGED <<clock, statsCfg, current, past, unsaved, adder, visitor, closer, counted,
                   promised, asks>>

-----------------------------------------------------------------------------
(* /control/stats_reset and the statistics settings.                       *)

Clears ==
    /\ closer.at = "up" /\ visitor = <<>>
    /\ current' = {} /\ past' = <<>>
    /\ counted' = NoCounts
    /\ visitor' = <<"flag">>
    /\ UNCHANGED <<clock, statsCfg, unsaved, statsDb, adder, keeper, closer, promised, asks>>

ClearFlags ==
    /\ visitor = <<"flag">>
    /\ unsaved' = TRUE
    /\ visitor' = <<>>
    /\ UNCHANGED <<clock, statsCfg, current, past, statsDb, adder, keeper, closer, counted,
                   promised, asks>>

SetStatsConfig ==
    /\ closer.at = "up" /\ visitor = <<>>
    /\ \E c \in StatsConfigs \ {statsCfg} :
        /\ statsCfg' = c
        /\ visitor' = <<"prune", clock, c.limit>>
    /\ UNCHANGED <<clock, current, past, unsaved, statsDb, adder, keeper, closer, counted,
                   promised, asks>>

ConfigPrunes ==
    /\ visitor # <<>> /\ visitor[1] = "prune"
    /\ Prune(visitor[2], visitor[3])
    /\ visitor' = <<>>
    /\ UNCHANGED <<clock, statsCfg, statsDb, adder, keeper, closer, promised, asks>>

-----------------------------------------------------------------------------
(* Shutdown, a kill, and the next start.                                   *)

ShutdownBegins ==
    /\ closer.at = "up"
    /\ SavesOverlap \/ keeper.at = "tick"
    /\ closer' = [at |-> "snap", hour |-> clock]
    /\ UNCHANGED <<clock, statsCfg, current, past, unsaved, statsDb, adder, keeper, visitor,
                   counted, promised, asks>>

ShutdownSnapshots ==
    /\ closer.at = "snap"
    /\ TakesSnapshot(closer.hour)
    /\ promised' = counted
    /\ closer' = [at |-> "write", units |-> Snapshot(closer.hour)]
    /\ UNCHANGED <<clock, statsCfg, statsDb, adder, keeper, visitor, counted, asks>>

ShutdownSaves ==
    /\ closer.at = "write"
    /\ statsDb' = closer.units
    /\ closer' = [at |-> "saved"]
    /\ UNCHANGED <<clock, statsCfg, current, past, unsaved, adder, keeper, visitor, counted,
                   promised, asks>>

\* The memory of the process is gone; what it had in hand is too.
Stopped ==
    /\ current' = {} /\ past' = <<>> /\ unsaved' = FALSE
    /\ adder' = <<>> /\ visitor' = <<>>
    /\ keeper' = [at |-> "tick"] /\ closer' = [at |-> "down"]
    /\ UNCHANGED <<clock, statsCfg, statsDb, promised, asks>>

StatsExit ==
    /\ closer.at = "saved"
    /\ Stopped
    /\ counted' = promised

\* An unclean kill loses the hour in progress, and what was not saved yet.
Killed ==
    /\ closer.at # "down"
    /\ Stopped
    /\ counted' = [h \in Hours24 |-> IF h \in DOMAIN statsDb THEN statsDb[h].total ELSE 0]

\* Mutant of StatsLoad: the unit of the hour in progress is taken for a finished one.
StatsLoadAllPast ==
    /\ closer.at = "down"
    /\ past' = statsDb
    /\ closer' = [at |-> "up"]
    /\ UNCHANGED <<clock, statsCfg, current, unsaved, statsDb, adder, keeper, visitor, counted,
                   promised, asks>>

\* load, with its prune: the unit of the hour in progress becomes the live one.
StatsLoad ==
    LET stored == statsDb
        kept == {id \in DOMAIN stored \ {clock} : id >= Oldest(clock, statsCfg.limit)}
    IN  /\ closer.at = "down"
        /\ current' = {FromDb(h, stored[h]) : h \in {clock} \cap DOMAIN stored}
        /\ past' = Restrict(stored, kept)
        /\ unsaved' = (kept # DOMAIN stored \ {clock})
        /\ counted' = [id \in Hours24 |->
                IF id >= Oldest(clock, statsCfg.limit) THEN counted[id] ELSE NoCounts[id]]
        /\ closer' = [at |-> "up"]
        /\ UNCHANGED <<clock, statsCfg, statsDb, adder, keeper, visitor, promised, asks>>

StatsNext ==
    \/ HourTurns \/ AddAt
    \/ \E n \in QueryNames : AddReadsHour(n)
    \/ KeeperTicks \/ KeeperPrunes \/ KeeperClaims \/ KeeperSnapshots \/ KeeperSaves
    \/ Clears \/ ClearFlags \/ SetStatsConfig \/ ConfigPrunes
    \/ ShutdownBegins \/ ShutdownSnapshots \/ ShutdownSaves \/ StatsExit \/ Killed \/ StatsLoad

StatsSpec == StatsInit /\ [][StatsNext]_statsVars

-----------------------------------------------------------------------------
\* Every query that was counted and is still within the window is in the
\* report of /control/stats, across the turns of the hour, saves, resets,
\* shutdowns and restarts, and the top lists never count more queries than
\* were made (stats.rs: roll, load, snapshot, data).
CountsAreKept ==
    (closer.at = "up" /\ statsCfg.limit > 0) =>
        LET limit == statsCfg.limit
            units == StatsUnits(clock, limit)
            data == StatsData(clock, limit)
            In(lo, hi) == SumFunctionOnSet(counted, (lo..hi) \cap Hours24)
            n == Len(data.dns_queries)
            size == IF n = limit THEN 1 ELSE HoursPerDay
            blocked == SumFunction([i \in DOMAIN units |-> SumSet({u.blocked : u \in units[i]})])
        IN  /\ data.num_dns_queries = In(clock - limit + 1, clock)
            /\ SumFunction(data.top_blocked) <= blocked
            /\ SumFunction(data.top_queried) <= data.num_dns_queries - blocked
            /\ \A i \in 1..n : data.dns_queries[i] =
                    In(clock - (n - i + 1) * size + 1, clock - (n - i) * size)

\* Between two saves the file holds every finished hour as it is held in
\* memory, and no other: an hour that changed after the claim is claimed again
\* (stats.rs: claim_save; main.rs: maintenance).
FileFollowsFinishedHours ==
    (closer.at = "up" /\ ~unsaved /\ visitor = <<>> /\ keeper.at \notin {"snap", "write"}) =>
        LET live == {u.id : u \in current}
        IN  /\ DOMAIN past \subseteq DOMAIN statsDb
            /\ \A h \in DOMAIN past : statsDb[h] = past[h]
            /\ DOMAIN statsDb \ DOMAIN past \subseteq live

=============================================================================
