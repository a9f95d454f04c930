------------------------------ MODULE MCDaemon ------------------------------
(* The parts of the daemon that keep to themselves: the handlers' locks,    *)
(* the statistics, the sessions, the program's own update and the           *)
(* certificate.                                                             *)
(* They share no state, so a behaviour follows one of them, chosen at the   *)
(* start, through all of its interleavings, and the others stay where they  *)
(* began.                                                                   *)
EXTENDS StateLocks, Stats, Sessions, SelfUpdate, Certificates

CONSTANTS
    Followed,       \* the parts a behaviour may follow
    h1, h2, h3,     \* handlers
    w1, w2, t1, t2, \* threads of the interface, and session tokens
    u1, u2          \* updates

VARIABLE focus

AllParts == {"locks", "stats", "sessions", "update", "certificate"}

ThreeHandlers == {h1, h2, h3}

SomeConfigs == {[enabled |-> TRUE, limit |-> 1], [enabled |-> TRUE, limit |-> 3],
                [enabled |-> FALSE, limit |-> 0]}

Threads == {w1, w2}
TwoTokens == {t1, t2}
\* One session, with all the guesses; and two, with the last guess.
SomeBudgets == {<<{t1}, 0>>, <<{t1, t2}, 4>>}

OneUpdate == {u1}
TwoUpdates == {u1, u2}

\* Both from files, both from the settings, and one of each.
SomeTlsRequests ==
    [enabled : BOOLEAN, src : {[cert |-> <<>>, key |-> <<>>],
                               [cert |-> <<3>>, key |-> <<3>>],
                               [cert |-> <<2>>, key |-> <<>>]}]

Parted == <<focus, lockVars, statsVars, sessionVars, updateVars, certVars>>

DaemonInit ==
    /\ focus \in Followed
    /\ LocksInit
    /\ StatsInit
    /\ focus # "stats" => statsCfg = CHOOSE c \in StatsConfigs : TRUE
    /\ SessionsInit
    /\ focus # "sessions" => <<unused, guesses>> = CHOOSE b \in Budgets : TRUE
    /\ UpdateInit
    /\ focus # "update" => ~crossFs
    /\ CertInit
    /\ focus # "certificate" => tlsConfig = CHOOSE c \in TlsRequests : ~c.enabled

DaemonNext ==
    \/ focus = "locks" /\ LocksNext
       /\ UNCHANGED <<focus, statsVars, sessionVars, updateVars, certVars>>
    \/ focus = "stats" /\ StatsNext
       /\ UNCHANGED <<focus, lockVars, sessionVars, updateVars, certVars>>
    \/ focus = "sessions" /\ SessionsNext
       /\ UNCHANGED <<focus, lockVars, statsVars, updateVars, certVars>>
    \/ focus = "update" /\ UpdateNext
       /\ UNCHANGED <<focus, lockVars, statsVars, sessionVars, certVars>>
    \/ focus = "certificate" /\ CertNext
       /\ UNCHANGED <<focus, lockVars, statsVars, sessionVars, updateVars>>

DaemonSpec == DaemonInit /\ [][DaemonNext]_Parted

\* Requests of one kind are interchangeable.
Alike == Permutations(Handlers) \cup Permutations(Requests)
=============================================================================
