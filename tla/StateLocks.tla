----------------------------- MODULE StateLocks -----------------------------
(***************************************************************************)
(* The two reader-writer locks of AppState, `config' and `filters', as the *)
(* API handlers and the maintenance task take them.                        *)
(*                                                                         *)
(* A handler is a sequence of sections.  In a section it takes locks one   *)
(* after the other and drops them all at its end; between sections it      *)
(* holds none.  The locks are parking_lot's: a reader is not let in while  *)
(* a writer waits, so that writers are not starved.                        *)
(***************************************************************************)
EXTENDS Naturals, Sequences, FiniteSets

CONSTANTS
    Handlers,    \* requests and tasks running at once
    Kinds        \* what they may be running

Locks == {"config", "filters"}

R(l) == [lock |-> l, mode |-> "read"]
W(l) == [lock |-> l, mode |-> "write"]

\* save_config copies the configuration under its lock.
SaveConfig == <<<<R("config")>>>>

\* Mutant of SaveFilters: takes the configuration before the lists.
SaveFiltersConfigFirst ==
    <<<<W("config"), R("filters")>>>> \o SaveConfig \o <<<<R("filters")>>>>

\* save_filters copies the lists into the configuration, saves it, and
\* rebuilds the engine holding the lists.
SaveFilters ==
    <<<<R("filters"), W("config")>>>> \o SaveConfig \o <<<<R("filters")>>>>

\* What most handlers do: change the configuration and save it.
Read == <<<<R("config")>>>>
Change == <<<<W("config")>>>> \o SaveConfig
ChangeRules == <<<<W("filters")>>>> \o SaveFilters

\* Saved clients, and who may ask (misc.rs).
ClientsShow == Read
ClientsAdd == Change
ClientsDelete == Change
ClientsUpdate == Change
ClientFind == Read
AccessList == Read
AccessSet == Read \o Change

\* Blocked services.  The update takes the lists' lock inside the
\* configuration's, the setter one after the other.
ServicesShow == Read
ServicesSet == <<<<W("config")>>, <<W("filters")>>>> \o SaveConfig \o <<<<R("filters")>>>>
ServicesUpdate == <<<<W("config"), W("filters")>>>> \o SaveConfig \o <<<<R("filters")>>>>

\* Encryption, the interface's own settings, and the wizard.
EncryptionShow == Read \o Read
EncryptionSet == Change \o Read
ChangeLanguage == Change
Profile == <<<<R("config"), R("config")>>>>
ProfileUpdate == Change
LogIn == Read \o Read
InstallConfigure == Read \o Change
Mobileconfig == Read
RedirectToHttps == Read
RequireAuth == Read \o Read
ServeUi == Read \o Read
ServeDoh == Read \o Read

\* Filtering (filtering.rs).  A download happens between the two sections of
\* add_url and of set_url, and in refresh once for each list.
FilteringStatus == <<<<R("filters"), R("config")>>>>
FilteringConfig == Change
AddList == <<<<W("filters")>>>> \o ChangeRules
RemoveList == ChangeRules
SetList == <<<<W("filters")>>>> \o ChangeRules
RefreshLists == <<<<R("filters")>>, <<R("filters")>>>> \o ChangeRules
SetRules == ChangeRules
RewriteList == Read
RewriteAdd == Change
RewriteDelete == Change
RewriteUpdate == Change
RewriteSettings == Change
SafeSearchStatus == Read
SafeSearchSettings == Change
SafeSearchSet == Change

\* The query log and the statistics (logs.rs): the running ones are told
\* before the configuration is saved.
LogShow == Read
LogConfig == <<<<W("config")>>>> \o Read \o SaveConfig
LogConfigLegacy == <<<<W("config")>>>> \o Read \o SaveConfig
StatsShow == Read
StatsConfig == <<<<W("config")>>>> \o Read \o SaveConfig
StatsConfigLegacy == <<<<W("config")>>>> \o Read \o SaveConfig

\* The server's settings (status.rs).  status asks for the pause's end, which
\* reads the configuration again, inside its own reading of it.
ServerStatus == <<<<R("config"), R("config")>>>>
DnsInfo == Read
SetDnsConfig == Change
SetProtection == Change
CheckVersion == Read
InstallUpdate == Read
TestUpstream == Read

\* The tasks of the daemon (state.rs, main.rs).
ExpirePause == Read \o Read \o Change
RotateLog == Read
RefreshDue == Read \o <<<<R("filters")>>, <<R("filters")>>>> \o ChangeRules

\* The handlers that take the locks in the order the others do, and those
\* that do not: in the opposite order, or one of them twice.
Ordered ==
    {ClientsShow, ClientsAdd, ClientsDelete, ClientsUpdate, ClientFind, AccessList, AccessSet,
     ServicesShow, ServicesSet, EncryptionShow, EncryptionSet, ChangeLanguage, ProfileUpdate, LogIn,
     InstallConfigure, Mobileconfig, RedirectToHttps, RequireAuth, ServeUi, ServeDoh,
     FilteringStatus, FilteringConfig,
     AddList, RemoveList, SetList, RefreshLists, SetRules, RewriteList, RewriteAdd, RewriteDelete,
     RewriteUpdate, RewriteSettings, SafeSearchStatus, SafeSearchSettings, SafeSearchSet, LogShow,
     LogConfig, LogConfigLegacy, StatsShow, StatsConfig, StatsConfigLegacy, DnsInfo, SetDnsConfig,
     SetProtection, CheckVersion, InstallUpdate, TestUpstream, ExpirePause, RotateLog, RefreshDue}
Unordered == {ServicesUpdate, Profile, ServerStatus}

Returned == <<>>

AllKinds == Ordered \cup Unordered

ASSUME StateLocksAssumption == Kinds \subseteq AllKinds

VARIABLES
    runs,       \* runs[h]: the sections of what h is running
    section,    \* the section it is in
    taken,      \* how many of the section's locks it holds
    waiting     \* it has asked for the next one

lockVars == <<runs, section, taken, waiting>>

LocksTypeOK ==
    /\ runs \in [Handlers -> Kinds \cup {Returned}]
    /\ section \in [Handlers -> Nat]
    /\ taken \in [Handlers -> 0..2]
    /\ waiting \in [Handlers -> BOOLEAN]

LocksInit ==
    /\ runs = [h \in Handlers |-> Returned]
    /\ section = [h \in Handlers |-> 0]
    /\ taken = [h \in Handlers |-> 0]
    /\ waiting = [h \in Handlers |-> FALSE]

Section(h) == runs[h][section[h]]

\* The locks h holds, and the one it takes next.
Held(h) ==
    IF runs[h] = Returned THEN {} ELSE {Section(h)[i] : i \in 1..taken[h]}

Next(h) == Section(h)[taken[h] + 1]

AtEnd(h) == taken[h] = Len(Section(h))

Start(h, kind) ==
    /\ runs[h] = Returned
    /\ runs' = [runs EXCEPT ![h] = kind]
    /\ section' = [section EXCEPT ![h] = 1]
    /\ UNCHANGED <<taken, waiting>>

Ask(h) ==
    /\ runs[h] # Returned
    /\ ~AtEnd(h)
    /\ ~waiting[h]
    /\ waiting' = [waiting EXCEPT ![h] = TRUE]
    /\ UNCHANGED <<runs, section, taken>>

\* Whom h waits for: the holders it conflicts with and, if it reads, the
\* writers in line.
Blockers(h) ==
    {g \in Handlers \ {h} :
        \/ W(Next(h).lock) \in Held(g)
        \/ Next(h).mode = "write" /\ R(Next(h).lock) \in Held(g)
        \/ Next(h).mode = "read" /\ waiting[g] /\ Next(g) = W(Next(h).lock)}

Grant(h) ==
    /\ waiting[h]
    /\ Blockers(h) = {}
    /\ taken' = [taken EXCEPT ![h] = @ + 1]
    /\ waiting' = [waiting EXCEPT ![h] = FALSE]
    /\ UNCHANGED <<runs, section>>

Return(h) ==
    /\ runs' = [runs EXCEPT ![h] = Returned]
    /\ section' = [section EXCEPT ![h] = 0]

\* The guards are dropped; the handler goes on to its next section.
Release(h) ==
    /\ runs[h] # Returned
    /\ AtEnd(h)
    /\ taken' = [taken EXCEPT ![h] = 0]
    /\ IF section[h] = Len(runs[h]) THEN Return(h)
       ELSE section' = [section EXCEPT ![h] = @ + 1] /\ UNCHANGED runs
    /\ UNCHANGED waiting

\* The handler returns early: what it was to change is not there, the request
\* is refused, nothing is due, or the save failed.
GiveUp(h) ==
    /\ runs[h] # Returned
    /\ AtEnd(h)
    /\ Len(Section(h)) = 1
    /\ taken' = [taken EXCEPT ![h] = 0]
    /\ Return(h)
    /\ UNCHANGED waiting

LocksNext ==
    \E h \in Handlers :
        \/ \E kind \in Kinds : Start(h, kind)
        \/ Ask(h)
        \/ Grant(h)
        \/ Release(h)
        \/ GiveUp(h)

\* A thread that can run does, and a free lock is given to a waiter; strong
\* fairness, because readers and writers take turns.
LocksFairness ==
    \A h \in Handlers : /\ WF_lockVars(Ask(h))
                        /\ SF_lockVars(Grant(h))
                        /\ WF_lockVars(Release(h) \/ GiveUp(h))

LocksSpec == LocksInit /\ [][LocksNext]_lockVars /\ LocksFairness

(***************************************************************************)
(* Properties.                                                             *)
(***************************************************************************)
\* No handlers wait for one another in a circle, through holders and writers
\* in line alike: handlers that take the locks in opposite orders would stop
\* the API for good.
NoCircularWait ==
    \A S \in (SUBSET Handlers) \ {{}} :
        \E h \in S : waiting[h] => Blockers(h) \cap S = {}

\* Every request returns: "rebuilds the filtering engine from the current
\* lists, and saves the list configuration" (state.rs:193-194).
RequestsReturn == \A h \in Handlers : runs[h] # Returned ~> runs[h] = Returned
=============================================================================
