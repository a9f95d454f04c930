----------------------------- MODULE FilterLists -----------------------------
(***************************************************************************)
(* The filter lists: struct Manager of sift-filter/src/lists.rs, the list  *)
(* handlers of sift-api/src/handlers/filtering.rs and the refresh of the   *)
(* maintenance task in sift/src/main.rs.                                   *)
(*                                                                         *)
(* A thread reads a list's URL under the lock, downloads without it, and   *)
(* applies what came back to whatever list has the identifier by then.     *)
(* The contents of a list are told apart by the URL they came from and a   *)
(* version.  save_config is one step here; module ConfigStore has its      *)
(* inside.  Blocklists and allowlists share identifiers and are not told   *)
(* apart.                                                                  *)
(***************************************************************************)
EXTENDS Naturals, FiniteSetsExt

CONSTANTS
    Threads,
    Urls,
    MaxId,         \* bound on identifiers
    MaxVersion,    \* bound on the versions of a URL's contents
    MaxOps,        \* bound on requests
    MaxFailures,   \* bound on failing downloads
    MaxFaults,     \* bound on failing writes of a file
    MaxRestarts,   \* bound on restarts
    NoList, Empty, NoFile

Ids == 1..MaxId

Contents == [url : Urls, version : 1..MaxVersion]

Lists == [url : Urls, enabled : BOOLEAN, text : Contents \cup {Empty}]

\* What the configuration file says of a list.
Configured == [url : Urls, enabled : BOOLEAN]

ASSUME FilterListsAssumption ==
    /\ MaxId \in Nat /\ MaxVersion \in Nat \ {0} /\ MaxOps \in Nat
    /\ MaxFailures \in Nat /\ MaxFaults \in Nat /\ MaxRestarts \in Nat
    /\ NoList \notin Lists /\ NoList \notin Configured

VARIABLES
    lists,      \* the lists of AppState.filters, by identifier
    files,      \* filters/<id>.txt
    saved,      \* the lists in the configuration file
    engine,     \* what the resolver's engine was built from
    published,  \* the version each URL serves
    pc,         \* where each thread is
    todo,       \* the lists a refresh has still to visit
    updated,    \* a refresh has changed something
    after,      \* where a thread goes once its download is over
    job,        \* the download under way: [id, url], then its text
    fresh,      \* lists added since and never downloaded successfully
    ops, failures, faults, restarts

listVars == <<lists, files, saved, engine, published, pc, todo, updated,
              after, job, fresh, ops, failures, faults, restarts>>

NoDownload == [id |-> 0]

ListsTypeOK ==
    /\ lists \in [Ids -> Lists \cup {NoList}]
    /\ files \in [Ids -> Contents \cup {NoFile}]
    /\ saved \in [Ids -> Configured \cup {NoList}]
    /\ engine \in [Ids -> Contents \cup {Empty}]
    /\ published \in [Urls -> 1..MaxVersion]
    /\ pc \in [Threads -> {"idle", "fetch", "apply", "next", "save", "build"}]
    /\ todo \in [Threads -> SUBSET Ids]
    /\ updated \in [Threads -> BOOLEAN]
    /\ after \in [Threads -> {"next", "save"}]
    /\ job \in [Threads -> {NoDownload} \cup [id : Ids, url : Urls]
                             \cup [id : Ids, text : Contents]]
    /\ fresh \subseteq Ids
    /\ ops \in 0..MaxOps /\ failures \in 0..MaxFailures
    /\ faults \in 0..MaxFaults /\ restarts \in 0..MaxRestarts

ListsInit ==
    /\ lists = [i \in Ids |-> NoList]
    /\ files = [i \in Ids |-> NoFile]
    /\ saved = [i \in Ids |-> NoList]
    /\ engine = [i \in Ids |-> Empty]
    /\ published = [u \in Urls |-> 1]
    /\ pc = [t \in Threads |-> "idle"]
    /\ todo = [t \in Threads |-> {}]
    /\ updated = [t \in Threads |-> FALSE]
    /\ after = [t \in Threads |-> "save"]
    /\ job = [t \in Threads |-> NoDownload]
    /\ fresh = {}
    /\ ops = 0 /\ failures = 0 /\ faults = 0 /\ restarts = 0

Used == {i \in Ids : lists[i] # NoList}

WithUrl(u) == {i \in Used : lists[i].url = u}

Enabled == {i \in Used : lists[i].enabled}

Goto(t, p) == pc' = [pc EXCEPT ![t] = p]

\* Manager::next_id: one more than the largest in use.
NextId == IF Used = {} THEN 1 ELSE Max(Used) + 1

Request(t) == pc[t] = "idle" /\ ops < MaxOps /\ ops' = ops + 1

(***************************************************************************)
(* The handlers, up to their await.                                        *)
(***************************************************************************)
AddUrl(t, u) ==
    /\ Request(t)
    /\ WithUrl(u) = {}
    /\ NextId \in Ids
    /\ lists' = [lists EXCEPT ![NextId] =
                   [url |-> u, enabled |-> TRUE, text |-> Empty]]
    /\ fresh' = fresh \cup {NextId}
    /\ job' = [job EXCEPT ![t] = [id |-> NextId, url |-> u]]
    /\ after' = [after EXCEPT ![t] = "save"]
    /\ Goto(t, "fetch")
    /\ UNCHANGED <<files, saved, engine, published, todo, updated, failures,
                   faults, restarts>>

\* remove_url: the list's file is left where it is.
RemoveUrl(t, u) ==
    /\ Request(t)
    /\ lists' = [i \in Ids |-> IF i \in WithUrl(u) THEN NoList ELSE lists[i]]
    /\ fresh' = fresh \ WithUrl(u)
    /\ Goto(t, "save")
    /\ UNCHANGED <<files, saved, engine, published, todo, updated, after, job,
                   failures, faults, restarts>>

\* set_url: a new address is downloaded at once; the contents stay until then.
SetUrl(t, u, new, enabled) ==
    /\ Request(t)
    /\ WithUrl(u) # {}
    /\ LET i == Min(WithUrl(u))
       IN  /\ lists' = [lists EXCEPT ![i].url = new, ![i].enabled = enabled]
           /\ job' = IF new # u THEN [job EXCEPT ![t] = [id |-> i, url |-> new]]
                                ELSE job
    /\ after' = [after EXCEPT ![t] = "save"]
    /\ Goto(t, IF new # u THEN "fetch" ELSE "save")
    /\ UNCHANGED <<files, saved, engine, published, todo, updated, fresh,
                   failures, faults, restarts>>

\* The refresh handler visits every enabled list, maintenance the stale ones.
Refresh(t, ids) ==
    /\ Request(t)
    /\ ids # {}
    /\ todo' = [todo EXCEPT ![t] = ids]
    /\ updated' = [updated EXCEPT ![t] = FALSE]
    /\ after' = [after EXCEPT ![t] = "next"]
    /\ Goto(t, "next")
    /\ UNCHANGED <<lists, files, saved, engine, published, job, fresh,
                   failures, faults, restarts>>

\* The next list's URL is read, or there is no such list any more.
RefreshNext(t) ==
    /\ pc[t] = "next"
    /\ todo[t] # {}
    /\ LET i == Min(todo[t])
       IN  /\ todo' = [todo EXCEPT ![t] = @ \ {i}]
           /\ job' = IF i \in Used
                       THEN [job EXCEPT ![t] = [id |-> i, url |-> lists[i].url]]
                       ELSE job
           /\ Goto(t, IF i \in Used THEN "fetch" ELSE "next")
    /\ UNCHANGED <<lists, files, saved, engine, published, updated, after,
                   fresh, ops, failures, faults, restarts>>

\* Mutant of RefreshEnd: the engine is not rebuilt.
RefreshEndQuietly(t) ==
    /\ pc[t] = "next"
    /\ todo[t] = {}
    /\ updated' = [updated EXCEPT ![t] = FALSE]
    /\ Goto(t, "idle")
    /\ UNCHANGED <<lists, files, saved, engine, published, todo, after, job,
                   fresh, ops, failures, faults, restarts>>

\* "Nothing to write and nothing to rebuild when every list came back the same."
RefreshEnd(t) ==
    /\ pc[t] = "next"
    /\ todo[t] = {}
    /\ updated' = [updated EXCEPT ![t] = FALSE]
    /\ Goto(t, IF updated[t] THEN "save" ELSE "idle")
    /\ UNCHANGED <<lists, files, saved, engine, published, todo, after, job,
                   fresh, ops, failures, faults, restarts>>

(***************************************************************************)
(* The download and apply_fetched.                                         *)
(***************************************************************************)
FetchOk(t) ==
    /\ pc[t] = "fetch"
    /\ job' = [job EXCEPT ![t] =
                 [id |-> job[t].id,
                  text |-> [url |-> job[t].url, version |-> published[job[t].url]]]]
    /\ Goto(t, "apply")
    /\ UNCHANGED <<lists, files, saved, engine, published, todo, updated,
                   after, fresh, ops, failures, faults, restarts>>

FetchFail(t) ==
    /\ pc[t] = "fetch"
    /\ failures < MaxFailures
    /\ failures' = failures + 1
    /\ job' = [job EXCEPT ![t] = NoDownload]
    /\ Goto(t, after[t])
    /\ UNCHANGED <<lists, files, saved, engine, published, todo, updated,
                   after, fresh, ops, faults, restarts>>

Done(t, changed) ==
    /\ updated' = [updated EXCEPT ![t] = @ \/ changed]
    /\ job' = [job EXCEPT ![t] = NoDownload]
    /\ Goto(t, after[t])

\* RefreshError::NotFound: no list has the identifier any more.
ApplyNowhere(t) ==
    /\ pc[t] = "apply"
    /\ job[t].id \notin Used
    /\ Done(t, FALSE)
    /\ UNCHANGED <<lists, files, saved, engine, published, todo, after, fresh,
                   ops, failures, faults, restarts>>

\* The same contents, and a file to touch: nothing is written.
ApplyUnchanged(t) ==
    /\ pc[t] = "apply"
    /\ job[t].id \in Used
    /\ lists[job[t].id].text = job[t].text
    /\ files[job[t].id] # NoFile
    /\ fresh' = fresh \ {job[t].id}
    /\ Done(t, FALSE)
    /\ UNCHANGED <<lists, files, saved, engine, published, todo, after, ops,
                   failures, faults, restarts>>

\* Mutant of ApplyWritten: the file is not written.
ApplyInMemory(t, written) ==
    LET i == job[t].id
    IN  /\ pc[t] = "apply"
        /\ i \in Used
        /\ lists[i].text # job[t].text \/ files[i] = NoFile
        /\ lists' = [lists EXCEPT ![i].text = job[t].text]
        /\ fresh' = fresh \ {i}
        /\ Done(t, written)
        /\ UNCHANGED <<files, saved, engine, published, todo, after, ops,
                       failures, faults, restarts>>

\* The contents are replaced in memory and then in the file; an error of the
\* second does not undo the first, and does not count as a change.
ApplyWritten(t, written) ==
    LET i == job[t].id
    IN  /\ pc[t] = "apply"
        /\ i \in Used
        /\ lists[i].text # job[t].text \/ files[i] = NoFile
        /\ lists' = [lists EXCEPT ![i].text = job[t].text]
        /\ \/ written /\ files' = [files EXCEPT ![i] = job[t].text] /\ UNCHANGED faults
           \/ ~written /\ faults < MaxFaults /\ faults' = faults + 1 /\ UNCHANGED files
        /\ fresh' = fresh \ {i}
        /\ Done(t, written)
        /\ UNCHANGED <<saved, engine, published, todo, after, ops, failures,
                       restarts>>

(***************************************************************************)
(* save_filters: the configuration, then the engine.                       *)
(***************************************************************************)
SaveLists(t) ==
    /\ pc[t] = "save"
    /\ saved' = [i \in Ids |->
                   IF lists[i] = NoList THEN NoList
                   ELSE [url |-> lists[i].url, enabled |-> lists[i].enabled]]
    /\ Goto(t, "build")
    /\ UNCHANGED <<lists, files, engine, published, todo, updated, after, job,
                   fresh, ops, failures, faults, restarts>>

\* save_config fails: no engine is built.
SaveFault(t) ==
    /\ pc[t] = "save"
    /\ faults < MaxFaults
    /\ faults' = faults + 1
    /\ Goto(t, "idle")
    /\ UNCHANGED <<lists, files, saved, engine, published, todo, updated,
                   after, job, fresh, ops, failures, restarts>>

\* Manager::build_engine: the text of every enabled list.
BuildEngine(ls) ==
    [i \in Ids |-> IF ls[i] # NoList /\ ls[i].enabled THEN ls[i].text ELSE Empty]

ReloadFilters(t) ==
    /\ pc[t] = "build"
    /\ engine' = BuildEngine(lists)
    /\ Goto(t, "idle")
    /\ UNCHANGED <<lists, files, saved, published, todo, updated, after, job,
                   fresh, ops, failures, faults, restarts>>

\* Manager::load: the configured lists, with what their files hold.
Loaded(i) ==
    [url |-> saved[i].url, enabled |-> saved[i].enabled,
     text |-> IF files[i] = NoFile THEN Empty ELSE files[i]]

Restart ==
    /\ restarts < MaxRestarts
    /\ restarts' = restarts + 1
    /\ lists' = [i \in Ids |-> IF saved[i] = NoList THEN NoList ELSE Loaded(i)]
    /\ engine' = BuildEngine(lists')
    /\ fresh' = {i \in fresh : saved[i] # NoList}
    /\ pc' = [t \in Threads |-> "idle"]
    /\ job' = [t \in Threads |-> NoDownload]
    /\ todo' = [t \in Threads |-> {}]
    /\ updated' = [t \in Threads |-> FALSE]
    /\ UNCHANGED <<files, saved, published, after, ops, failures, faults>>

\* A list's publisher changes it.
Publish(u) ==
    /\ published[u] < MaxVersion
    /\ published' = [published EXCEPT ![u] = @ + 1]
    /\ UNCHANGED <<lists, files, saved, engine, pc, todo, updated, after, job,
                   fresh, ops, failures, faults, restarts>>

ListsNext ==
    \/ \E t \in Threads :
         \/ \E u \in Urls : AddUrl(t, u) \/ RemoveUrl(t, u)
         \/ \E u, new \in Urls, e \in BOOLEAN : SetUrl(t, u, new, e)
         \/ \E ids \in SUBSET Enabled : Refresh(t, ids)
         \/ RefreshNext(t)
         \/ RefreshEnd(t)
         \/ FetchOk(t)
         \/ FetchFail(t)
         \/ ApplyNowhere(t)
         \/ ApplyUnchanged(t)
         \/ \E written \in BOOLEAN : ApplyWritten(t, written)
         \/ SaveLists(t)
         \/ SaveFault(t)
         \/ ReloadFilters(t)
    \/ Restart
    \/ \E u \in Urls : Publish(u)

ListsSpec == ListsInit /\ [][ListsNext]_listVars

(***************************************************************************)
(* Properties.                                                             *)
(***************************************************************************)
Quiet == \A t \in Threads : pc[t] = "idle"

\* The resolver filters with what the lists hold: with no request under way,
\* the engine was built from the present text of every enabled list, although
\* refreshes that found nothing new build none and a rebuild may run between
\* another thread's change and its save.
EngineIsCurrent == Quiet /\ faults = 0 => engine = BuildEngine(lists)

\* A list that has been downloaded survives a restart: its file holds its
\* text, and the configuration names it.
ListsSurviveRestart ==
    Quiet /\ faults = 0 =>
        \A i \in Ids :
            /\ lists[i] # NoList =>
                 /\ saved[i] # NoList /\ saved[i].url = lists[i].url
                 /\ lists[i].text # Empty => files[i] = lists[i].text
            /\ lists[i] = NoList => saved[i] = NoList

\* "A download failure leaves the list configured but empty" (filtering.rs:
\* 178-179): a list that was added and never downloaded has no rules.
FailedDownloadLeavesEmpty == \A i \in fresh : lists[i].text = Empty

\* "Stores freshly fetched contents for a list" (lists.rs:287): with every
\* download successful and over, what a list holds came from its URL.
ContentsComeFromUrl ==
    Quiet => \A i \in Used :
                lists[i].text # Empty => lists[i].text.url = lists[i].url

\* "The contents matched what was already there, so nothing was rewritten"
\* (lists.rs:145): a download that counts as unchanged finds the same text in
\* the list's file, so that a write that failed is made good by the next one.
UnchangedMeansStored ==
    [][\A t \in Threads :
         ApplyUnchanged(t) => files[job[t].id] = lists[job[t].id].text]_listVars
=============================================================================
