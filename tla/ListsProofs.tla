----------------------------- MODULE ListsProofs -----------------------------
(***************************************************************************)
(* Proofs about the filter lists, for any threads, URLs and bounds, about  *)
(* the expressions their rules compile to, for any matchers, expressions   *)
(* and ceilings, and about the verdict on a request, for any lines.        *)
(***************************************************************************)
EXTENDS FilterLists, Expressions, Engine, FiniteSetTheorems, WellFoundedInduction, TLAPS

(***************************************************************************)
(* The lists.                                                              *)
(***************************************************************************)
\* A thread that has something to download has a list's number and a URL, and
\* one that has it has a list's number and contents.
JobsFit ==
    \A t \in Threads :
        /\ pc[t] = "fetch" => job[t] \in [id : Ids, url : Urls]
        /\ pc[t] = "apply" => job[t] \in [id : Ids, text : Contents]

\* A thread that will save and build before it is idle again.
WillBuild(t) ==
    \/ pc[t] \in {"save", "build"}
    \/ pc[t] \in {"fetch", "apply"} /\ (after[t] = "save" \/ updated[t])
    \/ pc[t] = "next" /\ updated[t]

\* The engine is current, or somebody is to build another.
EngineWillFollow ==
    faults = 0 => \/ engine = BuildEngine(lists)
                  \/ \E t \in Threads : WillBuild(t)

\* The configuration names the lists, or somebody is to save it.
Named(i) ==
    IF lists[i] = NoList THEN saved[i] = NoList
    ELSE saved[i] # NoList /\ saved[i].url = lists[i].url

FileWillFollow ==
    faults = 0 => \/ \A i \in Ids : Named(i)
                  \/ \E t \in Threads : WillBuild(t) /\ pc[t] # "build"

\* A list's file holds its text, save where a write has failed.
TextsAreFiled ==
    faults = 0 =>
        \A i \in Ids : lists[i] # NoList /\ lists[i].text # Empty => files[i] = lists[i].text

ListsInv ==
    /\ ListsTypeOK
    /\ JobsFit
    /\ EngineWillFollow
    /\ FileWillFollow
    /\ TextsAreFiled

LEMMA LeastNumber ==
    ASSUME NEW T \in SUBSET Ids, T # {}
    PROVE  Min(T) \in T
<1>1. T \in SUBSET Nat
      BY FilterListsAssumption DEF Ids
<1>2. PICK x \in T : \A y \in T : ~(<<y, x>> \in OpToRel(<, Nat))
      BY <1>1, NatLessThanWellFounded, WFMin
<1>3. \A y \in T : ~(y < x)
      BY <1>1, <1>2 DEF OpToRel
<1>4. \A y \in T : x <= y
      BY <1>1, <1>3
<1> QED
    BY <1>4 DEF Min

LEMMA ListsInitially == ListsInit => ListsInv
<1> SUFFICES ASSUME ListsInit PROVE ListsInv
    OBVIOUS
<1>1. ListsTypeOK
      BY FilterListsAssumption DEF ListsInit, ListsTypeOK, Ids
<1>2. engine = BuildEngine(lists)
      BY DEF ListsInit, BuildEngine
<1> QED
    BY <1>1, <1>2 DEF ListsInit, ListsInv, JobsFit, EngineWillFollow, FileWillFollow, Named,
                      TextsAreFiled

\* Requests that change lists: whoever makes one will save and build.
LEMMA RequestsKeepLists ==
    ASSUME ListsInv, NEW t \in Threads,
           \/ \E u \in Urls : AddUrl(t, u) \/ RemoveUrl(t, u)
           \/ \E u, new \in Urls, e \in BOOLEAN : SetUrl(t, u, new, e)
    PROVE  ListsInv'
<1>0. ListsTypeOK /\ JobsFit /\ TextsAreFiled
      BY DEF ListsInv
<1>1. ASSUME NEW u \in Urls, AddUrl(t, u) PROVE ListsInv'
  <2>1. PICK i \in Ids, x \in Lists :
           /\ x = [url |-> u, enabled |-> TRUE, text |-> Empty]
           /\ lists' = [lists EXCEPT ![i] = x]
           /\ fresh' = fresh \cup {i}
           /\ job' = [job EXCEPT ![t] = [id |-> i, url |-> u]]
        BY <1>1 DEF AddUrl, Lists
  <2>2. ListsTypeOK'
        BY <1>0, <1>1, <2>1, FilterListsAssumption DEF AddUrl, Request, Goto, ListsTypeOK
  <2>3. JobsFit'
        BY <1>0, <1>1, <2>1 DEF AddUrl, Goto, JobsFit, ListsTypeOK
  <2>4. WillBuild(t)' /\ pc'[t] # "build"
        BY <1>0, <1>1 DEF AddUrl, Goto, WillBuild, ListsTypeOK
  <2>5. TextsAreFiled'
        BY <1>0, <1>1, <2>1 DEF AddUrl, TextsAreFiled, ListsTypeOK
  <2> QED
      BY <2>2, <2>3, <2>4, <2>5 DEF ListsInv, EngineWillFollow, FileWillFollow
<1>2. ASSUME NEW u \in Urls, RemoveUrl(t, u) PROVE ListsInv'
  <2>2. ListsTypeOK'
        BY <1>0, <1>2, FilterListsAssumption DEF RemoveUrl, Request, Goto, ListsTypeOK
  <2>3. JobsFit'
        BY <1>0, <1>2 DEF RemoveUrl, Goto, JobsFit, ListsTypeOK
  <2>4. WillBuild(t)' /\ pc'[t] # "build"
        BY <1>0, <1>2 DEF RemoveUrl, Goto, WillBuild, ListsTypeOK
  <2>5. TextsAreFiled'
        BY <1>0, <1>2 DEF RemoveUrl, TextsAreFiled, ListsTypeOK
  <2> QED
      BY <2>2, <2>3, <2>4, <2>5 DEF ListsInv, EngineWillFollow, FileWillFollow
<1>3. ASSUME NEW u \in Urls, NEW new \in Urls, NEW e \in BOOLEAN, SetUrl(t, u, new, e)
      PROVE  ListsInv'
  <2>1. PICK i \in Ids :
           /\ i \in Used
           /\ lists' = [lists EXCEPT ![i].url = new, ![i].enabled = e]
           /\ job' = IF new # u THEN [job EXCEPT ![t] = [id |-> i, url |-> new]] ELSE job
    <3>1. WithUrl(u) \in SUBSET Ids /\ WithUrl(u) # {} /\ WithUrl(u) \subseteq Used
          BY <1>3 DEF SetUrl, WithUrl, Used
    <3>2. Min(WithUrl(u)) \in WithUrl(u)
          BY <3>1, LeastNumber
    <3> QED
        BY <1>3, <3>1, <3>2 DEF SetUrl
  <2>2. PICK x \in Lists :
           /\ x.url = new /\ x.enabled = e /\ x.text = lists[i].text
           /\ lists' = [lists EXCEPT ![i] = x]
    <3>1. lists[i] \in Lists
          BY <1>0, <2>1 DEF ListsTypeOK, Used
    <3>2. PICK x : x = [lists[i] EXCEPT !.url = new, !.enabled = e]
          OBVIOUS
    <3>3. x \in Lists /\ x.url = new /\ x.enabled = e /\ x.text = lists[i].text
          BY <3>1, <3>2 DEF Lists
    <3>4. lists' = [lists EXCEPT ![i] = x]
          BY <1>0, <2>1, <3>2 DEF ListsTypeOK
    <3> QED
        BY <3>3, <3>4
  <2>3. ListsTypeOK'
    <3>1. lists' \in [Ids -> Lists \cup {NoList}]
          BY <1>0, <2>2 DEF ListsTypeOK
    <3>2. job' \in [Threads -> {NoDownload} \cup [id : Ids, url : Urls] \cup [id : Ids, text : Contents]]
          BY <1>0, <2>1 DEF ListsTypeOK
    <3> QED
        BY <1>0, <1>3, <3>1, <3>2, FilterListsAssumption DEF SetUrl, Request, Goto, ListsTypeOK
  <2>4. JobsFit'
        BY <1>0, <1>3, <2>1 DEF SetUrl, Goto, JobsFit, ListsTypeOK
  <2>5. WillBuild(t)' /\ pc'[t] # "build"
        BY <1>0, <1>3 DEF SetUrl, Goto, WillBuild, ListsTypeOK
  <2>6. TextsAreFiled'
        BY <1>0, <1>3, <2>1, <2>2 DEF SetUrl, TextsAreFiled, ListsTypeOK, Used
  <2> QED
      BY <2>3, <2>4, <2>5, <2>6 DEF ListsInv, EngineWillFollow, FileWillFollow
<1> QED
    BY <1>1, <1>2, <1>3

\* A step of t that changes no list and no file, and after which t will build
\* if it would have before: what the others are to do stays so.
LEMMA QuietStepsKeepLists ==
    ASSUME ListsInv, NEW t \in Threads, ListsTypeOK', JobsFit',
           UNCHANGED <<lists, files, saved, engine, faults>>,
           \A x \in Threads \ {t} : UNCHANGED <<pc[x], after[x], updated[x]>>,
           WillBuild(t) => WillBuild(t)',
           pc'[t] # "build"
    PROVE  ListsInv'
<1>1. \A x \in Threads : WillBuild(x) => WillBuild(x)'
      BY DEF WillBuild
<1>2. \A x \in Threads : WillBuild(x) /\ pc[x] # "build" => WillBuild(x)' /\ pc'[x] # "build"
      BY <1>1
<1>3. EngineWillFollow'
      BY <1>1 DEF ListsInv, EngineWillFollow, BuildEngine
<1>4. FileWillFollow'
      BY <1>2 DEF ListsInv, FileWillFollow, Named
<1> QED
    BY <1>3, <1>4 DEF ListsInv, TextsAreFiled

LEMMA RefreshKeepsLists ==
    ASSUME ListsInv, NEW t \in Threads,
           \/ \E ids \in SUBSET Enabled : Refresh(t, ids)
           \/ RefreshNext(t)
           \/ RefreshEnd(t)
           \/ FetchOk(t)
           \/ FetchFail(t)
           \/ ApplyNowhere(t)
           \/ ApplyUnchanged(t)
    PROVE  ListsInv'
<1>0. ListsTypeOK /\ JobsFit
      BY DEF ListsInv
<1>1. ASSUME NEW ids \in SUBSET Enabled, Refresh(t, ids) PROVE ListsInv'
  <2>1. ids \in SUBSET Ids
        BY DEF Enabled, Used
  <2>2. ListsTypeOK'
        BY <1>0, <1>1, <2>1, FilterListsAssumption DEF Refresh, Request, Goto, ListsTypeOK
  <2>3. JobsFit'
        BY <1>0, <1>1 DEF Refresh, Goto, JobsFit, ListsTypeOK
  <2>4. pc[t] = "idle" /\ pc'[t] = "next"
        BY <1>0, <1>1 DEF Refresh, Request, Goto, ListsTypeOK
  <2>5. /\ UNCHANGED <<lists, files, saved, engine, faults>>
        /\ \A x \in Threads \ {t} : UNCHANGED <<pc[x], after[x], updated[x]>>
        BY <1>0, <1>1 DEF Refresh, Request, Goto, ListsTypeOK
  <2> QED
      BY <2>2, <2>3, <2>4, <2>5, QuietStepsKeepLists DEF WillBuild
<1>2. ASSUME RefreshNext(t) PROVE ListsInv'
  <2>1. PICK i \in Ids :
           /\ todo' = [todo EXCEPT ![t] = @ \ {i}]
           /\ job' = IF i \in Used
                       THEN [job EXCEPT ![t] = [id |-> i, url |-> lists[i].url]]
                       ELSE job
           /\ pc' = [pc EXCEPT ![t] = IF i \in Used THEN "fetch" ELSE "next"]
    <3>1. todo[t] \in SUBSET Ids /\ todo[t] # {}
          BY <1>0, <1>2 DEF RefreshNext, ListsTypeOK
    <3>2. Min(todo[t]) \in Ids
          BY <3>1, LeastNumber
    <3> QED
        BY <1>2, <3>2 DEF RefreshNext, Goto
  <2>2. i \in Used => lists[i].url \in Urls
        BY <1>0 DEF ListsTypeOK, Used, Lists
  <2>3. ListsTypeOK'
    <3>1. job' \in [Threads -> {NoDownload} \cup [id : Ids, url : Urls] \cup [id : Ids, text : Contents]]
          BY <1>0, <2>1, <2>2 DEF ListsTypeOK
    <3>2. pc' \in [Threads -> {"idle", "fetch", "apply", "next", "save", "build"}]
          BY <1>0, <2>1 DEF ListsTypeOK
    <3>3. todo' \in [Threads -> SUBSET Ids]
          BY <1>0, <2>1 DEF ListsTypeOK
    <3> QED
        BY <1>0, <1>2, <3>1, <3>2, <3>3 DEF RefreshNext, ListsTypeOK
  <2>4. JobsFit'
        BY <1>0, <2>1, <2>2 DEF JobsFit, ListsTypeOK
  <2>5. /\ UNCHANGED <<lists, files, saved, engine, faults, after, updated>>
        /\ pc[t] = "next" /\ pc'[t] \in {"fetch", "next"}
        /\ \A x \in Threads \ {t} : UNCHANGED <<pc[x], after[x], updated[x]>>
        BY <1>0, <1>2, <2>1 DEF RefreshNext, ListsTypeOK
  <2> QED
      BY <2>3, <2>4, <2>5, QuietStepsKeepLists DEF WillBuild
<1>3. ASSUME RefreshEnd(t) PROVE ListsInv'
  <2>1. ListsTypeOK'
        BY <1>0, <1>3 DEF RefreshEnd, Goto, ListsTypeOK
  <2>2. JobsFit'
        BY <1>0, <1>3 DEF RefreshEnd, Goto, JobsFit, ListsTypeOK
  <2>3. /\ UNCHANGED <<lists, files, saved, engine, faults>>
        /\ pc[t] = "next" /\ pc'[t] = IF updated[t] THEN "save" ELSE "idle"
        /\ \A x \in Threads \ {t} : UNCHANGED <<pc[x], after[x], updated[x]>>
        BY <1>0, <1>3 DEF RefreshEnd, Goto, ListsTypeOK
  <2> QED
      BY <2>1, <2>2, <2>3, QuietStepsKeepLists DEF WillBuild
<1>4. ASSUME FetchOk(t) PROVE ListsInv'
  <2>1. PICK i \in Ids, c \in Contents : job' = [job EXCEPT ![t] = [id |-> i, text |-> c]]
        BY <1>0, <1>4 DEF FetchOk, JobsFit, ListsTypeOK, Contents
  <2>2. ListsTypeOK'
        BY <1>0, <1>4, <2>1 DEF FetchOk, Goto, ListsTypeOK
  <2>3. JobsFit'
        BY <1>0, <1>4, <2>1 DEF FetchOk, Goto, JobsFit, ListsTypeOK
  <2>4. /\ UNCHANGED <<lists, files, saved, engine, faults, after, updated>>
        /\ pc[t] = "fetch" /\ pc'[t] = "apply"
        /\ \A x \in Threads \ {t} : UNCHANGED <<pc[x], after[x], updated[x]>>
        BY <1>0, <1>4 DEF FetchOk, Goto, ListsTypeOK
  <2> QED
      BY <2>2, <2>3, <2>4, QuietStepsKeepLists DEF WillBuild
<1>5. ASSUME FetchFail(t) PROVE ListsInv'
  <2>1. ListsTypeOK'
        BY <1>0, <1>5, FilterListsAssumption DEF FetchFail, Goto, ListsTypeOK
  <2>2. JobsFit'
        BY <1>0, <1>5 DEF FetchFail, Goto, JobsFit, ListsTypeOK
  <2>3. /\ UNCHANGED <<lists, files, saved, engine, faults, after, updated>>
        /\ pc[t] = "fetch" /\ pc'[t] = after[t] /\ after[t] \in {"next", "save"}
        /\ \A x \in Threads \ {t} : UNCHANGED <<pc[x], after[x], updated[x]>>
        BY <1>0, <1>5 DEF FetchFail, Goto, ListsTypeOK
  <2> QED
      BY <2>1, <2>2, <2>3, QuietStepsKeepLists DEF WillBuild
<1>6. ASSUME ApplyNowhere(t) \/ ApplyUnchanged(t) PROVE ListsInv'
  <2>1. ListsTypeOK'
        BY <1>0, <1>6 DEF ApplyNowhere, ApplyUnchanged, Done, Goto, ListsTypeOK
  <2>2. JobsFit'
        BY <1>0, <1>6 DEF ApplyNowhere, ApplyUnchanged, Done, Goto, JobsFit, ListsTypeOK
  <2>3. /\ UNCHANGED <<lists, files, saved, engine, faults, after>>
        /\ pc[t] = "apply" /\ pc'[t] = after[t] /\ after[t] \in {"next", "save"}
        /\ updated'[t] = updated[t]
        /\ \A x \in Threads \ {t} : UNCHANGED <<pc[x], after[x], updated[x]>>
        BY <1>0, <1>6 DEF ApplyNowhere, ApplyUnchanged, Done, Goto, ListsTypeOK
  <2> QED
      BY <2>1, <2>2, <2>3, QuietStepsKeepLists DEF WillBuild
<1> QED
    BY <1>1, <1>2, <1>3, <1>4, <1>5, <1>6

LEMMA ApplyKeepsLists ==
    ASSUME ListsInv, NEW t \in Threads, NEW written \in BOOLEAN, ApplyWritten(t, written)
    PROVE  ListsInv'
<1>0. ListsTypeOK /\ JobsFit /\ TextsAreFiled
      BY DEF ListsInv
<1>1. PICK i \in Ids, c \in Contents, x \in Lists :
         /\ job[t].id = i /\ job[t].text = c
         /\ lists[i] \in Lists
         /\ x.url = lists[i].url /\ x.text = c
         /\ lists' = [lists EXCEPT ![i] = x]
  <2>1. job[t] \in [id : Ids, text : Contents]
        BY <1>0 DEF ApplyWritten, JobsFit
  <2>2. PICK i \in Ids, c \in Contents : job[t].id = i /\ job[t].text = c
        BY <2>1
  <2>3. lists[i] \in Lists
        BY <1>0, <2>2 DEF ApplyWritten, ListsTypeOK, Used
  <2>4. PICK x : x = [lists[i] EXCEPT !.text = c]
        OBVIOUS
  <2>5. x \in Lists /\ x.url = lists[i].url /\ x.text = c
        BY <2>3, <2>4 DEF Lists
  <2>6. lists' = [lists EXCEPT ![i] = x]
        BY <1>0, <2>2, <2>4 DEF ApplyWritten, ListsTypeOK
  <2> QED
      BY <2>2, <2>3, <2>5, <2>6
<1>2. ListsTypeOK'
  <2>1. lists' \in [Ids -> Lists \cup {NoList}]
        BY <1>0, <1>1 DEF ListsTypeOK
  <2>2. files' \in [Ids -> Contents \cup {NoFile}] /\ faults' \in 0..MaxFaults
        BY <1>0, <1>1, FilterListsAssumption DEF ApplyWritten, ListsTypeOK
  <2>3. fresh' \subseteq Ids
        BY <1>0 DEF ApplyWritten, ListsTypeOK
  <2> QED
      BY <1>0, <2>1, <2>2, <2>3 DEF ApplyWritten, Done, Goto, ListsTypeOK
<1>3. JobsFit'
      BY <1>0 DEF ApplyWritten, Done, Goto, JobsFit, ListsTypeOK
<1>4. CASE ~written
  <2>1. faults' # 0
        BY <1>0, <1>4 DEF ApplyWritten, ListsTypeOK
  <2> QED
      BY <1>2, <1>3, <2>1 DEF ListsInv, EngineWillFollow, FileWillFollow, TextsAreFiled
<1>5. CASE written
  <2>1. files' = [files EXCEPT ![i] = c] /\ faults' = faults /\ saved' = saved
        BY <1>1, <1>5 DEF ApplyWritten
  <2>2. /\ pc[t] = "apply" /\ after[t] \in {"next", "save"}
        /\ pc' = [pc EXCEPT ![t] = after[t]]
        /\ updated'[t] = TRUE
        BY <1>0, <1>5 DEF ApplyWritten, Done, Goto, ListsTypeOK
  <2>3. WillBuild(t)' /\ pc'[t] # "build"
        BY <1>0, <2>2 DEF WillBuild, ListsTypeOK
  <2>4. TextsAreFiled'
        BY <1>0, <1>1, <2>1 DEF TextsAreFiled, ListsTypeOK
  <2> QED
      BY <1>2, <1>3, <2>3, <2>4 DEF ListsInv, EngineWillFollow, FileWillFollow
<1> QED
    BY <1>4, <1>5

LEMMA SavesKeepLists ==
    ASSUME ListsInv, NEW t \in Threads, SaveLists(t) \/ SaveFault(t) \/ ReloadFilters(t)
    PROVE  ListsInv'
<1>0. ListsTypeOK /\ JobsFit /\ TextsAreFiled
      BY DEF ListsInv
<1>1. ASSUME SaveLists(t) PROVE ListsInv'
  <2>1. \A i \in Ids : lists[i] # NoList => lists[i] \in Lists
        BY <1>0 DEF ListsTypeOK
  <2>2. \A i \in Ids : lists[i] # NoList =>
           /\ [url |-> lists[i].url, enabled |-> lists[i].enabled] \in Configured
           /\ saved'[i] = [url |-> lists[i].url, enabled |-> lists[i].enabled]
        BY <1>1, <2>1 DEF SaveLists, Lists, Configured
  <2>3. ListsTypeOK'
    <3>1. saved' \in [Ids -> Configured \cup {NoList}]
          BY <1>1, <2>2 DEF SaveLists
    <3> QED
        BY <1>0, <1>1, <3>1 DEF SaveLists, Goto, ListsTypeOK
  <2>4. JobsFit'
        BY <1>0, <1>1 DEF SaveLists, Goto, JobsFit, ListsTypeOK
  <2>5. \A i \in Ids : Named(i)'
    <3>1. ASSUME NEW i \in Ids, lists[i] # NoList
          PROVE  saved'[i] # NoList /\ saved'[i].url = lists[i].url
      <4>1. PICK r \in Configured : /\ r = [url |-> lists[i].url, enabled |-> lists[i].enabled]
                                    /\ saved'[i] = r
            BY <2>2, <3>1
      <4> QED
          BY <4>1, FilterListsAssumption
    <3>2. ASSUME NEW i \in Ids, lists[i] = NoList PROVE saved'[i] = NoList
          BY <1>1, <3>2 DEF SaveLists
    <3> QED
        BY <1>1, <3>1, <3>2 DEF SaveLists, Named
  <2>6. WillBuild(t)'
        BY <1>0, <1>1 DEF SaveLists, Goto, WillBuild, ListsTypeOK
  <2>7. TextsAreFiled'
        BY <1>0, <1>1 DEF SaveLists, TextsAreFiled
  <2> QED
      BY <2>3, <2>4, <2>5, <2>6, <2>7 DEF ListsInv, EngineWillFollow, FileWillFollow
<1>2. ASSUME SaveFault(t) PROVE ListsInv'
  <2>1. ListsTypeOK'
        BY <1>0, <1>2, FilterListsAssumption DEF SaveFault, Goto, ListsTypeOK
  <2>2. JobsFit'
        BY <1>0, <1>2 DEF SaveFault, Goto, JobsFit, ListsTypeOK
  <2>3. faults' # 0
        BY <1>0, <1>2 DEF SaveFault, ListsTypeOK
  <2> QED
      BY <2>1, <2>2, <2>3 DEF ListsInv, EngineWillFollow, FileWillFollow, TextsAreFiled
<1>3. ASSUME ReloadFilters(t) PROVE ListsInv'
  <2>1. /\ engine' = BuildEngine(lists)
        /\ UNCHANGED <<lists, files, saved, faults, after, updated>>
        /\ pc[t] = "build" /\ pc' = [pc EXCEPT ![t] = "idle"]
        BY <1>3 DEF ReloadFilters, Goto
  <2>2. engine' \in [Ids -> Contents \cup {Empty}]
        BY <1>0, <2>1 DEF BuildEngine, ListsTypeOK, Lists
  <2>3. ListsTypeOK'
        BY <1>0, <1>3, <2>2 DEF ReloadFilters, Goto, ListsTypeOK
  <2>4. JobsFit'
        BY <1>0, <1>3 DEF ReloadFilters, Goto, JobsFit, ListsTypeOK
  <2>5. EngineWillFollow'
        BY <2>1 DEF EngineWillFollow, BuildEngine
  <2>6. \A x \in Threads : WillBuild(x) /\ pc[x] # "build" => WillBuild(x)' /\ pc'[x] # "build"
        BY <1>0, <2>1 DEF WillBuild, ListsTypeOK
  <2>7. FileWillFollow'
        BY <2>1, <2>6 DEF ListsInv, FileWillFollow, Named
  <2> QED
      BY <1>0, <2>1, <2>3, <2>4, <2>5, <2>7 DEF ListsInv, TextsAreFiled
<1> QED
    BY <1>1, <1>2, <1>3

LEMMA RestartKeepsLists ==
    ASSUME ListsInv, Restart
    PROVE  ListsInv'
<1>0. ListsTypeOK
      BY DEF ListsInv
<1>1. ASSUME NEW i \in Ids, saved[i] # NoList
      PROVE  /\ lists'[i] \in Lists
             /\ lists'[i].url = saved[i].url
             /\ lists'[i].text # Empty => files[i] = lists'[i].text
  <2>1. saved[i] \in Configured /\ files[i] \in Contents \cup {NoFile}
        BY <1>0, <1>1 DEF ListsTypeOK
  <2>2. PICK c \in Contents \cup {Empty} : c = IF files[i] = NoFile THEN Empty ELSE files[i]
        BY <2>1
  <2>3. lists'[i] = [url |-> saved[i].url, enabled |-> saved[i].enabled, text |-> c]
        BY <1>1, <2>2 DEF Restart, Loaded
  <2>4. lists'[i] \in Lists
        BY <2>1, <2>3 DEF Lists, Configured
  <2> QED
      BY <2>2, <2>3, <2>4
<1>2. ASSUME NEW i \in Ids, saved[i] = NoList PROVE lists'[i] = NoList
      BY <1>2 DEF Restart
<1>3. lists' \in [Ids -> Lists \cup {NoList}]
  <2>1. lists' = [i \in Ids |-> lists'[i]]
        BY DEF Restart
  <2> QED
      BY <1>1, <1>2, <2>1
<1>4. engine' = BuildEngine(lists')
      BY DEF Restart
<1>5. engine' \in [Ids -> Contents \cup {Empty}]
      BY <1>3, <1>4 DEF BuildEngine, Lists
<1>6. ListsTypeOK'
      BY <1>0, <1>3, <1>5, FilterListsAssumption DEF Restart, ListsTypeOK
<1>7. JobsFit'
      BY DEF Restart, JobsFit
<1>8. \A i \in Ids : Named(i)'
  <2>1. saved' = saved
        BY DEF Restart
  <2> QED
      BY <1>1, <1>2, <2>1, FilterListsAssumption DEF Named
<1>9. TextsAreFiled'
  <2>1. files' = files
        BY DEF Restart
  <2> QED
      BY <1>1, <1>2, <2>1 DEF TextsAreFiled
<1>10. EngineWillFollow'
      BY <1>4 DEF EngineWillFollow, BuildEngine
<1> QED
    BY <1>6, <1>7, <1>8, <1>9, <1>10 DEF ListsInv, FileWillFollow

LEMMA ListsKept == ListsInv /\ [ListsNext]_listVars => ListsInv'
<1> SUFFICES ASSUME ListsInv, [ListsNext]_listVars PROVE ListsInv'
    OBVIOUS
<1>1. ASSUME NEW u \in Urls, Publish(u) PROVE ListsInv'
  <2>1. ListsTypeOK'
    <3>1. published' \in [Urls -> 1..MaxVersion]
          BY <1>1, FilterListsAssumption DEF ListsInv, Publish, ListsTypeOK
    <3> QED
        BY <1>1, <3>1 DEF ListsInv, Publish, ListsTypeOK
  <2> QED
      BY <1>1, <2>1 DEF ListsInv, Publish, JobsFit, EngineWillFollow, FileWillFollow, Named,
                        TextsAreFiled, WillBuild, BuildEngine
<1>2. CASE UNCHANGED listVars
      BY <1>2 DEF listVars, ListsInv, ListsTypeOK, JobsFit, EngineWillFollow, FileWillFollow,
                  Named, TextsAreFiled, WillBuild, BuildEngine
<1> QED
    BY <1>1, <1>2, RequestsKeepLists, RefreshKeepsLists, ApplyKeepsLists, SavesKeepLists,
       RestartKeepsLists DEF ListsNext

LEMMA ListsInvariant == ListsSpec => []ListsInv
BY ListsInitially, ListsKept, PTL DEF ListsSpec

\* Type correctness of the lists, what is under way included.
THEOREM ListsTypeCorrect == ListsSpec => []ListsTypeOK
<1>1. ListsInv => ListsTypeOK
      BY DEF ListsInv
<1> QED
    BY <1>1, ListsInvariant, PTL

\* With no request under way and no write failed, the engine was built from
\* the present text of every enabled list (lists.rs:build_engine, filtering.rs:
\* save_filters): whatever downloads, edits and rebuilds overlapped, whoever
\* changed a list last had still to build.
THEOREM EngineIsCurrentHolds == ListsSpec => []EngineIsCurrent
<1>1. ListsInv => EngineIsCurrent
      BY DEF ListsInv, EngineWillFollow, EngineIsCurrent, Quiet, WillBuild
<1> QED
    BY <1>1, ListsInvariant, PTL

\* With no request under way and no write failed, what a restart loads
\* (lists.rs: Manager::load) is what the lists are: the configuration names each
\* with its URL, and the file of each holds its text.
THEOREM ListsSurviveRestartHolds == ListsSpec => []ListsSurviveRestart
<1>1. ListsInv => ListsSurviveRestart
      BY DEF ListsInv, FileWillFollow, TextsAreFiled, Named, ListsSurviveRestart, Quiet,
             WillBuild
<1> QED
    BY <1>1, ListsInvariant, PTL

(***************************************************************************)
(* The expressions.                                                        *)
(***************************************************************************)
\* Where a matcher can be.  Nobody compiles, queues or drops an expression
\* that a user wrote.
Found == [at : {"use"}, expr : Exprs]
Making == [at : {"build", "queue"}, expr : Exprs \ Handwritten]
Sweeping == [at : {"trim"}, expr : Exprs, passes : Nat]
Dropping == [at : {"drop"}, expr : Exprs, passes : Nat, victim : Exprs \ Handwritten]

ExprTyped ==
    /\ held \in [Exprs -> {"empty", "failed", "built"}]
    /\ used \in [Exprs -> BOOLEAN]
    /\ compiled \in Seq(Exprs \ Handwritten)
    /\ current \in {1, 2}
    /\ task \in [Matchers -> {NoMatcher} \cup Found \cup Making \cup Sweeping \cup Dropping]

\* Nobody has met an engine that is not in use yet.
NotAhead ==
    /\ \A m \in Matchers : Working(m) => Generation[task[m].expr] <= current
    /\ \A e \in Exprs \ Handwritten : Generation[e] > current => held[e] = "empty"

\* What is compiled and can still be used is in the queue, or somebody carries it.
Reachable ==
    \A e \in Exprs \ Handwritten :
        held[e] = "built" /\ Upgrades(e) => e \in ToSet(compiled) \/ Carried(e)

HandwrittenStay == \A e \in Handwritten : held[e] = "built"

\* The queue's lock has one holder.
OneTrims == \A m, n \in Matchers : Trimming(m) /\ Trimming(n) => m = n

\* The queue is two past the hard ceiling only before its holder's first turn.
QueueBounded ==
    /\ Len(compiled) <= HardCeiling + 2
    /\ Len(compiled) = HardCeiling + 2 =>
          \E m \in Matchers : At(m, "trim") /\ task[m].passes > 0

ExprInv ==
    /\ ExprTyped
    /\ NotAhead
    /\ Reachable
    /\ HandwrittenStay
    /\ OneTrims
    /\ QueueBounded

LEMMA AppendedQueue ==
    ASSUME NEW S, NEW s \in Seq(S), NEW e \in S
    PROVE  /\ Append(s, e) \in Seq(S)
           /\ Len(Append(s, e)) = Len(s) + 1
           /\ Len(s) \in Nat
           /\ ToSet(Append(s, e)) = ToSet(s) \cup {e}
<1>1. ToSet(Append(s, e)) \subseteq ToSet(s) \cup {e}
      BY DEF ToSet
<1>2. ToSet(s) \subseteq ToSet(Append(s, e))
  <2>1. \A i \in DOMAIN s : i \in DOMAIN Append(s, e) /\ Append(s, e)[i] = s[i]
        OBVIOUS
  <2> QED
      BY <2>1 DEF ToSet
<1>3. e \in ToSet(Append(s, e))
  <2>1. Len(s) + 1 \in DOMAIN Append(s, e) /\ Append(s, e)[Len(s) + 1] = e
        OBVIOUS
  <2> QED
      BY <2>1 DEF ToSet
<1> QED
    BY <1>1, <1>2, <1>3

LEMMA ShortenedQueue ==
    ASSUME NEW S, NEW s \in Seq(S), Len(s) > 0
    PROVE  /\ Head(s) \in S
           /\ Tail(s) \in Seq(S)
           /\ Len(Tail(s)) = Len(s) - 1
           /\ Len(s) \in Nat
           /\ ToSet(s) \subseteq ToSet(Tail(s)) \cup {Head(s)}
<1>0. s # <<>> /\ Len(s) \in Nat /\ DOMAIN s = 1..Len(s)
      OBVIOUS
<1>1. Head(s) \in S /\ Tail(s) \in Seq(S) /\ Len(Tail(s)) = Len(s) - 1
      BY <1>0
<1>2. ASSUME NEW i \in DOMAIN s, i # 1
      PROVE  i - 1 \in DOMAIN Tail(s) /\ Tail(s)[i - 1] = s[i]
      BY <1>0, <1>1, <1>2
<1>3. s[1] = Head(s)
      BY <1>0
<1>4. ASSUME NEW x \in ToSet(s), x # Head(s) PROVE x \in ToSet(Tail(s))
  <2>1. PICK i \in DOMAIN s : x = s[i]
        BY DEF ToSet
  <2>2. i - 1 \in DOMAIN Tail(s) /\ Tail(s)[i - 1] = x
        BY <1>2, <1>3, <1>4, <2>1
  <2> QED
      BY <2>2 DEF ToSet
<1> QED
    BY <1>0, <1>1, <1>4

LEMMA ExprInitially == ExprInit => ExprInv
<1> SUFFICES ASSUME ExprInit PROVE ExprInv
    OBVIOUS
<1>1. ExprTyped
      BY ExpressionsAssumption DEF ExprInit, ExprTyped
<1>2. \A m \in Matchers : task[m].at = "idle"
      BY DEF ExprInit, NoMatcher
<1> QED
    BY <1>1, <1>2, ExpressionsAssumption
       DEF ExprInit, ExprInv, NotAhead, Reachable, HandwrittenStay, OneTrims, QueueBounded,
           Working, Trimming, At

\* A matcher moves from task[m] to x, and holds no engine that it did not hold
\* and that is not in use.
Steps(m, x) ==
    /\ task' = [task EXCEPT ![m] = x]
    /\ current' = current
    /\ x.at # "idle" =>
          /\ x.expr \in Exprs
          /\ \/ Generation[x.expr] = current
             \/ Working(m) /\ x.expr = task[m].expr

LEMMA StepsUpgradeNothing ==
    ASSUME ExprTyped, NotAhead, NEW m \in Matchers, NEW x, Steps(m, x)
    PROVE  /\ \A e \in Exprs : Upgrades(e)' => Upgrades(e)
           /\ \A n \in Matchers : Working(n)' => Generation[task'[n].expr] <= current'
           /\ task'[m] = x /\ \A n \in Matchers \ {m} : task'[n] = task[n]
<1>1. task'[m] = x /\ \A n \in Matchers \ {m} : task'[n] = task[n]
      BY DEF Steps, ExprTyped
<1>2. ASSUME NEW e \in Exprs, Upgrades(e)' PROVE Upgrades(e)
  <2>1. CASE Generation[e] = current
        BY <2>1 DEF Upgrades
  <2>2. CASE Generation[e] # current
    <3>1. PICK n \in Matchers : Working(n)' /\ Generation[task'[n].expr] = Generation[e]
          BY <1>2, <2>2 DEF Upgrades, Steps
    <3>2. Working(n) /\ Generation[task[n].expr] = Generation[e]
          BY <1>1, <2>2, <3>1 DEF Working, Steps
    <3> QED
        BY <3>2 DEF Upgrades
  <2> QED
      BY <2>1, <2>2
<1>3. ASSUME NEW n \in Matchers, Working(n)' PROVE Generation[task'[n].expr] <= current'
      BY <1>1, <1>3 DEF Working, Steps, NotAhead, ExprTyped
<1> QED
    BY <1>1, <1>2, <1>3

\* Steps outside the queue's lock.
LEMMA UnlockedStepsKeep ==
    ASSUME ExprInv, NEW m \in Matchers, (\E e \in Exprs : Consult(m, e)) \/ Use(m) \/ Build(m)
    PROVE  ExprInv'
<1>0. ExprTyped /\ NotAhead /\ Reachable /\ HandwrittenStay /\ OneTrims /\ QueueBounded
      BY DEF ExprInv
<1>1. ASSUME NEW x, Steps(m, x), x.at \in {"idle", "use", "build"}, task[m].at \in {"idle", "use"},
             x \in {NoMatcher} \cup Found \cup Making,
             UNCHANGED <<held, compiled, current>>, used' \in [Exprs -> BOOLEAN]
      PROVE  ExprInv'
  <2>1. /\ \A e \in Exprs : Upgrades(e)' => Upgrades(e)
        /\ \A n \in Matchers : Working(n)' => Generation[task'[n].expr] <= current'
        /\ task'[m] = x /\ \A n \in Matchers \ {m} : task'[n] = task[n]
        BY <1>0, <1>1, StepsUpgradeNothing
  <2>2. ExprTyped'
        BY <1>0, <1>1 DEF ExprTyped, Steps
  <2>3. NotAhead'
        BY <1>0, <1>1, <2>1 DEF NotAhead
  <2>4. \A e : Carried(e) => Carried(e)'
        BY <1>1, <2>1 DEF Carried, At
  <2>5. Reachable'
        BY <1>0, <1>1, <2>1, <2>4 DEF Reachable
  <2>6. OneTrims' /\ QueueBounded'
        BY <1>0, <1>1, <2>1 DEF OneTrims, QueueBounded, Trimming, At
  <2> QED
      BY <1>0, <1>1, <2>2, <2>3, <2>5, <2>6 DEF ExprInv, HandwrittenStay
<1>2. ASSUME NEW e \in Exprs, Consult(m, e) PROVE ExprInv'
  <2>1. PICK x : x = [at |-> IF held[e] = "built" THEN "use" ELSE "build", expr |-> e]
        OBVIOUS
  <2>2. /\ x.at = IF held[e] = "built" THEN "use" ELSE "build"
        /\ x.expr = e
        BY <2>1
  <2>3. x \in Found \cup Making
        BY <1>0, <2>1 DEF Found, Making, HandwrittenStay
  <2>4. Steps(m, x) /\ task[m].at = "idle"
        BY <1>2, <2>1, <2>2 DEF Consult, Steps, Working
  <2>5. UNCHANGED <<held, compiled, current, used>>
        BY <1>2 DEF Consult
  <2> QED
      BY <1>0, <1>1, <2>2, <2>3, <2>4, <2>5 DEF ExprTyped
<1>3. ASSUME Use(m) PROVE ExprInv'
  <2>1. Steps(m, NoMatcher) /\ NoMatcher.at = "idle" /\ task[m].at = "use"
        BY <1>3 DEF Use, Steps, NoMatcher, At
  <2>2. UNCHANGED <<held, compiled, current>> /\ used' \in [Exprs -> BOOLEAN]
        BY <1>0, <1>3 DEF Use, ExprTyped
  <2> QED
      BY <1>1, <2>1, <2>2
<1>4. ASSUME Build(m) PROVE ExprInv'
  <2>1. PICK e \in Exprs \ Handwritten :
           task[m] \in Making /\ task[m].at = "build" /\ task[m].expr = e
        BY <1>0, <1>4 DEF Build, At, ExprTyped, NoMatcher, Found, Making, Sweeping, Dropping
  <2>2. PICK x \in {NoMatcher} \cup Making :
           /\ e \in Broken => x = NoMatcher
           /\ e \notin Broken => x.at = "queue" /\ x.expr = e
           /\ task' = [task EXCEPT ![m] = x]
    <3>1. PICK y : y = [task[m] EXCEPT !.at = "queue"]
          OBVIOUS
    <3>2. y \in Making /\ y.at = "queue" /\ y.expr = e
          BY <2>1, <3>1 DEF Making
    <3>3. task' = [task EXCEPT ![m] = IF e \in Broken THEN NoMatcher ELSE y]
          BY <1>0, <1>4, <2>1, <3>1 DEF Build, ExprTyped
    <3> QED
        BY <3>2, <3>3
  <2>3. held' = [held EXCEPT ![e] = IF e \in Broken THEN "failed" ELSE "built"]
        BY <1>4, <2>1 DEF Build
  <2>4. Steps(m, x)
    <3>1. x.at # "idle" => x.expr = e
          BY <2>2 DEF NoMatcher
    <3>2. Working(m)
          BY <2>1 DEF Working
    <3> QED
        BY <1>4, <2>1, <2>2, <3>1, <3>2 DEF Build, Steps
  <2>5. /\ \A d \in Exprs : Upgrades(d)' => Upgrades(d)
        /\ \A n \in Matchers : Working(n)' => Generation[task'[n].expr] <= current'
        /\ task'[m] = x /\ \A n \in Matchers \ {m} : task'[n] = task[n]
        BY <1>0, <2>4, StepsUpgradeNothing
  <2>6. UNCHANGED <<used, compiled, current>>
        BY <1>4 DEF Build
  <2>7. ExprTyped'
        BY <1>0, <2>2, <2>3, <2>6 DEF ExprTyped
  <2>8. NotAhead'
    <3>1. Generation[e] <= current
          BY <1>0, <2>1 DEF NotAhead, Working
    <3>2. ASSUME NEW d \in Exprs \ Handwritten, Generation[d] > current' PROVE held'[d] = "empty"
      <4>1. Generation[d] > current /\ d # e
            BY <1>0, <2>6, <3>1, <3>2, ExpressionsAssumption DEF ExprTyped
      <4> QED
          BY <1>0, <2>3, <4>1 DEF NotAhead, ExprTyped
    <3> QED
        BY <2>5, <3>2 DEF NotAhead
  <2>9. \A d : Carried(d) => Carried(d)'
        BY <2>1, <2>5 DEF Carried, At
  <2>10. e \notin Broken => Carried(e)'
        BY <2>2, <2>5 DEF Carried, At
  <2>11. Reachable'
        BY <1>0, <2>3, <2>5, <2>6, <2>9, <2>10 DEF Reachable, ExprTyped
  <2>12. HandwrittenStay'
        BY <1>0, <2>3, ExpressionsAssumption DEF HandwrittenStay, ExprTyped
  <2>13. x.at \in {"idle", "build", "queue"}
        BY DEF NoMatcher, Making
  <2>14. OneTrims' /\ QueueBounded'
        BY <1>0, <2>1, <2>5, <2>6, <2>13 DEF OneTrims, QueueBounded, Trimming, At
  <2> QED
      BY <2>7, <2>8, <2>11, <2>12, <2>14 DEF ExprInv
<1> QED
    BY <1>2, <1>3, <1>4

\* A step of the holder of the queue's lock, or of who takes it.
LEMMA LockedStepsKeep ==
    ASSUME ExprInv, NEW m \in Matchers, Enqueue(m) \/ Trim(m) \/ Drop(m) \/ TrimEnd(m)
    PROVE  ExprInv'
<1>0. ExprTyped /\ NotAhead /\ Reachable /\ HandwrittenStay /\ OneTrims /\ QueueBounded
      BY DEF ExprInv
<1>a. Len(compiled) \in Nat /\ HardCeiling \in Nat /\ MaxCompiled \in Nat
      /\ MaxCompiled <= HardCeiling
      BY <1>0, ExpressionsAssumption DEF ExprTyped
<1>1. ASSUME Enqueue(m) PROVE ExprInv'
  <2>1. PICK e \in Exprs \ Handwritten :
           task[m] \in Making /\ task[m].at = "queue" /\ task[m].expr = e
        BY <1>0, <1>1 DEF Enqueue, At, ExprTyped, NoMatcher, Found, Making, Sweeping, Dropping
  <2>2. /\ compiled' = Append(compiled, e)
        /\ compiled' \in Seq(Exprs \ Handwritten)
        /\ Len(compiled') = Len(compiled) + 1
        /\ ToSet(compiled') = ToSet(compiled) \cup {e}
        BY <1>0, <1>1, <2>1, AppendedQueue DEF Enqueue, ExprTyped
  <2>3. PICK x \in Sweeping :
           /\ x.at = "trim" /\ x.expr = e /\ x.passes = Len(compiled) + 1
           /\ task' = [task EXCEPT ![m] = x]
    <3>1. PICK x : x = [at |-> "trim", expr |-> e, passes |-> Len(compiled')]
          OBVIOUS
    <3>2. x \in Sweeping /\ x.at = "trim" /\ x.expr = e /\ x.passes = Len(compiled) + 1
          BY <1>a, <2>2, <3>1 DEF Sweeping
    <3>3. task' = [task EXCEPT ![m] = x]
          BY <1>0, <1>1, <2>1, <3>1 DEF Enqueue, ExprTyped
    <3> QED
        BY <3>2, <3>3
  <2>4. Steps(m, x) /\ UNCHANGED <<held, used, current>>
        BY <1>1, <2>1, <2>3 DEF Enqueue, Steps, Working
  <2>5. /\ \A d \in Exprs : Upgrades(d)' => Upgrades(d)
        /\ \A n \in Matchers : Working(n)' => Generation[task'[n].expr] <= current'
        /\ task'[m] = x /\ \A n \in Matchers \ {m} : task'[n] = task[n]
        BY <1>0, <2>4, StepsUpgradeNothing
  <2>6. ExprTyped'
        BY <1>0, <2>2, <2>3, <2>4 DEF ExprTyped
  <2>7. NotAhead'
        BY <1>0, <2>4, <2>5 DEF NotAhead
  <2>8. \A d : Carried(d) => Carried(d)' \/ d = e
        BY <2>1, <2>5 DEF Carried, At
  <2>9. Reachable'
        BY <1>0, <2>2, <2>4, <2>5, <2>8 DEF Reachable
  <2>10. \A n \in Matchers : ~Trimming(n)
        BY <1>1 DEF Enqueue
  <2>11. OneTrims'
        BY <2>5, <2>10 DEF OneTrims, Trimming
  <2>12. Len(compiled) <= HardCeiling + 1
        BY <1>0, <1>a, <2>10 DEF QueueBounded, Trimming, At
  <2>13. QueueBounded'
    <3>1. At(m, "trim")' /\ task'[m].passes > 0
          BY <1>a, <2>3, <2>5 DEF At
    <3> QED
        BY <1>a, <2>2, <2>12, <3>1 DEF QueueBounded
  <2> QED
      BY <1>0, <2>4, <2>6, <2>7, <2>9, <2>11, <2>13 DEF ExprInv, HandwrittenStay
<1>2. ASSUME Trim(m) PROVE ExprInv'
  <2>1. PICK e \in Exprs \ Handwritten, rest \in Seq(Exprs \ Handwritten) :
           /\ e = Head(compiled) /\ rest = Tail(compiled)
           /\ Len(rest) = Len(compiled) - 1
           /\ ToSet(compiled) \subseteq ToSet(rest) \cup {e}
    <3>1. compiled \in Seq(Exprs \ Handwritten) /\ Len(compiled) > 0
          BY <1>0, <1>2, <1>a DEF Trim, ExprTyped
    <3>2. /\ Head(compiled) \in Exprs \ Handwritten
          /\ Tail(compiled) \in Seq(Exprs \ Handwritten)
          /\ Len(Tail(compiled)) = Len(compiled) - 1
          /\ ToSet(compiled) \subseteq ToSet(Tail(compiled)) \cup {Head(compiled)}
          BY <3>1, ShortenedQueue
    <3> QED
        BY <3>2
  <2>2. PICK d \in Exprs, p \in Nat :
           /\ task[m] = [at |-> "trim", expr |-> d, passes |-> p]
           /\ p > 0
           /\ task[m].at = "trim" /\ task[m].expr = d /\ task[m].passes = p
    <3>1. task[m] \in Sweeping
          BY <1>0, <1>2 DEF Trim, At, ExprTyped, NoMatcher, Found, Making, Sweeping, Dropping
    <3>2. PICK d \in Exprs, p \in Nat : task[m] = [at |-> "trim", expr |-> d, passes |-> p]
          BY <3>1 DEF Sweeping
    <3> QED
        BY <1>2, <3>2 DEF Trim
  <2>3. PICK q \in Nat : q = p - 1
        BY <2>2
  <2>4. Len(compiled) > MaxCompiled /\ UNCHANGED <<held, current>>
        BY <1>2 DEF Trim
  <2>5. ASSUME NEW x \in Sweeping \cup Dropping, Steps(m, x), x.at \in {"trim", "drop"},
               x.at = "drop" => x.victim = e,
               compiled' \in Seq(Exprs \ Handwritten),
               Len(compiled') <= HardCeiling + 1,
               ToSet(compiled) \subseteq ToSet(compiled') \cup {e},
               Upgrades(e) => e \in ToSet(compiled') \/ x.at = "drop",
               used' \in [Exprs -> BOOLEAN]
        PROVE  ExprInv'
    <3>1. /\ \A c \in Exprs : Upgrades(c)' => Upgrades(c)
          /\ \A n \in Matchers : Working(n)' => Generation[task'[n].expr] <= current'
          /\ task'[m] = x /\ \A n \in Matchers \ {m} : task'[n] = task[n]
          BY <1>0, <2>5, StepsUpgradeNothing
    <3>2. ExprTyped'
          BY <1>0, <2>4, <2>5 DEF ExprTyped, Steps
    <3>3. NotAhead'
          BY <1>0, <2>4, <3>1 DEF NotAhead
    <3>4. \A c : Carried(c) => Carried(c)'
          BY <2>2, <3>1 DEF Carried, At
    <3>5. x.at = "drop" => Carried(e)'
          BY <2>5, <3>1 DEF Carried, At
    <3>6. Reachable'
          BY <1>0, <2>4, <2>5, <3>1, <3>4, <3>5 DEF Reachable
    <3>7. \A n \in Matchers : Trimming(n)' => Trimming(n)
          BY <2>2, <3>1 DEF Trimming
    <3>8. OneTrims'
          BY <1>0, <3>7 DEF OneTrims
    <3>9. QueueBounded'
      <4>1. Len(compiled') \in Nat
            BY <2>5
      <4> QED
          BY <1>a, <2>5, <4>1 DEF QueueBounded
    <3> QED
        BY <1>0, <2>4, <3>2, <3>3, <3>6, <3>8, <3>9 DEF ExprInv, HandwrittenStay
  <2>6. PICK x : x = [at |-> "trim", expr |-> d, passes |-> q]
        OBVIOUS
  <2>7. PICK y : y = [at |-> "drop", expr |-> d, passes |-> q, victim |-> e]
        OBVIOUS
  <2>8. /\ x \in Sweeping /\ x.at = "trim" /\ x.expr = d
        /\ y \in Dropping /\ y.at = "drop" /\ y.expr = d /\ y.victim = e
        BY <2>6, <2>7 DEF Sweeping, Dropping
  <2>9. [task EXCEPT ![m].passes = @ - 1] = [task EXCEPT ![m] = x]
    <3>1. [task[m] EXCEPT !.passes = q] = x
          BY <2>2, <2>6
    <3> QED
        BY <1>0, <2>2, <2>3, <3>1 DEF ExprTyped
  <2>10. Working(m)
        BY <2>2 DEF Working
  <2>11. CASE ~Upgrades(e)
    <3>1. compiled' = rest /\ used' = used /\ task' = [task EXCEPT ![m] = x]
          BY <1>2, <2>1, <2>9, <2>11 DEF Trim
    <3>2. Steps(m, x)
          BY <2>2, <2>4, <2>8, <2>10, <3>1 DEF Steps
    <3>3. Len(rest) <= HardCeiling + 1
          BY <1>0, <1>a, <2>1 DEF QueueBounded
    <3> QED
        BY <1>0, <2>1, <2>5, <2>8, <2>11, <3>1, <3>2, <3>3 DEF ExprTyped
  <2>12. CASE Upgrades(e) /\ SecondChance(e, Len(rest))
    <3>1. /\ compiled' = Append(rest, e) /\ used' = [used EXCEPT ![e] = FALSE]
          /\ task' = [task EXCEPT ![m] = x]
          BY <1>2, <2>1, <2>9, <2>12 DEF Trim
    <3>2. Steps(m, x)
          BY <2>2, <2>4, <2>8, <2>10, <3>1 DEF Steps
    <3>3. /\ compiled' \in Seq(Exprs \ Handwritten)
          /\ Len(compiled') = Len(rest) + 1
          /\ ToSet(compiled') = ToSet(rest) \cup {e}
      <4>1. /\ Append(rest, e) \in Seq(Exprs \ Handwritten)
            /\ Len(Append(rest, e)) = Len(rest) + 1
            /\ ToSet(Append(rest, e)) = ToSet(rest) \cup {e}
            BY AppendedQueue
      <4> QED
          BY <3>1, <4>1
    <3>4. Len(compiled') <= HardCeiling + 1
          BY <1>a, <2>1, <2>12, <3>3 DEF SecondChance
    <3>5. used' \in [Exprs -> BOOLEAN]
          BY <1>0, <3>1 DEF ExprTyped
    <3> QED
        BY <2>1, <2>5, <2>8, <3>2, <3>3, <3>4, <3>5
  <2>13. CASE Upgrades(e) /\ ~SecondChance(e, Len(rest))
    <3>1. compiled' = rest /\ used' = used /\ task' = [task EXCEPT ![m] = y]
          BY <1>0, <1>2, <2>1, <2>2, <2>3, <2>7, <2>13 DEF Trim, ExprTyped
    <3>2. Steps(m, y)
          BY <2>2, <2>4, <2>8, <2>10, <3>1 DEF Steps
    <3>3. Len(rest) <= HardCeiling + 1
          BY <1>0, <1>a, <2>1 DEF QueueBounded
    <3> QED
        BY <1>0, <2>1, <2>5, <2>8, <3>1, <3>2, <3>3 DEF ExprTyped
  <2> QED
      BY <2>11, <2>12, <2>13
<1>3. ASSUME NEW x \in {NoMatcher} \cup Sweeping, Steps(m, x), x.at \in {"idle", "trim"},
             Trimming(m), Len(compiled) <= HardCeiling + 1,
             UNCHANGED <<used, compiled, current>>,
             held' \in [Exprs -> {"empty", "failed", "built"}],
             \A e \in Exprs : held'[e] = held[e] \/ (held[e] = "built" /\ held'[e] = "empty"),
             \A e \in Handwritten : held'[e] = held[e],
             \A e : At(m, "drop") /\ task[m].victim = e => held'[e] # "built"
      PROVE  ExprInv'
  <2>1. /\ \A c \in Exprs : Upgrades(c)' => Upgrades(c)
        /\ \A n \in Matchers : Working(n)' => Generation[task'[n].expr] <= current'
        /\ task'[m] = x /\ \A n \in Matchers \ {m} : task'[n] = task[n]
        BY <1>0, <1>3, StepsUpgradeNothing
  <2>2. ExprTyped'
        BY <1>0, <1>3 DEF ExprTyped, Steps
  <2>3. NotAhead'
        BY <1>0, <1>3, <2>1 DEF NotAhead
  <2>4. \A c : Carried(c) /\ held'[c] = "built" => Carried(c)'
        BY <1>3, <2>1 DEF Carried, At, Trimming
  <2>5. Reachable'
        BY <1>0, <1>3, <2>1, <2>4 DEF Reachable
  <2>6. HandwrittenStay'
        BY <1>0, <1>3 DEF HandwrittenStay
  <2>7. \A n \in Matchers : Trimming(n)' => Trimming(n)
        BY <1>3, <2>1 DEF Trimming
  <2>8. OneTrims' /\ QueueBounded'
        BY <1>0, <1>3, <1>a, <2>7 DEF OneTrims, QueueBounded
  <2> QED
      BY <2>2, <2>3, <2>5, <2>6, <2>8 DEF ExprInv
<1>4. ASSUME Drop(m) PROVE ExprInv'
  <2>1. task[m] \in Dropping /\ task[m].at = "drop"
        BY <1>0, <1>4 DEF Drop, At, ExprTyped, NoMatcher, Found, Making, Sweeping, Dropping
  <2>2. PICK v \in Exprs \ Handwritten : task[m].victim = v
        BY <2>1 DEF Dropping
  <2>3. PICK x : x = [at |-> "trim", expr |-> task[m].expr, passes |-> task[m].passes]
        OBVIOUS
  <2>4. x \in Sweeping /\ x.at = "trim" /\ x.expr = task[m].expr /\ x.expr \in Exprs
        BY <2>1, <2>3 DEF Sweeping, Dropping
  <2>5. task' = [task EXCEPT ![m] = x]
        BY <1>0, <1>4, <2>3 DEF Drop, ExprTyped
  <2>6. UNCHANGED <<used, compiled, current>>
        BY <1>4 DEF Drop
  <2>7. Steps(m, x)
        BY <2>1, <2>4, <2>5, <2>6 DEF Steps, Working
  <2>8. Trimming(m)
        BY <2>1 DEF Trimming
  <2>9. Len(compiled) <= HardCeiling + 1
    <3>1. ~ \E n \in Matchers : At(n, "trim") /\ task[n].passes > 0
          BY <1>0, <2>1, <2>8 DEF OneTrims, Trimming, At
    <3> QED
        BY <1>0, <1>a, <3>1 DEF QueueBounded
  <2>10. held' = [held EXCEPT ![v] = IF held[v] = "built" THEN "empty" ELSE held[v]]
        BY <1>4, <2>2 DEF Drop
  <2>11. /\ held' \in [Exprs -> {"empty", "failed", "built"}]
         /\ \A e \in Exprs : held'[e] = held[e] \/ (held[e] = "built" /\ held'[e] = "empty")
         /\ \A e \in Handwritten : held'[e] = held[e]
         /\ held'[v] # "built"
        BY <1>0, <2>10, ExpressionsAssumption DEF ExprTyped
  <2> QED
      BY <1>3, <2>2, <2>4, <2>6, <2>7, <2>8, <2>9, <2>11
<1>5. ASSUME TrimEnd(m) PROVE ExprInv'
  <2>1. Steps(m, NoMatcher) /\ NoMatcher.at = "idle"
        BY <1>5 DEF TrimEnd, Steps, NoMatcher
  <2>2. Trimming(m) /\ task[m].at = "trim"
        BY <1>5 DEF TrimEnd, Trimming, At
  <2>3. UNCHANGED <<held, used, compiled, current>>
        BY <1>5 DEF TrimEnd
  <2>4. Len(compiled) <= HardCeiling + 1
    <3>1. CASE Len(compiled) <= MaxCompiled
          BY <1>a, <3>1
    <3>2. CASE task[m].passes = 0
      <4>1. ~ \E n \in Matchers : At(n, "trim") /\ task[n].passes > 0
            BY <1>0, <2>2, <3>2 DEF OneTrims, Trimming, At
      <4> QED
          BY <1>0, <1>a, <4>1 DEF QueueBounded
    <3> QED
        BY <1>5, <3>1, <3>2 DEF TrimEnd
  <2>5. ~At(m, "drop")
        BY <2>2 DEF At
  <2> QED
      BY <1>0, <1>3, <2>1, <2>2, <2>3, <2>4, <2>5 DEF ExprTyped
<1> QED
    BY <1>1, <1>2, <1>4, <1>5

LEMMA ExprKept == ExprInv /\ [ExprNext]_exprVars => ExprInv'
<1> SUFFICES ASSUME ExprInv, [ExprNext]_exprVars PROVE ExprInv'
    OBVIOUS
<1>0. ExprTyped /\ NotAhead /\ Reachable
      BY DEF ExprInv
<1>1. CASE ReplaceEngine
  <2>1. current = 1 /\ current' = 2 /\ UNCHANGED <<held, used, compiled, task>>
        BY <1>1 DEF ReplaceEngine
  <2>2. NotAhead'
        BY <1>0, <2>1, ExpressionsAssumption DEF NotAhead, ExprTyped, Working, NoMatcher, Found,
                                                 Making, Sweeping, Dropping
  <2>3. ASSUME NEW e \in Exprs \ Handwritten, held[e] = "built", Upgrades(e)'
        PROVE  Upgrades(e)
    <3>1. Generation[e] # 2
          BY <1>0, <2>1, <2>3 DEF NotAhead
    <3> QED
        BY <2>1, <2>3, <3>1 DEF Upgrades, Working
  <2>4. Reachable'
        BY <1>0, <2>1, <2>3 DEF Reachable, Carried, At
  <2> QED
      BY <2>1, <2>2, <2>4 DEF ExprInv, ExprTyped, HandwrittenStay, OneTrims, QueueBounded, Trimming, At
<1>2. CASE UNCHANGED exprVars
      BY <1>2 DEF exprVars, ExprInv, ExprTyped, NotAhead, Reachable, HandwrittenStay, OneTrims,
                  QueueBounded, Upgrades, Carried, Working, Trimming, At
<1> QED
    BY <1>1, <1>2, UnlockedStepsKeep, LockedStepsKeep DEF ExprNext

\* What is compiled is bounded (rule.rs: LazyRegex::build, trim), whatever the
\* matchers, expressions and ceilings: the queue reaches whatever is built and
\* usable unless somebody is about to queue or drop it, it is at most one past
\* the hard ceiling when nobody trims and two while somebody does, and a rule
\* that a user wrote stays compiled.
THEOREM CompiledIsBoundedHolds == ExprSpec => []CompiledIsBounded
<1>1. ASSUME ExprInv PROVE CompiledIsBounded
  <2>1. Len(compiled) \in Nat /\ HardCeiling \in Nat
        BY <1>1, ExpressionsAssumption DEF ExprInv, ExprTyped
  <2>2. CASE \E m \in Matchers : Trimming(m)
    <3>1. PICK m \in Matchers : Trimming(m)
          BY <2>2
    <3>2. {n \in Matchers : Trimming(n)} = {m}
          BY <1>1, <3>1 DEF ExprInv, OneTrims
    <3>3. Cardinality({n \in Matchers : Trimming(n)}) = 1
          BY <3>2, FS_Singleton
    <3> QED
        BY <1>1, <2>1, <3>3 DEF ExprInv, Reachable, HandwrittenStay, QueueBounded, CompiledIsBounded
  <2>3. CASE ~ \E m \in Matchers : Trimming(m)
    <3>1. {n \in Matchers : Trimming(n)} = {}
          BY <2>3
    <3>2. Cardinality({n \in Matchers : Trimming(n)}) = 0
          BY <3>1, FS_EmptySet
    <3>3. Len(compiled) <= HardCeiling + 1
          BY <1>1, <2>1, <2>3 DEF ExprInv, QueueBounded, Trimming, At
    <3> QED
        BY <1>1, <2>1, <3>2, <3>3 DEF ExprInv, Reachable, HandwrittenStay, CompiledIsBounded
  <2> QED
      BY <2>2, <2>3
<1> QED
    BY <1>1, ExprInitially, ExprKept, PTL DEF ExprSpec

(***************************************************************************)
(* The verdict on a request.  Whatever rule sets the builder made, if the  *)
(* indexes hand on exactly what matches then exceptions win; that they do  *)
(* is checked by the model checker, over the tables built by folds.        *)
(***************************************************************************)
LEMMA LeastNatural ==
    ASSUME NEW T, T \subseteq Nat, T # {}
    PROVE  \E m \in T : \A i \in T : m <= i
<1>1. PICK m \in T : \A y \in T : ~ (<<y, m>> \in OpToRel(<, Nat))
      BY NatLessThanWellFounded, WFMin
<1>2. \A y \in T : ~(y < m)
      BY <1>1 DEF OpToRel
<1> QED
    BY <1>2

LEMMA RankTyped ==
    ASSUME NEW r
    PROVE  /\ RuleRank(r) \in Nat /\ RuleRank(r) <= 3
           /\ r.allowlist => RuleRank(r) \in {1, 3}
           /\ ~r.allowlist => RuleRank(r) \in {0, 2}
           /\ ~r.allowlist /\ RuleRank(r) = 2 => r.opts.important
BY DEF RuleRank

\* No rule carries more modifiers than there are.
LEMMA SpecificityBounded ==
    \E n \in Nat : \A o : Specificity(o) \in Nat /\ Specificity(o) <= n
<1> DEFINE flags == {"important", "badfilter"}
           kinds == {"dnstype", "client", "ctag", "denyallow", "dnsrewrite"}
<1>1. IsFiniteSet(flags) /\ IsFiniteSet(kinds)
  <2>1. ASSUME NEW a, NEW b PROVE IsFiniteSet({a, b})
    <3>1. {a, b} = {a} \cup {b}
          OBVIOUS
    <3>2. IsFiniteSet({a}) /\ IsFiniteSet({b})
          BY FS_Singleton, Zenon
    <3>3. IsFiniteSet({a} \cup {b})
          BY <3>2, FS_Union
    <3> QED
        BY <3>1, <3>3
  <2>2. IsFiniteSet({"dnstype", "client"}) /\ IsFiniteSet({"ctag", "denyallow"})
        /\ IsFiniteSet({"dnsrewrite"}) /\ IsFiniteSet(flags)
        BY <2>1, FS_Singleton
  <2>3. kinds = ({"dnstype", "client"} \cup {"ctag", "denyallow"}) \cup {"dnsrewrite"}
        OBVIOUS
  <2>4. IsFiniteSet({"dnstype", "client"} \cup {"ctag", "denyallow"})
        BY <2>2, FS_Union
  <2>5. IsFiniteSet(({"dnstype", "client"} \cup {"ctag", "denyallow"}) \cup {"dnsrewrite"})
        BY <2>2, <2>4, FS_Union
  <2> QED
      BY <2>2, <2>3, <2>5
<1>2. PICK x, y : x = Cardinality(flags) /\ y = Cardinality(kinds)
      OBVIOUS
<1>3. x \in Nat /\ y \in Nat
      BY <1>1, <1>2, FS_CardinalityType
<1>4. ASSUME NEW o
      PROVE  Specificity(o) \in Nat /\ Specificity(o) <= x + y
  <2>1. PICK f, l : f = {g \in flags : o[g]} /\ l = {g \in kinds : o[g] # {}}
        OBVIOUS
  <2>2. f \in SUBSET flags /\ l \in SUBSET kinds
        BY <2>1
  <2>3. Specificity(o) = Cardinality(f) + Cardinality(l)
        BY <2>1, Zenon DEF Specificity
  <2> HIDE DEF flags, kinds
  <2>4. /\ IsFiniteSet(f) /\ Cardinality(f) <= x
        /\ IsFiniteSet(l) /\ Cardinality(l) <= y
        BY <1>1, <1>2, <2>2, FS_Subset
  <2>5. Cardinality(f) \in Nat /\ Cardinality(l) \in Nat
        BY <2>4, FS_CardinalityType
  <2> QED
      BY <1>3, <2>3, <2>4, <2>5
<1> HIDE DEF flags, kinds
<1>5. x + y \in Nat
      BY <1>3
<1> QED
    BY <1>4, <1>5

\* One of several candidates is left, and none of them ranks above it.
LEMMA BestIsTheBest ==
    ASSUME NEW s, NEW ids, ids \subseteq Nat, ids # {}
    PROVE  /\ Best(s, ids) # {}
           /\ \A i \in Best(s, ids) : /\ i \in ids
                                      /\ \A j \in ids : RuleRank(s.net[j]) <= RuleRank(s.net[i])
<1> DEFINE R(i) == RuleRank(s.net[i])
           S(i) == Specificity(s.net[i].opts)
<1>1. \A i : R(i) \in Nat /\ R(i) <= 3
      BY RankTyped
<1>2. PICK n \in Nat : \A i : S(i) \in Nat /\ S(i) <= n
  <2>1. PICK n \in Nat : \A o : Specificity(o) \in Nat /\ Specificity(o) <= n
        BY SpecificityBounded
  <2> QED
      BY <2>1
<1>3. \A i, j : HigherPriority(s, j, i) <=>
          IF R(j) # R(i) THEN R(j) > R(i) ELSE IF S(j) # S(i) THEN S(j) > S(i) ELSE j < i
      BY DEF HigherPriority
<1> HIDE DEF R, S
\* The highest rank, the most modifiers, the first of those.
<1>4. PICK t \in ids : \A j \in ids : R(j) <= R(t)
  <2> DEFINE T == {3 - R(i) : i \in ids}
  <2>1. T \subseteq Nat /\ T # {}
    <3>1. \A i \in ids : 3 - R(i) \in Nat
          BY <1>1
    <3>2. PICK i \in ids : TRUE
          OBVIOUS
    <3>3. 3 - R(i) \in T
          BY <3>2
    <3> QED
        BY <3>1, <3>3
  <2>2. PICK m \in T : \A i \in T : m <= i
    <3> HIDE DEF T
    <3> QED
        BY <2>1, LeastNatural
  <2>3. PICK t \in ids : m = 3 - R(t)
        OBVIOUS
  <2>4. \A j \in ids : 3 - R(t) <= 3 - R(j)
        BY <2>2, <2>3
  <2>5. \A j \in ids : R(j) <= R(t)
        BY <1>1, <2>4
  <2> QED
      BY <2>5
<1>5. PICK u \in ids : R(u) = R(t) /\ \A j \in ids : R(j) = R(t) => S(j) <= S(u)
  <2> DEFINE T == {n - S(i) : i \in {j \in ids : R(j) = R(t)}}
  <2>1. T \subseteq Nat /\ T # {}
        BY <1>2
  <2>2. PICK m \in T : \A i \in T : m <= i
    <3> HIDE DEF T
    <3> QED
        BY <2>1, LeastNatural
  <2>3. PICK u \in ids : R(u) = R(t) /\ m = n - S(u)
        OBVIOUS
  <2>4. \A j \in ids : R(j) = R(t) => n - S(u) <= n - S(j)
        BY <2>2, <2>3
  <2>5. \A j \in ids : R(j) = R(t) => S(j) <= S(u)
        BY <1>2, <2>4
  <2> QED
      BY <2>3, <2>5
<1>6. PICK v \in ids : /\ R(v) = R(t) /\ S(v) = S(u)
                       /\ \A j \in ids : R(j) = R(t) /\ S(j) = S(u) => v <= j
  <2> DEFINE T == {j \in ids : R(j) = R(t) /\ S(j) = S(u)}
  <2>1. T \subseteq Nat /\ T # {}
        BY <1>5
  <2>2. PICK m \in T : \A i \in T : m <= i
    <3> HIDE DEF T
    <3> QED
        BY <2>1, LeastNatural
  <2> QED
      BY <2>2
<1>7. ASSUME NEW j \in ids \ {v}
      PROVE  ~HigherPriority(s, j, v)
  <2>1. R(j) <= R(v) /\ R(j) \in Nat /\ R(v) \in Nat
        BY <1>1, <1>4, <1>6
  <2>2. R(j) = R(v) => S(j) <= S(v)
        BY <1>5, <1>6
  <2>3. R(j) = R(v) /\ S(j) = S(v) => v <= j
        BY <1>6
  <2>4. S(j) \in Nat /\ S(v) \in Nat /\ j \in Nat /\ v \in Nat
        BY <1>2
  <2> QED
      BY <1>3, <2>1, <2>2, <2>3, <2>4
<1>8. v \in Best(s, ids)
      BY <1>7 DEF Best
<1>9. ASSUME NEW i \in Best(s, ids)
      PROVE  i \in ids /\ \A j \in ids : R(j) <= R(i)
  <2>1. i \in ids /\ \A j \in ids \ {i} : ~HigherPriority(s, j, i)
        BY DEF Best
  <2>2. ASSUME NEW j \in ids PROVE R(j) <= R(i)
    <3>1. CASE j = i
          BY <1>1, <3>1
    <3>2. CASE j # i
      <4>1. ~HigherPriority(s, j, i)
            BY <2>1, <3>2
      <4>2. ~(R(j) > R(i))
            BY <1>1, <1>3, <4>1
      <4> QED
          BY <1>1, <4>2
    <3> QED
        BY <3>1, <3>2
  <2> QED
      BY <2>1, <2>2
<1> QED
    BY <1>8, <1>9 DEF R

\* A built set whose indexes hide nothing considers what speaks or rewrites.
LEMMA BestSpeaks ==
    ASSUME NEW s, NEW req \in Requests, HidesNothing(s), DOMAIN s.net \subseteq Nat
    PROVE  LET best == MatchNetwork(s, req).best
           IN  /\ Speaking(s, req) # {} => best # {}
               /\ \A i \in best : /\ i \in Speaking(s, req)
                                  /\ \A j \in Speaking(s, req) :
                                        RuleRank(s.net[j]) <= RuleRank(s.net[i])
<1> DEFINE C == Considered(s, req)
           W == {i \in C : s.net[i].opts.dnsrewrite # {}}
<1>1. C = {i \in DOMAIN s.net : /\ SaysAnything(s.net[i], req)
                                /\ CanonicalText(s.net[i]) \notin s.badfilter}
      BY DEF HidesNothing
<1>2. MatchNetwork(s, req).best = Best(s, C \ W)
      BY DEF MatchNetwork
<1> HIDE DEF C
<1>3. C \ W = Speaking(s, req)
      BY <1>1 DEF Speaking
<1>4. Speaking(s, req) \subseteq Nat
      BY DEF Speaking
<1>5. CASE Speaking(s, req) = {}
  <2>1. Best(s, {}) = {}
        BY DEF Best
  <2> QED
      BY <1>2, <1>3, <1>5, <2>1
<1>6. CASE Speaking(s, req) # {}
  <2>1. PICK ids : ids = Speaking(s, req)
        OBVIOUS
  <2>2. /\ Best(s, ids) # {}
        /\ \A i \in Best(s, ids) : /\ i \in ids
                                   /\ \A j \in ids : RuleRank(s.net[j]) <= RuleRank(s.net[i])
        BY <1>4, <1>6, <2>1, BestIsTheBest
  <2>3. MatchNetwork(s, req).best = Best(s, ids)
        BY <1>2, <1>3, <2>1
  <2> QED
      BY <2>1, <2>2, <2>3, Zenon
<1> QED
    BY <1>5, <1>6

LEMMA ExceptionsWinIfNothingIsHidden ==
    ASSUME NEW allow, NEW block, HidesNothing(allow), HidesNothing(block),
           DOMAIN allow.net \subseteq Nat, DOMAIN block.net \subseteq Nat
    PROVE  ExceptionsWin(allow, block)
<1> SUFFICES ASSUME NEW req \in Requests,
                    \/ Speaking(allow, req) # {}
                    \/ /\ \E i \in Speaking(block, req) : block.net[i].allowlist
                       /\ ~\E i \in Speaking(block, req) :
                             ~block.net[i].allowlist /\ block.net[i].opts.important
             PROVE  MatchRequest(allow, block, req).reason # "FilteredBlockList"
    BY DEF ExceptionsWin
<1> DEFINE a == AllowVerdict(allow, req)
           b == BlockVerdict(block, req)
<1>0. \A x, y, z : Verdict(x, y, z).reason = x
      BY DEF Verdict
<1>1. a.reason \in {"NotFilteredAllowList", "NotFilteredNotFound"}
      /\ (MatchNetwork(allow, req).best # {} => a.reason = "NotFilteredAllowList")
      BY <1>0 DEF AllowVerdict, NoMatch
<1>2. MatchRequest(allow, block, req) \in {NoMatch, a, b}
      /\ (a.reason = "NotFilteredAllowList" => MatchRequest(allow, block, req) \in {NoMatch, a})
      BY <1>0 DEF MatchRequest, NoMatch
<1> HIDE DEF a
<1>3. NoMatch.reason # "FilteredBlockList"
      BY <1>0 DEF NoMatch
<1>4. CASE Speaking(allow, req) # {}
  <2>1. MatchNetwork(allow, req).best # {}
        BY <1>4, BestSpeaks
  <2> QED
      BY <1>1, <1>2, <1>3, <2>1
<1>5. CASE /\ \E i \in Speaking(block, req) : block.net[i].allowlist
           /\ ~\E i \in Speaking(block, req) :
                 ~block.net[i].allowlist /\ block.net[i].opts.important
  <2>1. PICK e \in Speaking(block, req) : block.net[e].allowlist
        BY <1>5
  <2>2. PICK m : m = MatchNetwork(block, req)
        OBVIOUS
  <2>3. /\ m.best # {}
        /\ \A i \in m.best : /\ i \in Speaking(block, req)
                             /\ RuleRank(block.net[e]) <= RuleRank(block.net[i])
        BY <2>1, <2>2, BestSpeaks
  <2>4. ASSUME NEW i \in m.best
        PROVE  block.net[i].allowlist
    <3>1. RuleRank(block.net[e]) \in {1, 3}
          BY <2>1, RankTyped
    <3>2. RuleRank(block.net[i]) \in Nat /\ RuleRank(block.net[e]) <= RuleRank(block.net[i])
          BY <2>3, RankTyped
    <3>3. SUFFICES ASSUME ~block.net[i].allowlist PROVE FALSE
          OBVIOUS
    <3>4. RuleRank(block.net[i]) = 2
          BY <3>1, <3>2, <3>3, RankTyped
    <3>5. block.net[i].opts.important
          BY <3>3, <3>4, RankTyped
    <3> QED
        BY <1>5, <2>3, <3>3, <3>5
  <2>5. \E i \in m.best : block.net[i].allowlist
        BY <2>3, <2>4
  <2>6. b.reason \in {"RewrittenRule", "NotFilteredAllowList"}
        BY <1>0, <2>2, <2>3, <2>5 DEF BlockVerdict
  <2> QED
      BY <1>1, <1>2, <1>3, <2>6
<1> QED
    BY <1>4, <1>5

\* The lines that have been read are a sequence, so rules are numbered.
LinesInOrder == \E S : lines \in Seq(S)

LEMMA LinesStayInOrder == EngineSpec => []LinesInOrder
<1>1. EngineInit => LinesInOrder
      BY EngineAssumption DEF EngineInit, LinesInOrder
<1>2. LinesInOrder /\ [EngineNext]_lines => LinesInOrder'
  <2> SUFFICES ASSUME LinesInOrder, [EngineNext]_lines
               PROVE  LinesInOrder'
      OBVIOUS
  <2>1. PICK S : lines \in Seq(S)
        BY DEF LinesInOrder
  <2>2. ASSUME NEW x, lines' = Append(lines, x)
        PROVE  LinesInOrder'
    <3>1. lines \in Seq(S \cup {x})
          BY <2>1
    <3>2. Append(lines, x) \in Seq(S \cup {x})
          BY <3>1
    <3> QED
        BY <2>2, <3>2 DEF LinesInOrder
  <2>3. CASE lines' = lines
        BY <2>3 DEF LinesInOrder
  <2> QED
      BY <2>2, <2>3 DEF EngineNext, AddLine
<1> QED
    BY <1>1, <1>2, PTL DEF EngineSpec

LEMMA RulesNumbered ==
    ASSUME LinesInOrder, NEW set
    PROVE  DOMAIN RuleSet(set).net \subseteq Nat
<1>1. RuleSet(set).net = RulesOf(set, "network")
      BY DEF RuleSet, Filed
<1>2. DOMAIN lines \subseteq Nat
  <2>1. PICK S : lines \in Seq(S)
        BY DEF LinesInOrder
  <2> QED
      BY <2>1
<1>3. DOMAIN RulesOf(set, "network") \subseteq DOMAIN lines
      BY DEF RulesOf
<1> QED
    BY <1>1, <1>2, <1>3

\* Exceptions hold wherever the indexes hide nothing: for any lines, whatever
\* order they were read in, RuleSet::consider leaves a rule that no other
\* outranks, and Engine::match_request blocks only by it or by a hosts line.
THEOREM ExceptionsHoldIfNothingIsHidden ==
    EngineSpec => [](IndexesHideNothing => ExceptionsHold)
<1>1. LinesInOrder => (IndexesHideNothing => ExceptionsHold)
  <2> SUFFICES ASSUME LinesInOrder, IndexesHideNothing
               PROVE  ExceptionsHold
      OBVIOUS
  <2>1. PICK allow, block : allow = RuleSet("allow") /\ block = RuleSet("block")
        OBVIOUS
  <2>2. HidesNothing(allow) /\ HidesNothing(block)
        BY <2>1 DEF IndexesHideNothing
  <2>3. DOMAIN allow.net \subseteq Nat /\ DOMAIN block.net \subseteq Nat
        BY <2>1, RulesNumbered
  <2>4. ExceptionsWin(allow, block)
        BY <2>2, <2>3, ExceptionsWinIfNothingIsHidden
  <2> QED
      BY <2>1, <2>4 DEF ExceptionsHold
<1> QED
    BY <1>1, LinesStayInOrder, PTL
=============================================================================
