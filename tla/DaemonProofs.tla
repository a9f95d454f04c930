---------------------------- MODULE DaemonProofs ----------------------------
(***************************************************************************)
(* Proofs about the parts of the daemon that keep to themselves: the locks *)
(* of the API's handlers, the program's own update, the certificate, the   *)
(* sessions and the login throttle, the statistics.  They share no state,  *)
(* and every theorem is about the specification of one of them.            *)
(***************************************************************************)
EXTENDS StateLocks, Sessions, SelfUpdate, Certificates, Stats,
        SequenceTheorems, FiniteSetTheorems, TLAPS

-----------------------------------------------------------------------------
(* The locks.                                                              *)

Wanted == [lock : Locks, mode : {"read", "write"}]

\* The sections in which no lock is asked for but the configuration's, inside
\* the lists'.
OrderlySections ==
    {<<q>> : q \in Wanted}
        \cup {<<q, c>> : q \in {R("filters"), W("filters")}, c \in {R("config"), W("config")}}

Orderly == Seq(OrderlySections)

\* A handler that goes on to what another does is as orderly as both.
LEMMA OrderlyTogether ==
    ASSUME NEW a \in Orderly, NEW b \in Orderly
    PROVE  a \o b \in Orderly
BY ConcatProperties DEF Orderly

\* The sections handlers are made of.
LEMMA OrderlyParts ==
    /\ <<<<R("config")>>>> \in Orderly
    /\ <<<<W("config")>>>> \in Orderly
    /\ <<<<R("filters")>>>> \in Orderly
    /\ <<<<W("filters")>>>> \in Orderly
    /\ <<<<R("filters"), W("config")>>>> \in Orderly
    /\ <<<<R("filters"), R("config")>>>> \in Orderly
    /\ <<<<W("config")>>, <<W("filters")>>>> \in Orderly
    /\ <<<<R("filters")>>, <<R("filters")>>>> \in Orderly
<1>1. /\ R("config") \in Wanted /\ W("config") \in Wanted
      /\ R("filters") \in Wanted /\ W("filters") \in Wanted
  BY DEF Wanted, Locks, R, W
<1>2. \A s \in OrderlySections : <<s>> \in Orderly
  BY DEF Orderly
<1>3. \A s, t \in OrderlySections : <<s, t>> \in Orderly
  BY DEF Orderly
<1>4. /\ \A q \in Wanted : <<q>> \in OrderlySections
      /\ <<R("filters"), W("config")>> \in OrderlySections
      /\ <<R("filters"), R("config")>> \in OrderlySections
  BY DEF OrderlySections
<1> QED
  BY <1>1, <1>2, <1>3, <1>4

\* No handler of Ordered takes the lists' lock inside the configuration's, or
\* one lock twice.
LEMMA OrderedIsOrderly == Ordered \subseteq Orderly
<1>1. SaveConfig \in Orderly /\ Read \in Orderly
  BY OrderlyParts DEF SaveConfig, Read
<1>2. Change \in Orderly
  BY <1>1, OrderlyParts, OrderlyTogether DEF Change
<1>3. SaveFilters \in Orderly
  <2>1. <<<<R("filters"), W("config")>>>> \o SaveConfig \in Orderly
    BY <1>1, OrderlyParts, OrderlyTogether
  <2> QED
    BY <2>1, OrderlyParts, OrderlyTogether DEF SaveFilters
<1>4. ChangeRules \in Orderly
  BY <1>3, OrderlyParts, OrderlyTogether DEF ChangeRules
<1>5. Read \o Read \in Orderly /\ Read \o Change \in Orderly /\ Change \o Read \in Orderly
  BY <1>1, <1>2, OrderlyTogether
<1>6. <<<<W("config")>>>> \o Read \o SaveConfig \in Orderly
  BY <1>1, OrderlyParts, OrderlyTogether
<1>7. Read \o Read \o Change \in Orderly
  BY <1>2, <1>5, OrderlyTogether
<1>8. <<<<W("filters")>>>> \o ChangeRules \in Orderly
  BY <1>4, OrderlyParts, OrderlyTogether
<1>9. <<<<R("filters")>>, <<R("filters")>>>> \o ChangeRules \in Orderly
  BY <1>4, OrderlyParts, OrderlyTogether
<1>10. RefreshDue \in Orderly
  <2>1. Read \o <<<<R("filters")>>, <<R("filters")>>>> \in Orderly
    BY <1>1, OrderlyParts, OrderlyTogether
  <2> QED
    BY <2>1, <1>4, OrderlyTogether DEF RefreshDue
<1>11. ServicesSet \in Orderly
  <2>1. <<<<W("config")>>, <<W("filters")>>>> \o SaveConfig \in Orderly
    BY <1>1, OrderlyParts, OrderlyTogether
  <2> QED
    BY <2>1, OrderlyParts, OrderlyTogether DEF ServicesSet
<1>12. FilteringStatus \in Orderly
  BY OrderlyParts DEF FilteringStatus
<1> QED
  BY <1>1, <1>2, <1>4, <1>5, <1>6, <1>7, <1>8, <1>9, <1>10, <1>11, <1>12
     DEF Ordered, ClientsShow, ClientsAdd, ClientsDelete, ClientsUpdate, ClientFind, AccessList,
         AccessSet, ServicesShow, EncryptionShow, EncryptionSet, ChangeLanguage, ProfileUpdate,
         LogIn, InstallConfigure, Mobileconfig, RedirectToHttps, RequireAuth, ServeUi, ServeDoh,
         FilteringConfig, AddList, RemoveList, SetList, RefreshLists, SetRules, RewriteList,
         RewriteAdd, RewriteDelete, RewriteUpdate, RewriteSettings, SafeSearchStatus,
         SafeSearchSettings, SafeSearchSet, LogShow, LogConfig, LogConfigLegacy, StatsShow,
         StatsConfig, StatsConfigLegacy, DnsInfo, SetDnsConfig, SetProtection, CheckVersion,
         InstallUpdate, TestUpstream, ExpirePause, RotateLog

\* A handler is in a section of what it runs, holds a part of the section's
\* locks, and waits only for the next of them.
InSection(h) ==
    /\ section[h] \in 1..Len(runs[h])
    /\ taken[h] \in 0..Len(Section(h))
    /\ waiting[h] => taken[h] < Len(Section(h))

HoldsNothing(h) == taken[h] = 0 /\ ~waiting[h]

LocksInv ==
    /\ runs \in [Handlers -> Orderly]
    /\ section \in [Handlers -> Nat]
    /\ taken \in [Handlers -> Nat]
    /\ waiting \in [Handlers -> BOOLEAN]
    /\ \A h \in Handlers : IF runs[h] = Returned THEN HoldsNothing(h) ELSE InSection(h)

\* The sections of an orderly handler, one by one.
LEMMA SectionShape ==
    ASSUME NEW s \in OrderlySections
    PROVE  /\ s \in Seq(Wanted)
           /\ Len(s) \in 1..2
           /\ Len(s) = 2 => s[1].lock = "filters" /\ s[2].lock = "config"
<1>1. CASE \E q \in Wanted : s = <<q>>
  BY <1>1
<1>2. CASE \E q \in {R("filters"), W("filters")}, c \in {R("config"), W("config")} : s = <<q, c>>
  <2>1. PICK q \in {R("filters"), W("filters")}, c \in {R("config"), W("config")} : s = <<q, c>>
    BY <1>2
  <2>2. q \in Wanted /\ c \in Wanted /\ q.lock = "filters" /\ c.lock = "config"
    BY DEF R, W, Wanted, Locks
  <2> QED
    BY <2>1, <2>2
<1> QED
  BY <1>1, <1>2 DEF OrderlySections

LEMMA LocksInvHolds ==
    ASSUME Kinds \subseteq Ordered
    PROVE  LocksSpec => []LocksInv
<1>0. Kinds \subseteq Orderly /\ Returned \in Orderly
  BY OrderedIsOrderly DEF Orderly, Returned
<1>1. LocksInit => LocksInv
  BY <1>0 DEF LocksInit, LocksInv, HoldsNothing
<1>2. ASSUME LocksInv, [LocksNext]_lockVars
      PROVE  LocksInv'
  <2>0. /\ runs \in [Handlers -> Orderly]
        /\ section \in [Handlers -> Nat]
        /\ taken \in [Handlers -> Nat]
        /\ waiting \in [Handlers -> BOOLEAN]
        /\ \A h \in Handlers : IF runs[h] = Returned THEN HoldsNothing(h) ELSE InSection(h)
    BY <1>2 DEF LocksInv
  <2>1. CASE UNCHANGED lockVars
    BY <2>0, <2>1 DEF lockVars, LocksInv, HoldsNothing, InSection, Section
  <2>2. ASSUME NEW h \in Handlers,
               \A g \in Handlers \ {h} : /\ runs'[g] = runs[g] /\ section'[g] = section[g]
                                        /\ taken'[g] = taken[g] /\ waiting'[g] = waiting[g]
        PROVE  \A g \in Handlers \ {h} :
                   (IF runs[g] = Returned THEN HoldsNothing(g) ELSE InSection(g))'
    BY <2>0, <2>2 DEF HoldsNothing, InSection, Section
  <2>3. ASSUME NEW h \in Handlers, NEW kind \in Kinds, Start(h, kind)
        PROVE  LocksInv'
    <3>1. /\ kind \in Orderly
          /\ runs' \in [Handlers -> Orderly]
          /\ section' \in [Handlers -> Nat]
          /\ taken' = taken /\ waiting' = waiting
          /\ runs'[h] = kind /\ section'[h] = 1
          /\ taken[h] = 0 /\ ~waiting[h]
      BY <1>0, <2>0, <2>3 DEF Start, HoldsNothing
    <3>2. CASE kind = Returned
      BY <2>0, <2>2, <2>3, <3>1, <3>2 DEF Start, LocksInv, HoldsNothing
    <3>3. CASE kind # Returned
      <4>1. Len(kind) \in Nat \ {0}
        BY <3>1, <3>3 DEF Orderly, Returned
      <4>2. kind[1] \in OrderlySections
        BY <3>1, <4>1 DEF Orderly
      <4>3. Len(kind[1]) \in 1..2
        BY <4>2, SectionShape
      <4>4. InSection(h)'
        BY <3>1, <4>1, <4>3 DEF InSection, Section
      <4> QED
        BY <2>0, <2>2, <2>3, <3>1, <3>3, <4>4 DEF Start, LocksInv
    <3> QED
      BY <3>2, <3>3
  <2>4. ASSUME NEW h \in Handlers, Ask(h)
        PROVE  LocksInv'
    <3>1. InSection(h) /\ taken[h] # Len(Section(h))
      BY <2>0, <2>4 DEF Ask, AtEnd
    <3>2. Len(Section(h)) \in Nat
      <4>1. runs[h][section[h]] \in OrderlySections
        BY <2>0, <3>1 DEF InSection, Orderly
      <4> QED
        BY <4>1, SectionShape DEF Section
    <3>3. InSection(h)'
      BY <2>0, <2>4, <3>1, <3>2 DEF Ask, InSection, Section
    <3> QED
      BY <2>0, <2>2, <2>4, <3>3 DEF Ask, LocksInv
  <2>5. ASSUME NEW h \in Handlers, Grant(h)
        PROVE  LocksInv'
    <3>1. runs[h] # Returned /\ InSection(h) /\ waiting[h]
      BY <2>0, <2>5 DEF Grant, HoldsNothing
    <3>2. Len(Section(h)) \in Nat
      <4>1. runs[h][section[h]] \in OrderlySections
        BY <2>0, <3>1 DEF InSection, Orderly
      <4> QED
        BY <4>1, SectionShape DEF Section
    <3>3. InSection(h)'
      BY <2>0, <2>5, <3>1, <3>2 DEF Grant, InSection, Section
    <3>4. /\ runs' = runs /\ section' = section
          /\ taken' \in [Handlers -> Nat] /\ waiting' \in [Handlers -> BOOLEAN]
          /\ \A g \in Handlers \ {h} : taken'[g] = taken[g] /\ waiting'[g] = waiting[g]
      BY <2>0, <2>5 DEF Grant
    <3>5. \A g \in Handlers \ {h} :
              (IF runs[g] = Returned THEN HoldsNothing(g) ELSE InSection(g))'
      BY <2>2, <3>4
    <3> QED
      BY <2>0, <3>1, <3>3, <3>4, <3>5 DEF LocksInv
  <2>6. ASSUME NEW h \in Handlers, Return(h), runs[h] # Returned, AtEnd(h), UNCHANGED waiting,
               taken' = [taken EXCEPT ![h] = 0]
        PROVE  LocksInv'
    <3>1. ~waiting[h]
      <4>1. runs[h][section[h]] \in OrderlySections
        BY <2>0, <2>6 DEF InSection, Orderly
      <4>2. Len(Section(h)) \in Nat
        BY <4>1, SectionShape DEF Section
      <4> QED
        BY <2>0, <2>6, <4>2 DEF AtEnd, InSection
    <3> QED
      BY <1>0, <2>0, <2>2, <2>6, <3>1 DEF Return, LocksInv, HoldsNothing
  <2>7. ASSUME NEW h \in Handlers, Release(h)
        PROVE  LocksInv'
    <3>1. CASE section[h] = Len(runs[h])
      BY <2>6, <2>7, <3>1 DEF Release
    <3>2. CASE section[h] # Len(runs[h])
      <4>1. /\ runs[h] # Returned /\ InSection(h) /\ AtEnd(h)
            /\ runs' = runs /\ waiting' = waiting
            /\ section' \in [Handlers -> Nat] /\ section'[h] = section[h] + 1
            /\ taken' \in [Handlers -> Nat] /\ taken'[h] = 0
        BY <2>0, <2>7, <3>2 DEF Release
      <4>2. Len(runs[h]) \in Nat /\ section[h] + 1 \in 1..Len(runs[h])
        BY <2>0, <3>2, <4>1 DEF InSection, Orderly
      <4>3. runs[h][section[h]] \in OrderlySections /\ runs[h][section[h] + 1] \in OrderlySections
        BY <2>0, <4>1, <4>2 DEF InSection, Orderly
      <4>4. Len(Section(h)) \in Nat /\ Len(runs[h][section[h] + 1]) \in Nat
        BY <4>3, SectionShape DEF Section
      <4>5. ~waiting[h]
        BY <2>0, <4>1, <4>4 DEF AtEnd, InSection
      <4>6. InSection(h)'
        BY <4>1, <4>2, <4>4, <4>5 DEF InSection, Section
      <4> QED
        BY <2>0, <2>2, <2>7, <3>2, <4>1, <4>6 DEF Release, LocksInv
    <3> QED
      BY <3>1, <3>2
  <2>8. ASSUME NEW h \in Handlers, GiveUp(h)
        PROVE  LocksInv'
    BY <2>6, <2>8 DEF GiveUp
  <2> QED
    BY <1>2, <2>1, <2>3, <2>4, <2>5, <2>7, <2>8 DEF LocksNext
<1> QED
  BY <1>1, <1>2, PTL DEF LocksSpec

\* What a handler that waits may hold: nothing, or the lists' lock, in which
\* case it waits for the configuration's.
LEMMA WaitersHoldLittle ==
    ASSUME LocksInv, NEW h \in Handlers, waiting[h]
    PROVE  /\ Next(h) \in Wanted
           /\ \A q \in Held(h) : q.lock = "filters" /\ Next(h).lock = "config"
<1>1. /\ runs[h] # Returned /\ InSection(h) /\ taken[h] \in Nat
      /\ runs[h] \in Orderly
  BY DEF LocksInv, HoldsNothing
<1>2. Section(h) \in OrderlySections
  BY <1>1 DEF InSection, Orderly, Section
<1> DEFINE s == Section(h)
<1>3. /\ s \in Seq(Wanted) /\ Len(s) \in 1..2
      /\ Len(s) = 2 => s[1].lock = "filters" /\ s[2].lock = "config"
  BY <1>2, SectionShape
<1>4. taken[h] + 1 \in 1..Len(s)
  BY <1>1, <1>3 DEF InSection
<1>5. Next(h) \in Wanted
  BY <1>3, <1>4 DEF Next
<1>6. ASSUME NEW q \in Held(h)
      PROVE  q.lock = "filters" /\ Next(h).lock = "config"
  <2>1. PICK i \in 1..taken[h] : q = s[i]
    BY <1>1, <1>6 DEF Held
  <2>2. i = 1 /\ taken[h] = 1 /\ Len(s) = 2
    <3>1. PICK n \in Nat : n = taken[h]
      BY <1>1
    <3>2. PICK m \in 1..2 : m = Len(s)
      BY <1>3
    <3>3. i \in 1..n /\ n + 1 \in 1..m
      BY <1>4, <2>1, <3>1, <3>2
    <3>4. i = 1 /\ n = 1 /\ m = 2
      BY <3>3
    <3> QED
      BY <3>1, <3>2, <3>4
  <2> QED
    BY <1>3, <2>1, <2>2 DEF Next
<1> QED
  BY <1>5, <1>6

\* Handlers never wait for one another in a circle, whatever is running, as
\* long as every handler takes the locks in the order of save_filters
\* (state.rs:193-216): every one of Ordered does.
THEOREM NoCircularWaitHolds ==
    ASSUME Kinds \subseteq Ordered
    PROVE  LocksSpec => []NoCircularWait
<1>1. LocksInv => NoCircularWait
  <2> SUFFICES ASSUME LocksInv, NEW S \in (SUBSET Handlers) \ {{}},
                      \A h \in S : waiting[h] /\ Blockers(h) \cap S # {}
               PROVE  FALSE
    BY DEF NoCircularWait
  <2>1. \A h \in S : /\ Next(h) \in Wanted
                    /\ \A q \in Held(h) : q.lock = "filters" /\ Next(h).lock = "config"
    BY WaitersHoldLittle
  <2>2. \A h \in S : \E g \in S :
            \/ W(Next(h).lock) \in Held(g)
            \/ Next(h).mode = "write" /\ R(Next(h).lock) \in Held(g)
            \/ Next(h).mode = "read" /\ Next(g) = W(Next(h).lock)
    BY DEF Blockers
  <2>3. \A l \in Locks : R(l).lock = l /\ W(l).lock = l /\ W(l).mode = "write"
    BY DEF R, W
  <2>4. \A h \in S : \A l \in Locks :
            W(l) \in Held(h) \/ R(l) \in Held(h) => l = "filters" /\ Next(h).lock = "config"
    BY <2>1, <2>3
  <2>5. \A h \in S : /\ Next(h).lock \in Locks
                    /\ Next(h).mode \in {"read", "write"}
    BY <2>1 DEF Wanted
  <2>6. "config" \in Locks /\ "filters" \in Locks /\ "config" # "filters" /\ "read" # "write"
    BY DEF Locks
  <2>7. \A h \in S : Next(h).lock = "config" => Next(h).mode # "write"
    BY <2>2, <2>4, <2>6
  <2>8. \A h \in S : Next(h).lock # "config"
    <3> SUFFICES ASSUME NEW h \in S, Next(h).lock = "config"
                 PROVE  FALSE
      OBVIOUS
    <3>1. PICK g \in S : \/ W("config") \in Held(g)
                         \/ Next(g) = W("config")
      BY <2>2, <2>7
    <3>2. Next(g) = W("config")
      BY <3>1, <2>4, <2>6
    <3> QED
      BY <3>2, <2>3, <2>6, <2>7
  <2>9. \A h \in S : Next(h).lock = "filters"
    BY <2>5, <2>8 DEF Locks
  <2>10. \A h \in S : W("filters") \notin Held(h) /\ R("filters") \notin Held(h)
    BY <2>4, <2>6, <2>8
  <2>11. \A h \in S : Next(h).mode # "write"
    BY <2>2, <2>9, <2>10
  <2>12. \A h \in S : \E g \in S : Next(g) = W("filters")
    <3> TAKE h \in S
    <3>1. Next(h).lock = "filters" /\ Next(h).mode # "write"
      BY <2>9, <2>11
    <3>2. PICK g \in S : \/ W(Next(h).lock) \in Held(g)
                         \/ Next(g) = W(Next(h).lock)
      BY <2>2, <3>1
    <3>3. W("filters") \in Held(g) \/ Next(g) = W("filters")
      BY <3>1, <3>2
    <3> QED
      BY <2>10, <3>3
  <2> QED
    BY <2>3, <2>6, <2>11, <2>12
<1> QED
  BY <1>1, LocksInvHolds, PTL

-----------------------------------------------------------------------------
(* The program's own update.                                               *)

UpdateStages == {"stage", "check", "keep", "place", "undo", "mode", "clean", "restart"}

UpdateRecords ==
    [at : UpdateStages,
     version : Nat \ {0}, ok : BOOLEAN, copied : Int]

\* What holds of the files f when an update is at p and n operations failed.
Phase(p, f, n) ==
    /\ p.ok => p.at \in {"clean", "restart"}
    /\ p.at \in {"stage", "check", "keep", "clean"} => f.exe > 0
    /\ p.at \in {"check", "keep", "place"} => f.staged = p.version
    /\ p.at \in {"place", "undo"} => f.kept > 0
    /\ p.at \in {"mode", "restart"} => f.exe = p.version
    /\ p.at = "clean" /\ p.ok => f.exe = p.version
    /\ p.at = "undo" => n >= MaxUpdateFaults
    /\ p.at = "keep" => p.copied \in {0, f.exe}
    /\ p.at = "place" => p.copied \in {0, f.staged}
    /\ p.at = "undo" => p.copied \in {0, f.kept}
    /\ p.at \notin Moves => p.copied = 0

UpdateTyped ==
    /\ files \in [{"exe", "kept", "staged"} -> Int]
    /\ image \in Int /\ announced \in Nat /\ updFaults \in Nat
    /\ crashed \in BOOLEAN /\ crossFs \in BOOLEAN
    /\ upd \in [Updaters -> UpdateRecords \cup {NoUpdate}]

UpdateInv ==
    /\ UpdateTyped
    /\ files.exe > 0 \/ files.kept > 0
    /\ crashed => image <= 0
    /\ (~crashed /\ \A u \in Updaters : upd[u] = NoUpdate) => files.exe > 0
    /\ \A u \in Updaters : upd[u] # NoUpdate =>
            image > 0 /\ Phase(upd[u], files, updFaults)

LEMMA NoUpdateIsNone ==
    /\ NoUpdate.at = "none"
    /\ \A p \in UpdateRecords : p # NoUpdate /\ p.at # "none"
BY DEF NoUpdate, UpdateRecords, UpdateStages

\* An update that goes on to q keeps the invariant if q and the files agree.
LEMMA UpdateGoesOn ==
    ASSUME \A u, v \in Updaters : u = v,
           UpdateInv, NEW u \in Updaters, upd[u] # NoUpdate,
           NEW q \in UpdateRecords, upd' = [upd EXCEPT ![u] = q],
           UNCHANGED <<crossFs, image, announced, crashed>>,
           files' \in [{"exe", "kept", "staged"} -> Int], updFaults' \in Nat,
           Phase(q, files', updFaults')
    PROVE  UpdateInv'
<1>1. \A v \in Updaters : upd'[v] = q
  BY DEF UpdateInv, UpdateTyped
<1>2. files'.exe > 0 \/ files'.kept > 0
  BY DEF Phase, UpdateRecords, UpdateStages
<1>3. UpdateTyped'
  BY DEF UpdateInv, UpdateTyped
<1> QED
  BY <1>1, <1>2, <1>3, NoUpdateIsNone DEF UpdateInv

\* The record of an update that goes on to another stage.
LEMMA Onward ==
    ASSUME NEW p \in UpdateRecords,
           NEW at \in UpdateStages,
           NEW q, q = [p EXCEPT !.at = at]
    PROVE  /\ q \in UpdateRecords
           /\ q.at = at /\ q.version = p.version /\ q.ok = p.ok /\ q.copied = p.copied
BY DEF UpdateRecords, UpdateStages

Ended(p, at) == [p EXCEPT !.at = at, !.copied = 0]

LEMMA OnwardCopied ==
    ASSUME NEW p \in UpdateRecords, NEW at \in UpdateStages
    PROVE  /\ Ended(p, at) \in UpdateRecords
           /\ Ended(p, at).at = at /\ Ended(p, at).version = p.version
           /\ Ended(p, at).ok = p.ok /\ Ended(p, at).copied = 0
<1>0. PICK q : q = Ended(p, at)
  OBVIOUS
<1>1. PICK r : r = [p EXCEPT !.at = at]
  OBVIOUS
<1>2. /\ r \in UpdateRecords
      /\ r.at = at /\ r.version = p.version /\ r.ok = p.ok
  BY <1>1, Onward DEF UpdateStages
<1>3. PICK c : c = 0
  OBVIOUS
<1>4. q = [r EXCEPT !.copied = c]
  BY <1>0, <1>1, <1>3, Zenon DEF Ended
<1>5. PICK ints : ints = Int
  OBVIOUS
<1>6. c \in ints
  BY <1>3, <1>5
<1>7. /\ q.at = r.at /\ q.version = r.version /\ q.ok = r.ok /\ q.copied = c
      /\ q \in UpdateRecords
  BY <1>2, <1>4, <1>5, <1>6 DEF UpdateRecords, UpdateStages
<1> QED
  BY <1>0, <1>2, <1>3, <1>7

LEMMA UpdateInvHolds ==
    ASSUME \A u, v \in Updaters : u = v, MaxUpdateFaults <= 1
    PROVE  UpdateSpec => []UpdateInv
<1> USE DEF Nothing, Partial
<1>1. ASSUME UpdateInit
      PROVE  UpdateInv
  <2>1. files.exe = 1 /\ image = 1 /\ crashed = FALSE
        /\ \A u \in Updaters : upd[u] = NoUpdate
    BY <1>1 DEF UpdateInit
  <2>2. UpdateTyped
    <3>1. files \in [{"exe", "kept", "staged"} -> Int]
      BY <1>1 DEF UpdateInit
    <3>2. image \in Int /\ announced \in Nat /\ updFaults \in Nat
      BY <1>1 DEF UpdateInit
    <3>3. crashed \in BOOLEAN /\ crossFs \in BOOLEAN
      BY <1>1 DEF UpdateInit
    <3>4. upd \in [Updaters -> UpdateRecords \cup {NoUpdate}]
      BY <1>1 DEF UpdateInit
    <3> QED
      BY <3>1, <3>2, <3>3, <3>4 DEF UpdateTyped
  <2> QED
    BY <2>1, <2>2 DEF UpdateInv
<1>2. ASSUME UpdateInv, [UpdateNext]_updateVars
      PROVE  UpdateInv'
  <2>0. /\ UpdateTyped
        /\ files.exe > 0 \/ files.kept > 0
        /\ crashed => image <= 0
        /\ (~crashed /\ \A u \in Updaters : upd[u] = NoUpdate) => files.exe > 0
        /\ \A u \in Updaters : upd[u] # NoUpdate =>
                image > 0 /\ Phase(upd[u], files, updFaults)
    BY <1>2 DEF UpdateInv
  <2>1. CASE UNCHANGED updateVars
    BY <2>0, <2>1 DEF updateVars, UpdateInv, UpdateTyped
  <2>2. CASE FetchAnnouncement
    <3>1. announced' \in Nat
      BY <2>2, UpdateAssumption DEF FetchAnnouncement
    <3> QED
      BY <2>0, <2>2, <3>1 DEF FetchAnnouncement, UpdateInv, UpdateTyped
  <2>3. CASE UpdateCrash
    <3>1. \A u \in Updaters : upd'[u] = NoUpdate
      BY <2>3 DEF UpdateCrash
    <3>2. UpdateTyped'
      BY <2>0, <2>3 DEF UpdateCrash, UpdateTyped
    <3>3. files' = files /\ image' = 0
      BY <2>3 DEF UpdateCrash
    <3>4. ~crashed' => ~crashed /\ \A u \in Updaters : upd[u] = NoUpdate
      BY <2>3 DEF UpdateCrash
    <3> QED
      BY <2>0, <3>1, <3>2, <3>3, <3>4 DEF UpdateInv
  <2>4. CASE StartProgram
    <3>1. \A u \in Updaters : upd[u] = NoUpdate
      BY <2>0, <2>4 DEF StartProgram, UpdateTyped
    <3>2. files' \in [{"exe", "kept", "staged"} -> Int] /\ files'.exe > 0
      BY <2>0, <2>4 DEF StartProgram, Whole, UpdateTyped
    <3> QED
      BY <2>0, <2>4, <3>1, <3>2 DEF StartProgram, UpdateInv, UpdateTyped
  <2>5. ASSUME NEW u \in Updaters, BeginUpdate(u)
        PROVE  UpdateInv'
    <3>1. PICK q : q = [at |-> "stage", version |-> announced, ok |-> FALSE, copied |-> Nothing]
      OBVIOUS
    <3>2. /\ upd' = [upd EXCEPT ![u] = q]
          /\ announced \in Nat \ {0} /\ image > 0
          /\ files' = [files EXCEPT !.staged = 0] /\ updFaults' = 0
          /\ UNCHANGED <<crossFs, image, announced, crashed>>
      BY <2>0, <2>5, <3>1 DEF BeginUpdate, UpdateTyped
    <3>3. q \in UpdateRecords /\ q.at = "stage" /\ q.ok = FALSE /\ q.copied = 0
      BY <3>1, <3>2 DEF UpdateRecords, UpdateStages
    <3>4. \A v \in Updaters : upd[v] = NoUpdate /\ upd'[v] = q
      BY <2>0, <2>5, <3>2 DEF BeginUpdate, UpdateTyped
    <3>5. files.exe > 0 /\ files'.exe > 0 /\ files' \in [{"exe", "kept", "staged"} -> Int]
      BY <2>0, <3>2, <3>4 DEF UpdateTyped
    <3>6. Phase(q, files', updFaults')
      BY <3>3, <3>5 DEF Phase, Moves
    <3>7. UpdateTyped'
      BY <2>0, <3>2, <3>3, <3>5 DEF UpdateTyped
    <3> QED
      BY <2>0, <3>2, <3>4, <3>5, <3>6, <3>7 DEF UpdateInv
  <2>6. ASSUME NEW u \in Updaters, NEW p \in UpdateRecords, p = upd[u],
               p.at = "stage" \/ p.at = "check"
        PROVE  StageFails(u) \/ StageWrites(u) \/ CheckStaged(u) => UpdateInv'
    <3>0. upd[u] # NoUpdate /\ Phase(p, files, updFaults) /\ UpdateTyped
      BY <2>0, <2>6, NoUpdateIsNone
    <3>1. CASE StageFails(u)
      <4>1. PICK q : q = [p EXCEPT !.at = "clean"]
        OBVIOUS
      <4>2. /\ q \in UpdateRecords
            /\ q.at = "clean" /\ q.version = p.version /\ q.ok = p.ok /\ q.copied = p.copied
        BY <4>1, Onward DEF UpdateStages
      <4>3. /\ upd' = [upd EXCEPT ![u] = q] /\ p.at = "stage"
            /\ files' \in [{"exe", "kept", "staged"} -> Int] /\ files'.exe = files.exe
            /\ UNCHANGED <<crossFs, image, announced, crashed, updFaults>>
        BY <2>6, <3>0, <3>1, <4>1 DEF StageFails, To, UpdateTyped
      <4>4. Phase(q, files', updFaults')
        BY <3>0, <4>2, <4>3 DEF Phase, Moves
      <4> QED
        BY <1>2, <3>0, <4>2, <4>3, <4>4, UpdateGoesOn DEF UpdateTyped
    <3>2. CASE StageWrites(u)
      <4>1. PICK q : q = [p EXCEPT !.at = "check"]
        OBVIOUS
      <4>2. /\ q \in UpdateRecords
            /\ q.at = "check" /\ q.version = p.version /\ q.ok = p.ok /\ q.copied = p.copied
        BY <4>1, Onward DEF UpdateStages
      <4>3. /\ upd' = [upd EXCEPT ![u] = q] /\ p.at = "stage" /\ p.version \in Int
            /\ files' \in [{"exe", "kept", "staged"} -> Int] /\ files'.exe = files.exe
            /\ files'.staged = p.version
            /\ UNCHANGED <<crossFs, image, announced, crashed, updFaults>>
        BY <2>6, <3>0, <3>2, <4>1 DEF StageWrites, To, UpdateTyped, UpdateRecords
      <4>4. Phase(q, files', updFaults')
        BY <3>0, <4>2, <4>3 DEF Phase, Moves
      <4> QED
        BY <1>2, <3>0, <4>2, <4>3, <4>4, UpdateGoesOn DEF UpdateTyped
    <3>3. CASE CheckStaged(u)
      <4>1. PICK at \in {"keep", "clean"} : upd' = [upd EXCEPT ![u] = [upd[u] EXCEPT !.at = at]]
        BY <3>0, <3>3 DEF CheckStaged, To, UpdateTyped
      <4>2. PICK q : q = [p EXCEPT !.at = at]
        OBVIOUS
      <4>3. /\ q \in UpdateRecords
            /\ q.at = at /\ q.version = p.version /\ q.ok = p.ok /\ q.copied = p.copied
        BY <4>2, Onward DEF UpdateStages
      <4>4. /\ upd' = [upd EXCEPT ![u] = q] /\ p.at = "check"
            /\ UNCHANGED <<files, crossFs, image, announced, crashed, updFaults>>
        BY <2>6, <3>3, <4>1, <4>2 DEF CheckStaged
      <4>5. Phase(q, files', updFaults')
        BY <3>0, <4>3, <4>4 DEF Phase, Moves
      <4> QED
        BY <1>2, <3>0, <4>3, <4>4, <4>5, UpdateGoesOn DEF UpdateTyped
    <3> QED
      BY <3>1, <3>2, <3>3
  <2>7. ASSUME NEW u \in Updaters, NEW p \in UpdateRecords, p = upd[u], p.at \in Moves,
               MoveByRename(u)
        PROVE  UpdateInv'
    <3>0. upd[u] # NoUpdate /\ Phase(p, files, updFaults) /\ UpdateTyped
      BY <2>0, <2>7, NoUpdateIsNone
    <3>1. PICK q : q = [p EXCEPT !.at = AfterMove(p.at, TRUE)]
      OBVIOUS
    <3>2. /\ upd' = [upd EXCEPT ![u] = q] /\ p.copied = 0
          /\ files' = [files EXCEPT ![Dest(p.at)] = files[Source(p.at)], ![Source(p.at)] = 0]
          /\ UNCHANGED <<crossFs, image, announced, crashed, updFaults>>
      BY <2>7, <3>1 DEF MoveByRename, To
    <3>3. files' \in [{"exe", "kept", "staged"} -> Int]
      BY <2>7, <3>0, <3>2 DEF UpdateTyped, Moves, Source, Dest
    <3>4. CASE p.at = "keep"
      <4>1. AfterMove(p.at, TRUE) = "place"
        BY <3>4 DEF AfterMove
      <4>2. /\ q \in UpdateRecords
            /\ q.at = "place" /\ q.version = p.version /\ q.ok = p.ok /\ q.copied = p.copied
        <5>1. q = [p EXCEPT !.at = "place"]
          BY <3>1, <4>1
        <5> QED
          BY <5>1, Onward DEF UpdateStages
      <4>3. files'.kept = files.exe /\ files'.staged = files.staged
        BY <3>0, <3>2, <3>4 DEF Source, Dest, UpdateTyped
      <4>4. Phase(q, files', updFaults')
        BY <3>0, <3>2, <3>4, <4>2, <4>3 DEF Phase, Moves
      <4> QED
        BY <1>2, <3>0, <3>2, <3>3, <4>2, <4>4, UpdateGoesOn DEF UpdateTyped
    <3>5. CASE p.at = "place"
      <4>1. AfterMove(p.at, TRUE) = "mode"
        BY <3>5 DEF AfterMove
      <4>2. /\ q \in UpdateRecords
            /\ q.at = "mode" /\ q.version = p.version /\ q.ok = p.ok /\ q.copied = p.copied
        <5>1. q = [p EXCEPT !.at = "mode"]
          BY <3>1, <4>1
        <5> QED
          BY <5>1, Onward DEF UpdateStages
      <4>3. files'.exe = files.staged
        BY <3>0, <3>2, <3>5 DEF Source, Dest, UpdateTyped
      <4>4. Phase(q, files', updFaults')
        BY <3>0, <3>2, <3>5, <4>2, <4>3 DEF Phase, Moves
      <4> QED
        BY <1>2, <3>0, <3>2, <3>3, <4>2, <4>4, UpdateGoesOn DEF UpdateTyped
    <3>6. CASE p.at = "undo"
      <4>1. AfterMove(p.at, TRUE) = "clean"
        BY <3>6 DEF AfterMove
      <4>2. /\ q \in UpdateRecords
            /\ q.at = "clean" /\ q.version = p.version /\ q.ok = p.ok /\ q.copied = p.copied
        <5>1. q = [p EXCEPT !.at = "clean"]
          BY <3>1, <4>1
        <5> QED
          BY <5>1, Onward DEF UpdateStages
      <4>3. files'.exe = files.kept
        BY <3>0, <3>2, <3>6 DEF Source, Dest, UpdateTyped
      <4>4. Phase(q, files', updFaults')
        BY <3>0, <3>2, <3>6, <4>2, <4>3 DEF Phase, Moves
      <4> QED
        BY <1>2, <3>0, <3>2, <3>3, <4>2, <4>4, UpdateGoesOn DEF UpdateTyped
    <3> QED
      BY <2>7, <3>4, <3>5, <3>6 DEF Moves
  <2>8. ASSUME NEW u \in Updaters, NEW p \in UpdateRecords, p = upd[u], p.at \in Moves,
               BeginCopy(u)
        PROVE  UpdateInv'
    <3>0. upd[u] # NoUpdate /\ Phase(p, files, updFaults) /\ UpdateTyped
      BY <2>0, <2>8, NoUpdateIsNone
    <3>1. files[Source(p.at)] > 0 /\ Source(p.at) \in {"exe", "kept", "staged"}
      BY <2>8, <3>0 DEF Phase, Moves, Source, UpdateRecords
    <3>2. PICK q : q = [p EXCEPT !.copied = files[Source(p.at)]]
      OBVIOUS
    <3>3. /\ upd' = [upd EXCEPT ![u] = q] /\ p.copied = 0
          /\ files' = [files EXCEPT ![Dest(p.at)] = -1]
          /\ updFaults' \in Nat /\ updFaults' >= updFaults
          /\ UNCHANGED <<crossFs, image, announced, crashed>>
      <4>1. files[Source(p.at)] # 0
        BY <3>0, <3>1 DEF UpdateTyped
      <4>2. /\ files' = [files EXCEPT ![Dest(p.at)] = -1]
            /\ upd' = [upd EXCEPT ![u].copied = files[Source(p.at)]]
            /\ p.copied = 0 /\ UNCHANGED <<crossFs, image, announced, crashed>>
        BY <2>8, <4>1 DEF BeginCopy
      <4>3. updFaults' = updFaults \/ updFaults' = updFaults + 1
        BY <2>8 DEF BeginCopy, UpdateFault
      <4>4. upd' = [upd EXCEPT ![u] = q]
        BY <2>8, <3>2, <4>2
      <4>5. updFaults' \in Nat /\ updFaults' >= updFaults
        BY <3>0, <4>3 DEF UpdateTyped
      <4> QED
        BY <4>2, <4>4, <4>5
    <3>4. /\ q \in UpdateRecords
          /\ q.at = p.at /\ q.version = p.version /\ q.ok = p.ok
          /\ q.copied = files[Source(p.at)]
      BY <3>0, <3>1, <3>2 DEF UpdateRecords, UpdateTyped
    <3>5. files' \in [{"exe", "kept", "staged"} -> Int]
      BY <2>8, <3>0, <3>3 DEF UpdateTyped, Dest
    <3>6. Phase(q, files', updFaults')
      <4>1. CASE p.at = "keep"
        <5>1. files'.exe = files.exe /\ files'.staged = files.staged /\ q.copied = files.exe
          BY <3>0, <3>3, <3>4, <4>1 DEF Source, Dest, UpdateTyped
        <5> QED
          BY <3>0, <3>4, <4>1, <5>1 DEF Phase, Moves
      <4>2. CASE p.at = "place"
        <5>1. files'.kept = files.kept /\ files'.staged = files.staged /\ q.copied = files.staged
          BY <3>0, <3>3, <3>4, <4>2 DEF Source, Dest, UpdateTyped
        <5> QED
          BY <3>0, <3>4, <4>2, <5>1 DEF Phase, Moves
      <4>3. CASE p.at = "undo"
        <5>1. files'.kept = files.kept /\ q.copied = files.kept
          BY <3>0, <3>3, <3>4, <4>3 DEF Source, Dest, UpdateTyped
        <5>2. updFaults' >= MaxUpdateFaults
          BY <3>0, <3>3, <4>3, UpdateAssumption DEF Phase, UpdateTyped
        <5> QED
          BY <3>0, <3>4, <4>3, <5>1, <5>2 DEF Phase, Moves
      <4> QED
        BY <2>8, <4>1, <4>2, <4>3 DEF Moves
    <3> QED
      BY <1>2, <3>0, <3>3, <3>4, <3>5, <3>6, UpdateGoesOn
  <2>9. ASSUME NEW u \in Updaters, NEW p \in UpdateRecords, p = upd[u], p.at \in Moves,
               p.copied # 0, NEW q, q = Ended(p, AfterMove(p.at, TRUE)),
               files' = [[files EXCEPT ![Dest(p.at)] = p.copied] EXCEPT ![Source(p.at)] = 0],
               upd' = [upd EXCEPT ![u] = q],
               UNCHANGED <<crossFs, image, announced, crashed, updFaults>>
        PROVE  UpdateInv'
    <3>0. upd[u] # NoUpdate /\ Phase(p, files, updFaults) /\ UpdateTyped /\ p.copied \in Int
      BY <2>0, <2>9, NoUpdateIsNone DEF UpdateRecords, UpdateStages
    <3>1. q = Ended(p, AfterMove(p.at, TRUE))
      BY <2>9
    <3>2. /\ upd' = [upd EXCEPT ![u] = q] /\ p.copied # 0
          /\ files' = [[files EXCEPT ![Dest(p.at)] = p.copied] EXCEPT ![Source(p.at)] = 0]
          /\ UNCHANGED <<crossFs, image, announced, crashed, updFaults>>
      BY <2>9
    <3>3. files' \in [{"exe", "kept", "staged"} -> Int]
      BY <2>9, <3>0, <3>2 DEF UpdateTyped, Moves, Source, Dest
    <3>4. CASE p.at = "keep"
      <4>1. PICK at \in UpdateStages : at = "place" /\ at = AfterMove(p.at, TRUE)
        BY <3>4 DEF AfterMove, UpdateStages
      <4>2. q = Ended(p, at)
        BY <3>1, <4>1
      <4>3. /\ q \in UpdateRecords
            /\ q.at = "place" /\ q.version = p.version /\ q.ok = p.ok /\ q.copied = 0
        BY <4>1, <4>2, OnwardCopied
      <4>4. files'.kept = files.exe /\ files'.staged = files.staged
        BY <3>0, <3>2, <3>4 DEF Phase, Source, Dest, UpdateTyped
      <4>5. Phase(q, files', updFaults')
        BY <3>0, <3>2, <3>4, <4>3, <4>4 DEF Phase, Moves
      <4> QED
        BY <1>2, <3>0, <3>2, <3>3, <4>3, <4>5, UpdateGoesOn DEF UpdateTyped
    <3>5. CASE p.at = "place"
      <4>1. PICK at \in UpdateStages : at = "mode" /\ at = AfterMove(p.at, TRUE)
        BY <3>5 DEF AfterMove, UpdateStages
      <4>2. q = Ended(p, at)
        BY <3>1, <4>1
      <4>3. /\ q \in UpdateRecords
            /\ q.at = "mode" /\ q.version = p.version /\ q.ok = p.ok /\ q.copied = 0
        BY <4>1, <4>2, OnwardCopied
      <4>4. files'.exe = files.staged
        BY <3>0, <3>2, <3>5 DEF Phase, Source, Dest, UpdateTyped
      <4>5. Phase(q, files', updFaults')
        BY <3>0, <3>2, <3>5, <4>3, <4>4 DEF Phase, Moves
      <4> QED
        BY <1>2, <3>0, <3>2, <3>3, <4>3, <4>5, UpdateGoesOn DEF UpdateTyped
    <3>6. CASE p.at = "undo"
      <4>1. PICK at \in UpdateStages : at = "clean" /\ at = AfterMove(p.at, TRUE)
        BY <3>6 DEF AfterMove, UpdateStages
      <4>2. q = Ended(p, at)
        BY <3>1, <4>1
      <4>3. /\ q \in UpdateRecords
            /\ q.at = "clean" /\ q.version = p.version /\ q.ok = p.ok /\ q.copied = 0
        BY <4>1, <4>2, OnwardCopied
      <4>4. files'.exe = files.kept
        BY <3>0, <3>2, <3>6 DEF Phase, Source, Dest, UpdateTyped
      <4>5. Phase(q, files', updFaults')
        BY <3>0, <3>2, <3>6, <4>3, <4>4 DEF Phase, Moves
      <4> QED
        BY <1>2, <3>0, <3>2, <3>3, <4>3, <4>5, UpdateGoesOn DEF UpdateTyped
    <3> QED
      BY <2>9, <3>4, <3>5, <3>6 DEF Moves
  <2>10. ASSUME NEW u \in Updaters, NEW p \in UpdateRecords, p = upd[u], p.at \in Moves,
                p.copied # 0, NEW q, q = Ended(p, AfterMove(p.at, FALSE)),
                files' \in {files, [files EXCEPT ![Dest(p.at)] = p.copied]}, UpdateFault,
                upd' = [upd EXCEPT ![u] = q],
                UNCHANGED <<crossFs, image, announced, crashed>>
         PROVE  UpdateInv'
    <3>0. upd[u] # NoUpdate /\ Phase(p, files, updFaults) /\ UpdateTyped /\ p.copied \in Int
      BY <2>0, <2>10, NoUpdateIsNone DEF UpdateRecords, UpdateStages
    <3>1. q = Ended(p, AfterMove(p.at, FALSE))
      BY <2>10
    <3>2. /\ upd' = [upd EXCEPT ![u] = q] /\ p.copied # 0
          /\ files' \in {files, [files EXCEPT ![Dest(p.at)] = p.copied]}
          /\ updFaults' \in Nat /\ updFaults' >= MaxUpdateFaults /\ updFaults < MaxUpdateFaults
          /\ UNCHANGED <<crossFs, image, announced, crashed>>
      BY <2>10, <3>0, UpdateAssumption DEF UpdateFault, UpdateTyped
    <3>3. files' \in [{"exe", "kept", "staged"} -> Int]
      BY <2>10, <3>0, <3>2 DEF UpdateTyped, Moves, Source, Dest
    <3>4. p.at # "undo"
      BY <3>0, <3>2, UpdateAssumption DEF Phase, UpdateTyped
    <3>5. CASE p.at = "keep"
      <4>1. PICK at \in UpdateStages : at = "clean" /\ at = AfterMove(p.at, FALSE)
        BY <3>5 DEF AfterMove, UpdateStages
      <4>2. q = Ended(p, at)
        BY <3>1, <4>1
      <4>3. /\ q \in UpdateRecords
            /\ q.at = "clean" /\ q.version = p.version /\ q.ok = p.ok /\ q.copied = 0
        BY <4>1, <4>2, OnwardCopied
      <4>4. files'.exe = files.exe
        BY <3>0, <3>2, <3>5 DEF Phase, Source, Dest, UpdateTyped
      <4>5. Phase(q, files', updFaults')
        BY <3>0, <3>2, <3>5, <4>3, <4>4 DEF Phase, Moves
      <4> QED
        BY <1>2, <3>0, <3>2, <3>3, <4>3, <4>5, UpdateGoesOn DEF UpdateTyped
    <3>6. CASE p.at = "place"
      <4>1. PICK at \in UpdateStages : at = "undo" /\ at = AfterMove(p.at, FALSE)
        BY <3>6 DEF AfterMove, UpdateStages
      <4>2. q = Ended(p, at)
        BY <3>1, <4>1
      <4>3. /\ q \in UpdateRecords
            /\ q.at = "undo" /\ q.version = p.version /\ q.ok = p.ok /\ q.copied = 0
        BY <4>1, <4>2, OnwardCopied
      <4>4. files'.kept = files.kept
        BY <3>0, <3>2, <3>6 DEF Phase, Source, Dest, UpdateTyped
      <4>5. Phase(q, files', updFaults')
        BY <3>0, <3>2, <3>6, <4>3, <4>4 DEF Phase, Moves
      <4> QED
        BY <1>2, <3>0, <3>2, <3>3, <4>3, <4>5, UpdateGoesOn DEF UpdateTyped
    <3> QED
      BY <2>10, <3>4, <3>5, <3>6 DEF Moves
  <2>11. ASSUME NEW u \in Updaters, NEW p \in UpdateRecords, p = upd[u], p.at \in Moves,
                EndCopy(u)
         PROVE  UpdateInv'
    <3>1. PICK q : q = Ended(p, AfterMove(p.at, TRUE))
      OBVIOUS
    <3>2. PICK r : r = Ended(p, AfterMove(p.at, FALSE))
      OBVIOUS
    <3>3. \/ /\ files' = [[files EXCEPT ![Dest(p.at)] = p.copied] EXCEPT ![Source(p.at)] = 0]
             /\ upd' = [upd EXCEPT ![u] = q]
             /\ UNCHANGED updFaults
          \/ /\ UpdateFault
             /\ files' \in {files, [files EXCEPT ![Dest(p.at)] = p.copied]}
             /\ upd' = [upd EXCEPT ![u] = r]
      BY <2>11, <3>1, <3>2 DEF EndCopy, Ended
    <3>4. p.copied # 0 /\ UNCHANGED <<crossFs, image, announced, crashed>>
      BY <2>11 DEF EndCopy
    <3>5. CASE upd' = [upd EXCEPT ![u] = q] /\ UNCHANGED updFaults
               /\ files' = [[files EXCEPT ![Dest(p.at)] = p.copied] EXCEPT ![Source(p.at)] = 0]
      BY <2>9, <2>11, <3>1, <3>4, <3>5
    <3>6. CASE upd' = [upd EXCEPT ![u] = r] /\ UpdateFault
               /\ files' \in {files, [files EXCEPT ![Dest(p.at)] = p.copied]}
      BY <2>10, <2>11, <3>2, <3>4, <3>6
    <3> QED
      BY <3>3, <3>5, <3>6
  <2>12. ASSUME NEW u \in Updaters, NEW p \in UpdateRecords, p = upd[u], SetMode(u)
         PROVE  UpdateInv'
    <3>0. upd[u] # NoUpdate /\ Phase(p, files, updFaults) /\ UpdateTyped
      BY <2>0, <2>12, NoUpdateIsNone
    <3>1. PICK q : /\ q \in {[p EXCEPT !.at = "clean", !.ok = TRUE], [p EXCEPT !.at = "clean"]}
                   /\ upd' = [upd EXCEPT ![u] = q]
      BY <2>12 DEF SetMode, To
    <3>2. /\ q \in UpdateRecords
          /\ q.at = "clean" /\ q.version = p.version /\ q.copied = p.copied
      BY <3>1 DEF UpdateRecords, UpdateStages
    <3>3. /\ p.at = "mode" /\ UNCHANGED <<files, crossFs, image, announced, crashed>>
          /\ updFaults' \in Nat
      BY <2>12, <3>0 DEF SetMode, UpdateFault, UpdateTyped
    <3>4. Phase(q, files', updFaults')
      BY <3>0, <3>2, <3>3 DEF Phase, Moves, UpdateRecords
    <3> QED
      BY <1>2, <3>0, <3>1, <3>2, <3>3, <3>4, UpdateGoesOn DEF UpdateTyped
  <2>13. ASSUME NEW u \in Updaters, NEW p \in UpdateRecords, p = upd[u], CleanUp(u)
         PROVE  UpdateInv'
    <3>0. upd[u] # NoUpdate /\ Phase(p, files, updFaults) /\ UpdateTyped
      BY <2>0, <2>13, NoUpdateIsNone
    <3>1. /\ p.at = "clean" /\ UNCHANGED <<crossFs, image, announced, crashed, updFaults>>
          /\ files' \in [{"exe", "kept", "staged"} -> Int] /\ files'.exe = files.exe
      BY <2>13, <3>0 DEF CleanUp, UpdateTyped
    <3>2. CASE p.ok
      <4>1. PICK q : q = [p EXCEPT !.at = "restart"]
        OBVIOUS
      <4>2. /\ q \in UpdateRecords
            /\ q.at = "restart" /\ q.version = p.version /\ q.ok = p.ok /\ q.copied = p.copied
        BY <4>1, Onward DEF UpdateStages
      <4>3. upd' = [upd EXCEPT ![u] = q]
        BY <2>13, <3>2, <4>1 DEF CleanUp, To
      <4>4. Phase(q, files', updFaults')
        BY <3>0, <3>1, <3>2, <4>2 DEF Phase, Moves
      <4> QED
        BY <1>2, <3>0, <3>1, <4>2, <4>3, <4>4, UpdateGoesOn DEF UpdateTyped
    <3>3. CASE ~p.ok
      <4>1. upd' = [upd EXCEPT ![u] = NoUpdate]
        BY <2>13, <3>3 DEF CleanUp
      <4>2. \A v \in Updaters : upd'[v] = NoUpdate
        BY <3>0, <4>1 DEF UpdateTyped
      <4>3. files'.exe > 0
        BY <3>0, <3>1 DEF Phase
      <4>4. UpdateTyped'
        BY <3>0, <3>1, <4>1 DEF UpdateTyped
      <4> QED
        BY <2>0, <3>1, <4>2, <4>3, <4>4 DEF UpdateInv
    <3> QED
      BY <3>2, <3>3
  <2>14. ASSUME NEW u \in Updaters, NEW p \in UpdateRecords, p = upd[u], RestartInto(u)
         PROVE  UpdateInv'
    <3>0. upd[u] # NoUpdate /\ Phase(p, files, updFaults) /\ UpdateTyped /\ image > 0
      BY <2>0, <2>14, NoUpdateIsNone
    <3>1. files.exe > 0
      BY <2>14, <3>0 DEF RestartInto, Phase, UpdateRecords
    <3>2. /\ \A v \in Updaters : upd'[v] = NoUpdate
          /\ UNCHANGED <<files, crossFs, crashed, updFaults>> /\ image' = files.exe
      BY <2>14, <3>1 DEF RestartInto, Whole
    <3>3. UpdateTyped'
      BY <2>14, <3>0, <3>2 DEF RestartInto, UpdateTyped
    <3>4. ~crashed
      BY <2>0, <3>0 DEF UpdateTyped
    <3> QED
      BY <3>1, <3>2, <3>3, <3>4 DEF UpdateInv
  <2>15. ASSUME NEW u \in Updaters, upd[u] # NoUpdate
         PROVE  upd[u] \in UpdateRecords
    BY <2>0, <2>15 DEF UpdateTyped
  <2>16. ASSUME NEW u \in Updaters,
                \/ StageFails(u) \/ StageWrites(u) \/ CheckStaged(u)
                \/ MoveByRename(u) \/ BeginCopy(u) \/ EndCopy(u) \/ SetMode(u)
                \/ CleanUp(u) \/ RestartInto(u)
         PROVE  UpdateInv'
    <3>1. upd[u].at # "none"
      BY <2>16 DEF StageFails, StageWrites, CheckStaged, MoveByRename, BeginCopy, EndCopy, Moves,
                   SetMode, CleanUp, RestartInto
    <3>2. upd[u] \in UpdateRecords
      BY <2>15, <3>1, NoUpdateIsNone
    <3>3. PICK p \in UpdateRecords : p = upd[u]
      BY <3>2
    <3>4. /\ StageFails(u) \/ StageWrites(u) \/ CheckStaged(u) => p.at = "stage" \/ p.at = "check"
          /\ MoveByRename(u) \/ BeginCopy(u) \/ EndCopy(u) => p.at \in Moves
      BY <3>3 DEF StageFails, StageWrites, CheckStaged, MoveByRename, BeginCopy, EndCopy
    <3> QED
      BY <2>6, <2>7, <2>8, <2>11, <2>12, <2>13, <2>14, <2>16, <3>3, <3>4
  <2> QED
    BY <1>2, <2>1, <2>2, <2>3, <2>4, <2>5, <2>16 DEF UpdateNext
<1> QED
  BY <1>1, <1>2, PTL DEF UpdateSpec

\* An update leaves a program that can be started, at its place or in the
\* backup, wherever a crash or one failing file operation meets it, and its
\* own version when it answers with success (update.rs: perform, install,
\* move_file), as long as updates are made one at a time.
THEOREM ProgramSurvivesHolds ==
    ASSUME \A u, v \in Updaters : u = v, MaxUpdateFaults <= 1
    PROVE  UpdateSpec => []ProgramSurvives
<1>1. UpdateInv => ProgramSurvives
  <2> SUFFICES ASSUME UpdateInv PROVE ProgramSurvives
    OBVIOUS
  <2>1. Whole("exe") \/ Whole("kept")
    BY DEF UpdateInv, Whole
  <2>2. ASSUME ~crashed, \A u \in Updaters : upd[u].at \in {"none", "clean", "restart"}
        PROVE  Whole("exe")
    <3>1. CASE \A u \in Updaters : upd[u] = NoUpdate
      BY <2>2, <3>1 DEF UpdateInv, Whole
    <3>2. ASSUME NEW u \in Updaters, upd[u] # NoUpdate
          PROVE  Whole("exe")
      <4>1. upd[u] \in UpdateRecords /\ Phase(upd[u], files, updFaults)
        BY <3>2 DEF UpdateInv, UpdateTyped
      <4>2. upd[u].at \in {"clean", "restart"}
        BY <2>2, <4>1, NoUpdateIsNone
      <4> QED
        BY <4>1, <4>2 DEF Phase, UpdateRecords, Whole
    <3> QED
      BY <3>1, <3>2
  <2>3. ASSUME NEW u \in Updaters, upd[u].at = "restart"
        PROVE  files.exe = upd[u].version
    <3>1. upd[u] # NoUpdate
      BY <2>3, NoUpdateIsNone
    <3> QED
      BY <2>3, <3>1 DEF UpdateInv, Phase
  <2> QED
    BY <2>1, <2>2, <2>3 DEF ProgramSurvives
<1> QED
  BY <1>1, UpdateInvHolds, PTL

-----------------------------------------------------------------------------
(* The certificate.                                                        *)

\* The pair the settings and the files name now, and that it is served when
\* the watch has to see to it.
Named == [cert |-> Pem(tlsConfig.src, "cert"), key |-> Pem(tlsConfig.src, "key")]

ServedAsNamed ==
    (/\ tlsConfig.enabled /\ ReadsFiles(tlsConfig.src)
     /\ Builds(Pem(tlsConfig.src, "cert"), Pem(tlsConfig.src, "key"))) => slot = {Named}

OperatorWarned ==
    \A p \in slot : p.cert * Lifetime - certTime <= ExpiryWarning
        => \E w \in warned : certTime - w < WarningEvery

\* What an install that is under way has read.
Reads(x) ==
    /\ x.at \in {"cert", "key"} => \E tls \in TlsRequests : x.src = tls.src
    /\ x.at = "key" => x.got \in Nat
    /\ x.at = "install" => x.pair.cert \in Nat /\ x.pair.key \in Nat

\* A round of the watch beside which nothing happened has read what is there.
RoundIsCurrent(x) ==
    /\ x.at \in {"cert", "key", "install", "warn"}
    /\ x.at \in {"cert", "key"} => x.src = tlsConfig.src
    /\ x.at = "key" => x.got = Pem(tlsConfig.src, "cert")
    /\ x.at = "install" => x.pair = Named
    /\ x.at = "warn" => ServedAsNamed

CertTyped ==
    /\ disk \in [{"cert", "key"} -> Nat] /\ issued \in Nat
    /\ tlsConfig \in TlsRequests
    /\ certTime \in Nat /\ warned \subseteq Nat
    /\ DOMAIN installing = Installers
    /\ \A i \in Installers : Reads(installing[i])

Proven == \A p \in slot : p.cert = p.key /\ p.cert \in Nat \ {0}

Settling ==
    /\ quiet # "no" => installing["save"] = AtRest
    /\ quiet = "watched" => RoundIsCurrent(installing["watch"])
    /\ quiet = "settled" => installing["watch"] = AtRest /\ ServedAsNamed /\ OperatorWarned
    /\ quiet \in {"no", "watched", "settled"}

CertInv ==
    /\ CertTyped
    /\ Proven
    /\ encrypted => slot # {}
    /\ Settling

\* What is read of a source is a pair's number or 0.
LEMMA PemIsANumber ==
    ASSUME CertTyped, NEW tls \in TlsRequests, NEW part \in {"cert", "key"}
    PROVE  Pem(tls.src, part) \in Nat
BY CertificateAssumption DEF CertTyped, Pem

LEMMA LoadTlsIsProven ==
    ASSUME CertTyped
    PROVE  \A p \in LoadTls(tlsConfig) : p.cert = p.key /\ p.cert \in Nat \ {0}
<1>1. tlsConfig \in TlsRequests
  BY DEF CertTyped
<1>2. Pem(tlsConfig.src, "cert") \in Nat
  BY <1>1, PemIsANumber
<1> QED
  BY <1>2 DEF LoadTls, Builds, Parses

LEMMA InstallIsProven ==
    ASSUME CertTyped, Proven, NEW pair, pair.cert \in Nat
    PROVE  /\ \A p \in InstallPem(pair) : p.cert = p.key /\ p.cert \in Nat \ {0}
           /\ slot # {} => InstallPem(pair) # {}
BY DEF InstallPem, Builds, Parses, Proven

LEMMA CertInvInit == CertInit => CertInv
<1> SUFFICES ASSUME CertInit PROVE CertInv
  OBVIOUS
<1>1. \A i \in Installers : installing[i] = AtRest
  BY DEF CertInit
<1>2. CertTyped
  BY <1>1 DEF CertInit, CertTyped, Reads, AtRest
<1>3. Proven
  BY <1>2, LoadTlsIsProven DEF CertInit, Proven
<1>4. Settling
  BY <1>1 DEF CertInit, Settling, Installers
<1> QED
  BY <1>2, <1>3, <1>4 DEF CertInit, CertInv

LEMMA CertInvStep ==
    ASSUME CertInv, [CertNext]_certVars
    PROVE  CertInv'
<1>0. /\ disk \in [{"cert", "key"} -> Nat] /\ issued \in Nat
      /\ tlsConfig \in TlsRequests
      /\ certTime \in Nat /\ warned \subseteq Nat
      /\ DOMAIN installing = Installers
      /\ \A i \in Installers : Reads(installing[i])
      /\ CertTyped /\ Proven /\ Settling
      /\ encrypted => slot # {}
      /\ "watch" \in Installers /\ "save" \in Installers /\ "watch" # "save"
  BY DEF CertInv, CertTyped, Installers
<1>1. CASE UNCHANGED certVars
  BY <1>0, <1>1 DEF certVars, CertInv, CertTyped, Proven, Settling, RoundIsCurrent, ServedAsNamed,
                    OperatorWarned, Named, Pem, Reads
<1>2. CASE IssuePair
  BY <1>0, <1>2 DEF IssuePair, CertInv, CertTyped, Proven, Settling, RoundIsCurrent, ServedAsNamed,
                    OperatorWarned, Named, Pem, Reads
<1>3. ASSUME NEW part \in {"cert", "key"}, WritePart(part)
      PROVE  CertInv'
  <2>1. disk' \in [{"cert", "key"} -> Nat]
    BY <1>0, <1>3 DEF WritePart
  <2> QED
    BY <1>0, <1>3, <2>1 DEF WritePart, CertInv, CertTyped, Proven, Settling, Reads
<1>4. CASE CertTick
  BY <1>0, <1>4 DEF CertTick, CertInv, CertTyped, Proven, Settling, Reads
<1>5. ASSUME NEW tls \in TlsRequests, StoreSettings(tls)
      PROVE  CertInv'
  <2>1. PICK x : x = [at |-> "cert", src |-> tls.src, got |-> 0]
    OBVIOUS
  <2>2. Reads(x)
    BY <2>1 DEF Reads
  <2>3. installing' = installing \/ installing' = [installing EXCEPT !["save"] = x]
    BY <1>5, <2>1 DEF StoreSettings, ReloadCertificate
  <2>4. DOMAIN installing' = Installers /\ \A i \in Installers : Reads(installing'[i])
    BY <1>0, <2>2, <2>3 DEF Installers
  <2> QED
    BY <1>0, <1>5, <2>4 DEF StoreSettings, CertInv, CertTyped, Proven, Settling
<1>6. CASE BeginWatch
  <2>1. PICK x : x = IF tlsConfig.enabled /\ ReadsFiles(tlsConfig.src)
                     THEN [at |-> "cert", src |-> tlsConfig.src, got |-> 0]
                     ELSE [at |-> "warn"]
    OBVIOUS
  <2>2. /\ installing' = [installing EXCEPT !["watch"] = x]
        /\ UNCHANGED <<disk, issued, tlsConfig, slot, encrypted, certTime, warned>>
        /\ quiet' = IF installing["save"] = AtRest THEN "watched" ELSE "no"
    BY <1>6, <2>1 DEF BeginWatch, Resting
  <2>3. CASE tlsConfig.enabled /\ ReadsFiles(tlsConfig.src)
    <3>1. x.at = "cert" /\ x.src = tlsConfig.src
      BY <2>1, <2>3
    <3>2. Reads(x) /\ RoundIsCurrent(x)
      BY <1>0, <3>1 DEF Reads, RoundIsCurrent
    <3>3. RoundIsCurrent(x)'
      BY <2>2, <3>1 DEF RoundIsCurrent
    <3>4. installing'["watch"] = x /\ installing'["save"] = installing["save"]
          /\ DOMAIN installing' = Installers
      BY <1>0, <2>2
    <3>5. CertTyped'
      BY <1>0, <2>2, <3>2, <3>4 DEF CertTyped, Installers
    <3>6. Settling'
      BY <2>2, <3>3, <3>4 DEF Settling
    <3> QED
      BY <1>0, <2>2, <3>5, <3>6 DEF CertInv, Proven
  <2>4. CASE ~(tlsConfig.enabled /\ ReadsFiles(tlsConfig.src))
    <3>1. x.at = "warn"
      BY <2>1, <2>4
    <3>2. Reads(x)
      BY <3>1 DEF Reads
    <3>3. RoundIsCurrent(x)'
      BY <2>2, <2>4, <3>1 DEF RoundIsCurrent, ServedAsNamed
    <3>4. installing'["watch"] = x /\ installing'["save"] = installing["save"]
          /\ DOMAIN installing' = Installers
      BY <1>0, <2>2
    <3>5. CertTyped'
      BY <1>0, <2>2, <3>2, <3>4 DEF CertTyped, Installers
    <3>6. Settling'
      BY <2>2, <3>3, <3>4 DEF Settling
    <3> QED
      BY <1>0, <2>2, <3>5, <3>6 DEF CertInv, Proven
  <2> QED
    BY <2>3, <2>4
<1>7. ASSUME NEW i \in Installers, installing[i].at \in {"cert", "key", "install"}
      PROVE  quiet # "no" => i = "watch" /\ quiet = "watched" /\ RoundIsCurrent(installing[i])
  BY <1>0, <1>7 DEF Settling, AtRest, Installers
<1>8. ASSUME NEW i \in Installers, NEW x, Reads(x), installing' = [installing EXCEPT ![i] = x],
             installing[i].at \in {"cert", "key"},
             UNCHANGED <<disk, issued, tlsConfig, slot, encrypted, certTime, warned, quiet>>,
             quiet # "no" => RoundIsCurrent(x)
      PROVE  CertInv'
  <2>1. /\ installing'[i] = x /\ DOMAIN installing' = Installers
        /\ \A j \in Installers \ {i} : installing'[j] = installing[j]
    BY <1>0, <1>8
  <2>2. RoundIsCurrent(x) => RoundIsCurrent(x)'
    BY <1>8 DEF RoundIsCurrent, ServedAsNamed, Named, Pem
  <2>3. Settling'
    BY <1>0, <1>7, <1>8, <2>1, <2>2 DEF Settling, Installers
  <2>4. CertTyped'
    BY <1>0, <1>8, <2>1 DEF CertTyped
  <2> QED
    BY <1>0, <1>8, <2>3, <2>4 DEF CertInv, Proven
<1>9. ASSUME NEW i \in Installers, ReadCert(i)
      PROVE  CertInv'
  <2>1. PICK src : src = installing[i].src
    OBVIOUS
  <2>2. PICK x : x = [at |-> "key", src |-> src, got |-> Pem(src, "cert")]
    OBVIOUS
  <2>3. x.at = "key" /\ x.src = src /\ x.got = Pem(src, "cert")
    BY <2>2
  <2>4. /\ installing[i].at = "cert" /\ installing' = [installing EXCEPT ![i] = x]
        /\ UNCHANGED <<disk, issued, tlsConfig, slot, encrypted, certTime, warned, quiet>>
    BY <1>0, <1>9, <2>1, <2>2 DEF ReadCert
  <2>5. PICK tls \in TlsRequests : src = tls.src
    BY <1>0, <2>1, <2>4 DEF Reads
  <2>6. Reads(x)
    BY <1>0, <2>3, <2>5, PemIsANumber DEF Reads
  <2>7. quiet # "no" => RoundIsCurrent(x)
    BY <1>7, <2>1, <2>3, <2>4 DEF RoundIsCurrent
  <2> QED
    BY <1>8, <2>4, <2>6, <2>7
<1>10. ASSUME NEW i \in Installers, ReadKey(i)
       PROVE  CertInv'
  <2>1. PICK src, got : src = installing[i].src /\ got = installing[i].got
    OBVIOUS
  <2>2. PICK pair : pair = [cert |-> got, key |-> Pem(src, "key")]
    OBVIOUS
  <2>3. PICK x : x = [at |-> "install", pair |-> pair]
    OBVIOUS
  <2>4. x.at = "install" /\ x.pair = pair /\ pair.cert = got /\ pair.key = Pem(src, "key")
    BY <2>2, <2>3
  <2>5. /\ installing[i].at = "key" /\ installing' = [installing EXCEPT ![i] = x]
        /\ UNCHANGED <<disk, issued, tlsConfig, slot, encrypted, certTime, warned, quiet>>
    BY <1>0, <1>10, <2>1, <2>2, <2>3 DEF ReadKey
  <2>6. PICK tls \in TlsRequests : src = tls.src
    BY <1>0, <2>1, <2>5 DEF Reads
  <2>7. got \in Nat
    BY <1>0, <2>1, <2>5 DEF Reads
  <2>8. Reads(x)
    BY <1>0, <2>4, <2>6, <2>7, PemIsANumber DEF Reads
  <2>9. quiet # "no" => RoundIsCurrent(x)
    BY <1>7, <2>1, <2>2, <2>4, <2>5 DEF RoundIsCurrent, Named
  <2> QED
    BY <1>8, <2>5, <2>8, <2>9
<1>11. ASSUME NEW i \in Installers, Install(i)
       PROVE  CertInv'
  <2>1. PICK pair : pair = installing[i].pair
    OBVIOUS
  <2>2. PICK x : x = IF i = "watch" THEN [at |-> "warn"] ELSE AtRest
    OBVIOUS
  <2>3. /\ installing[i].at = "install" /\ installing' = [installing EXCEPT ![i] = x]
        /\ slot' = IF Replaces(i, pair) THEN InstallPem(pair) ELSE slot
        /\ warned' \subseteq Nat
        /\ UNCHANGED <<disk, issued, tlsConfig, encrypted, certTime, quiet>>
    BY <1>0, <1>11, <2>1, <2>2 DEF Install
  <2>4. x.at \in {"warn", "rest"} /\ (i = "watch" => x.at = "warn")
    BY <2>2 DEF AtRest
  <2>5. Reads(x)
    BY <2>4 DEF Reads
  <2>6. pair.cert \in Nat
    BY <1>0, <2>1, <2>3 DEF Reads
  <2>7. Proven' /\ (encrypted' => slot' # {})
    BY <1>0, <2>3, <2>6, InstallIsProven DEF Proven
  <2>8. /\ installing'[i] = x /\ DOMAIN installing' = Installers
        /\ \A j \in Installers \ {i} : installing'[j] = installing[j]
    BY <1>0, <2>3
  <2>9. CertTyped'
    BY <1>0, <2>3, <2>5, <2>8 DEF CertTyped
  <2>10. ASSUME quiet # "no"
         PROVE  i = "watch" /\ quiet = "watched" /\ RoundIsCurrent(x)'
    <3>1. i = "watch" /\ quiet = "watched" /\ pair = Named
      BY <1>7, <2>1, <2>3, <2>10 DEF RoundIsCurrent
    <3>2. pair.cert = Pem(tlsConfig.src, "cert") /\ pair.key = Pem(tlsConfig.src, "key")
      BY <3>1 DEF Named
    <3>3. Builds(pair.cert, pair.key) => slot' = {pair}
      BY <2>3, <3>1 DEF Replaces, InstallPem
    <3>4. Named' = pair
      BY <2>3, <3>1 DEF Named, Pem
    <3>5. ServedAsNamed'
      <4>1. Pem(tlsConfig.src, "cert")' = pair.cert /\ Pem(tlsConfig.src, "key")' = pair.key
        BY <2>3, <3>2 DEF Pem
      <4> QED
        BY <3>3, <3>4, <4>1 DEF ServedAsNamed
    <3> QED
      BY <2>4, <3>1, <3>5 DEF RoundIsCurrent
  <2>11. Settling'
    BY <1>0, <2>3, <2>8, <2>10 DEF Settling
  <2> QED
    BY <2>7, <2>9, <2>11 DEF CertInv
<1>12. CASE WarnIfExpiring
  <2>1. /\ installing["watch"].at = "warn"
        /\ installing' = [installing EXCEPT !["watch"] = AtRest]
        /\ quiet' = IF quiet = "watched" THEN "settled" ELSE quiet
        /\ UNCHANGED <<disk, issued, tlsConfig, slot, encrypted, certTime>>
    BY <1>12 DEF WarnIfExpiring
  <2>2. /\ installing'["watch"] = AtRest /\ installing'["save"] = installing["save"]
        /\ DOMAIN installing' = Installers
    BY <1>0, <2>1
  <2>3. warned' \subseteq Nat
    BY <1>0, <1>12 DEF WarnIfExpiring
  <2>4. Reads(AtRest)
    BY DEF Reads, AtRest
  <2>5. CertTyped'
    BY <1>0, <2>1, <2>2, <2>3, <2>4 DEF CertTyped, Installers
  <2>6. ASSUME quiet = "watched"
        PROVE  ServedAsNamed'
    <3>1. ServedAsNamed
      BY <1>0, <2>1, <2>6 DEF Settling, RoundIsCurrent
    <3> QED
      BY <2>1, <3>1 DEF ServedAsNamed, Named, Pem
  <2>7. OperatorWarned'
    <3> SUFFICES ASSUME NEW p \in slot, p.cert * Lifetime - certTime <= ExpiryWarning
                 PROVE  \E w \in warned' : certTime - w < WarningEvery
      BY <2>1 DEF OperatorWarned
    <3>1. p.cert * Lifetime \in Int
      BY <1>0, CertificateAssumption DEF Proven
    <3>2. PICK l \in Int : l = p.cert * Lifetime - certTime
      BY <1>0, <3>1
    <3>3. ~(l > ExpiryWarning)
      BY <3>2, CertificateAssumption
    <3>4. warned' = IF \E w \in warned : certTime - w < WarningEvery THEN warned ELSE {certTime}
      BY <1>12, <3>2, <3>3 DEF WarnIfExpiring
    <3>5. certTime - certTime < WarningEvery
      BY <1>0, CertificateAssumption
    <3> QED
      BY <3>4, <3>5
  <2>8. Settling'
    BY <1>0, <2>1, <2>2, <2>6, <2>7 DEF Settling, AtRest
  <2> QED
    BY <1>0, <2>1, <2>5, <2>8 DEF CertInv, Proven
<1>13. CASE RestartTls
  <2>1. Proven'
    BY <1>0, <1>13, LoadTlsIsProven DEF RestartTls, Proven
  <2>2. Reads(AtRest)
    BY DEF Reads, AtRest
  <2>3. CertTyped'
    BY <1>0, <1>13, <2>2 DEF RestartTls, CertTyped
  <2>4. Settling' /\ (encrypted' => slot' # {})
    BY <1>13 DEF RestartTls, Settling
  <2> QED
    BY <2>1, <2>3, <2>4 DEF CertInv
<1> QED
  BY <1>0, <1>1, <1>2, <1>3, <1>4, <1>5, <1>6, <1>9, <1>10, <1>11, <1>12, <1>13
     DEF CertNext, TlsConfigure

\* What is served is a certificate and its key at every moment of a renewal,
\* and what the files hold after a round of the watch that nothing crossed,
\* with the operator warned of its end in time (tls.rs: refresh, install_pem;
\* main.rs: CertWatch::check, expiry); whatever is issued and stored, and for
\* any lifetime and any of the two periods.
THEOREM CertificateFollowsHolds == CertSpec => []CertificateFollows
<1>1. CertInv /\ [CertNext]_certVars => CertInv'
  BY CertInvStep
<1>2. CertInv => CertificateFollows
  BY DEF CertInv, Proven, Settling, ServedAsNamed, OperatorWarned, Named, CertificateFollows
<1> QED
  BY <1>1, <1>2, CertInvInit, PTL DEF CertSpec

-----------------------------------------------------------------------------
(* The login throttle.                                                     *)

\* The requests that have passed the throttle and not compared yet.
Passed == {r \in Requests : request[r].at \in {"login", "basic"}}

\* A client whose attempts are spent is on record for as long as the block
\* lasts, and those that passed before can only use up the others' turns.
SpentIsOnRecord ==
    (ThrottleEnabled /\ now < spent.at + BlockTime) =>
        /\ \E f \in attempts : f.count >= MaxFails /\ f.until >= spent.at + BlockTime
        /\ spent.since + Cardinality(Passed) < Cardinality(Requests)

ThrottleInv ==
    /\ now \in Nat
    /\ DOMAIN request = Requests
    /\ spent \in [at : Int, since : Nat] /\ spent.at <= now
    /\ \A f \in attempts : f.count \in Nat /\ f.until \in Int
    /\ \A f, g \in attempts : f = g
    /\ SpentIsOnRecord

LEMMA PassedAreFew ==
    /\ IsFiniteSet(Passed) /\ Cardinality(Passed) \in Nat
    /\ Cardinality(Requests) \in Nat /\ Cardinality(Passed) <= Cardinality(Requests)
    /\ (Passed # Requests) => Cardinality(Passed) < Cardinality(Requests)
<1>1. Passed \subseteq Requests /\ IsFiniteSet(Requests)
  BY SessionsAssumption DEF Passed
<1> QED
  BY <1>1, FS_Subset, FS_CardinalityType

\* A step that leaves the throttle alone, and lets no request pass it.
LEMMA ThrottleUntouched ==
    ASSUME ThrottleInv, UNCHANGED <<attempts, spent>>, now' \in Nat, now <= now',
           DOMAIN request' = Requests, Passed' = Passed
    PROVE  ThrottleInv'
<1>1. SpentIsOnRecord'
  <2> SUFFICES ASSUME ThrottleEnabled, now' < spent.at + BlockTime
               PROVE  /\ \E f \in attempts : f.count >= MaxFails /\ f.until >= spent.at + BlockTime
                      /\ spent.since + Cardinality(Passed) < Cardinality(Requests)
    BY DEF SpentIsOnRecord, ThrottleEnabled
  <2>1. now < spent.at + BlockTime
    BY SessionsAssumption DEF ThrottleInv
  <2> QED
    BY <2>1 DEF ThrottleInv, SpentIsOnRecord
<1> QED
  BY <1>1 DEF ThrottleInv

\* record_failure leaves one record, with one failure more than the last.
LEMMA RecordFailureCounts ==
    ASSUME ThrottleInv
    PROVE  \E c \in Nat, u \in Int :
               /\ RecordFailure = {[count |-> c + 1,
                                    until |-> IF c + 1 >= MaxFails THEN now + BlockTime ELSE u]}
               /\ \A f \in attempts : c = f.count
<1>1. CASE attempts = {}
  <2>1. PICK f : f = [count |-> 0, until |-> now + FailedTtl]
    OBVIOUS
  <2>2. f.count = 0 /\ f.until = now + FailedTtl
    BY <2>1
  <2>3. PICK c, u : c = f.count /\ u = f.until
    OBVIOUS
  <2>4. RecordFailure = {[count |-> c + 1,
                          until |-> IF c + 1 >= MaxFails THEN now + BlockTime ELSE u]}
    BY <1>1, <2>1, <2>3 DEF RecordFailure
  <2>5. c \in Nat /\ u \in Int
    BY <2>2, <2>3, SessionsAssumption DEF ThrottleInv
  <2> QED
    BY <1>1, <2>4, <2>5
<1>2. CASE attempts # {}
  <2>1. PICK f \in attempts : attempts = {f}
    BY <1>2 DEF ThrottleInv
  <2>2. PICK c, u : c = f.count /\ u = f.until
    OBVIOUS
  <2>3. RecordFailure = {[count |-> c + 1,
                          until |-> IF c + 1 >= MaxFails THEN now + BlockTime ELSE u]}
    BY <1>2, <2>1, <2>2 DEF RecordFailure
  <2>4. c \in Nat /\ u \in Int
    BY <2>2 DEF ThrottleInv
  <2> QED
    BY <2>1, <2>2, <2>3, <2>4
<1> QED
  BY <1>1, <1>2

LEMMA ThrottleInvStep ==
    ASSUME ThrottleInv, [SessionsNext]_sessionVars
    PROVE  ThrottleInv'
<1>0. /\ now \in Nat /\ BlockTime \in Nat /\ MaxFails \in Nat /\ FailedTtl \in Nat
      /\ DOMAIN request = Requests
      /\ spent \in [at : Int, since : Nat] /\ spent.at <= now
      /\ spent.at \in Int /\ spent.since \in Nat
      /\ \A f \in attempts : f.count \in Nat /\ f.until \in Int
      /\ \A f, g \in attempts : f = g
      /\ SpentIsOnRecord
  BY SessionsAssumption DEF ThrottleInv
<1>1. ASSUME UNCHANGED <<attempts, spent, now, request>>
      PROVE  ThrottleInv'
  BY <1>0, <1>1, ThrottleUntouched DEF Passed
<1>2. CASE TimePasses
  BY <1>0, <1>2, ThrottleUntouched DEF TimePasses, Passed
<1>3. ASSUME NEW r \in Requests, NEW x, request' = [request EXCEPT ![r] = x],
             x.at \notin {"login", "basic"}, request[r].at \notin {"login", "basic"},
             UNCHANGED <<attempts, spent, now>>
      PROVE  ThrottleInv'
  <2>1. Passed' = Passed /\ DOMAIN request' = Requests
    BY <1>0, <1>3 DEF Passed
  <2> QED
    BY <1>0, <1>3, <2>1, ThrottleUntouched
<1>4. ASSUME NEW r \in Requests, NEW kind \in {"login", "basic"}, CheckThrottle(r, kind)
      PROVE  ThrottleInv'
  <2>1. /\ attempts' = Unlapsed /\ ~Blocked /\ UNCHANGED <<now, spent>>
        /\ DOMAIN request' = Requests
    BY <1>0, <1>4 DEF CheckThrottle
  <2>2. ~(ThrottleEnabled /\ now < spent.at + BlockTime)
    <3> SUFFICES ASSUME ThrottleEnabled, now < spent.at + BlockTime
                 PROVE  FALSE
      OBVIOUS
    <3>1. PICK f \in attempts : f.count >= MaxFails /\ f.until >= spent.at + BlockTime
      BY <1>0 DEF SpentIsOnRecord
    <3>2. f.until > now
      BY <1>0, <3>1
    <3> QED
      BY <2>1, <3>1, <3>2 DEF Blocked, Unlapsed
  <2>3. SpentIsOnRecord'
    BY <2>1, <2>2 DEF SpentIsOnRecord, ThrottleEnabled
  <2> QED
    BY <1>0, <2>1, <2>3 DEF ThrottleInv, Unlapsed
<1>5. ASSUME NEW r \in Requests, RefuseThrottled(r)
      PROVE  ThrottleInv'
  <2>1. attempts' = Unlapsed /\ UNCHANGED <<now, spent, request>>
    BY <1>5 DEF RefuseThrottled
  <2>2. SpentIsOnRecord'
    <3> SUFFICES ASSUME ThrottleEnabled, now < spent.at + BlockTime
                 PROVE  /\ \E f \in attempts' : f.count >= MaxFails /\ f.until >= spent.at + BlockTime
                        /\ spent.since + Cardinality(Passed) < Cardinality(Requests)
      BY <2>1 DEF SpentIsOnRecord, ThrottleEnabled, Passed
    <3>1. PICK f \in attempts : f.count >= MaxFails /\ f.until >= spent.at + BlockTime
      BY <1>0 DEF SpentIsOnRecord
    <3>2. f \in attempts'
      BY <1>0, <2>1, <3>1 DEF Unlapsed
    <3> QED
      BY <1>0, <3>1, <3>2 DEF SpentIsOnRecord
  <2> QED
    BY <1>0, <2>1, <2>2 DEF ThrottleInv, Unlapsed
<1>6. ASSUME NEW r \in Requests, request[r].at \in {"login", "basic"},
             NEW x, x.at \notin {"login", "basic"}, request' = [request EXCEPT ![r] = x]
      PROVE  /\ DOMAIN request' = Requests /\ Passed' = Passed \ {r}
             /\ Cardinality(Passed') \in Nat /\ Cardinality(Passed) \in Nat
             /\ Cardinality(Passed') = Cardinality(Passed) - 1
             /\ Cardinality(Requests) \in Nat /\ Cardinality(Passed) <= Cardinality(Requests)
  <2>1. r \in Passed /\ Passed' = Passed \ {r} /\ DOMAIN request' = Requests
    BY <1>0, <1>6 DEF Passed
  <2> QED
    BY <2>1, PassedAreFew, FS_RemoveElement, FS_CardinalityType
<1>7. ASSUME NEW r \in Requests, WrongPassword(r)
      PROVE  ThrottleInv'
  <2>1. /\ request[r].at \in {"login", "basic"} /\ UNCHANGED now
        /\ attempts' = IF ThrottleEnabled THEN RecordFailure ELSE attempts
        /\ request' = [request EXCEPT ![r] = Idle] /\ Idle.at \notin {"login", "basic"}
    BY <1>7 DEF WrongPassword, Idle
  <2>2. PICK c \in Nat, u \in Int :
            /\ RecordFailure = {[count |-> c + 1,
                                 until |-> IF c + 1 >= MaxFails THEN now + BlockTime ELSE u]}
            /\ \A f \in attempts : c = f.count
    BY RecordFailureCounts
  <2>3. PICK g : g = [count |-> c + 1,
                      until |-> IF c + 1 >= MaxFails THEN now + BlockTime ELSE u]
    OBVIOUS
  <2>4. /\ RecordFailure = {g} /\ g.count = c + 1 /\ g.until \in Int
        /\ c + 1 >= MaxFails => g.until = now + BlockTime
    BY <1>0, <2>2, <2>3
  <2>5. /\ DOMAIN request' = Requests
        /\ Cardinality(Passed') \in Nat /\ Cardinality(Passed) \in Nat
        /\ Cardinality(Passed') = Cardinality(Passed) - 1
        /\ Cardinality(Requests) \in Nat /\ Cardinality(Passed) <= Cardinality(Requests)
    BY <1>6, <2>1
  <2>6. /\ \A f \in attempts' : f.count \in Nat /\ f.until \in Int
        /\ \A f, h \in attempts' : f = h
    BY <1>0, <2>1, <2>4
  <2>7. CASE c + 1 = MaxFails
    <3>1. spent' = [at |-> now, since |-> 0]
      BY <1>7, <2>4, <2>7 DEF WrongPassword
    <3>2. spent'.at = now /\ spent'.since = 0 /\ spent' \in [at : Int, since : Nat]
      BY <1>0, <3>1
    <3>3. SpentIsOnRecord'
      BY <1>0, <2>1, <2>4, <2>5, <2>7, <3>2 DEF SpentIsOnRecord, ThrottleEnabled
    <3> QED
      BY <1>0, <2>1, <2>5, <2>6, <3>2, <3>3 DEF ThrottleInv
  <2>8. CASE c + 1 # MaxFails
    <3>1. spent' = [spent EXCEPT !.since = @ + 1]
      BY <1>7, <2>4, <2>8 DEF WrongPassword
    <3>2. /\ spent'.at = spent.at /\ spent'.since = spent.since + 1
          /\ spent' \in [at : Int, since : Nat]
      BY <1>0, <3>1
    <3>3. SpentIsOnRecord'
      <4> SUFFICES ASSUME ThrottleEnabled, now < spent.at + BlockTime
                   PROVE  /\ \E f \in attempts' : /\ f.count >= MaxFails
                                                  /\ f.until >= spent.at + BlockTime
                          /\ spent.since + 1 + Cardinality(Passed') < Cardinality(Requests)
        BY <2>1, <3>2 DEF SpentIsOnRecord, ThrottleEnabled
      <4>1. /\ \E f \in attempts : f.count >= MaxFails
            /\ spent.since + Cardinality(Passed) < Cardinality(Requests)
        BY <1>0 DEF SpentIsOnRecord
      <4>2. c >= MaxFails
        BY <2>2, <4>1
      <4>3. g \in attempts' /\ g.count >= MaxFails /\ g.until >= spent.at + BlockTime
        BY <1>0, <2>1, <2>4, <4>2
      <4>4. spent.since + 1 + Cardinality(Passed') < Cardinality(Requests)
        BY <1>0, <2>5, <4>1
      <4> QED
        BY <4>3, <4>4
    <3> QED
      BY <1>0, <2>1, <2>5, <2>6, <3>2, <3>3 DEF ThrottleInv
  <2> QED
    BY <2>7, <2>8
<1>8. ASSUME spent' = [at |-> -BlockTime, since |-> 0], attempts' = {}, UNCHANGED now,
             DOMAIN request' = Requests
      PROVE  ThrottleInv'
  <2>1. spent'.at = -BlockTime /\ spent' \in [at : Int, since : Nat] /\ spent'.at <= now
    BY <1>0, <1>8
  <2>2. SpentIsOnRecord'
    BY <1>0, <1>8, <2>1 DEF SpentIsOnRecord
  <2> QED
    BY <1>0, <1>8, <2>1, <2>2 DEF ThrottleInv
<1>9. ASSUME NEW r \in Requests, RightPassword(r)
      PROVE  ThrottleInv'
  BY <1>0, <1>8, <1>9 DEF RightPassword
<1>10. ASSUME NEW r \in Requests, Create(r)
       PROVE  ThrottleInv'
  <2>1. PICK tok : request' = [request EXCEPT ![r] = [at |-> "copy", token |-> tok, out |-> FALSE]]
    BY <1>10 DEF Create
  <2> QED
    BY <1>3, <1>10, <2>1 DEF Create
<1>11. ASSUME NEW r \in Requests, PersistCopy(r)
       PROVE  ThrottleInv'
  BY <1>0, <1>3, <1>11 DEF PersistCopy
<1>12. ASSUME NEW r \in Requests, PersistWrite(r)
       PROVE  ThrottleInv'
  BY <1>3, <1>12 DEF PersistWrite, Idle
<1>13. ASSUME NEW r \in Requests, NEW tok \in Tokens, RemoveSession(r, tok)
       PROVE  ThrottleInv'
  <2>1. PICK x : x = [at |-> "copy", token |-> tok, out |-> TRUE]
    OBVIOUS
  <2>2. x.at = "copy" /\ request[r].at = "idle"
    BY <1>13, <2>1 DEF RemoveSession, Idle
  <2>3. request' = [request EXCEPT ![r] = x] /\ UNCHANGED <<attempts, spent, now>>
    BY <1>13, <2>1 DEF RemoveSession
  <2> QED
    BY <1>3, <2>2, <2>3
<1>14. CASE SessionsRestart
  BY <1>8, <1>14 DEF SessionsRestart
<1>15. ASSUME NEW tok \in Tokens, CookieRequest(tok)
       PROVE  ThrottleInv'
  BY <1>1, <1>15 DEF CookieRequest
<1>16. CASE SweepLen \/ SweepRetain \/ SweepCompare \/ SweepWrite \/ UNCHANGED sessionVars
  BY <1>1, <1>16 DEF SweepLen, SweepRetain, SweepCompare, SweepWrite, sessionVars
<1> QED
  BY <1>2, <1>4, <1>5, <1>7, <1>9, <1>10, <1>11, <1>12, <1>13, <1>14, <1>15, <1>16
     DEF SessionsNext

\* While the block lasts, no more guesses are compared than other threads
\* had past the throttle when it began, for any number of threads, attempts
\* and any length of the block (auth.rs: blocked_for, record_failure).
THEOREM SpentAttemptsBlockHolds == SessionsSpec => []SpentAttemptsBlock
<1>1. SessionsInit => ThrottleInv
  <2> SUFFICES ASSUME SessionsInit PROVE ThrottleInv
    OBVIOUS
  <2>1. /\ now = 0 /\ attempts = {} /\ DOMAIN request = Requests
        /\ spent = [at |-> -BlockTime, since |-> 0]
    BY DEF SessionsInit
  <2>2. spent.at = -BlockTime /\ spent \in [at : Int, since : Nat]
    BY <2>1, SessionsAssumption
  <2>3. SpentIsOnRecord
    BY <2>1, <2>2, SessionsAssumption DEF SpentIsOnRecord
  <2> QED
    BY <2>1, <2>2, <2>3, SessionsAssumption DEF ThrottleInv
<1>2. ThrottleInv /\ [SessionsNext]_sessionVars => ThrottleInv'
  BY ThrottleInvStep
<1>3. ThrottleInv => SpentAttemptsBlock
  <2> SUFFICES ASSUME ThrottleInv, ThrottleEnabled, now < spent.at + BlockTime
               PROVE  spent.since < Cardinality(Requests)
    BY DEF SpentAttemptsBlock
  <2>1. spent.since + Cardinality(Passed) < Cardinality(Requests) /\ spent.since \in Nat
    BY DEF ThrottleInv, SpentIsOnRecord
  <2> QED
    BY <2>1, PassedAreFew
<1> QED
  BY <1>1, <1>2, <1>3, PTL DEF SessionsSpec

-----------------------------------------------------------------------------
(* The sessions.                                                           *)

\* A copy c of the sessions keeps the word given to the browsers: of the
\* tokens in it none was logged out and none is yet to be handed out, and
\* those of answered logins are in it until they expire.
KeepsWord(c, in, out, un, t) ==
    /\ \A tok \in DOMAIN c : c[tok] \in Nat /\ tok \notin out /\ tok \notin un
    /\ \A tok \in DOMAIN in : in[tok] > t => tok \in DOMAIN c /\ c[tok] >= in[tok]

Kept(c) == KeepsWord(c, loggedIn, loggedOut, unused, now)

\* What a request that is persisting its change knows of it.
ChangeSeen(x) ==
    /\ x.at \in {"copy", "write"} =>
        /\ x.token \notin unused
        /\ x.out => x.token \notin DOMAIN by_token
    /\ x.at = "write" =>
        /\ Kept(x.units)
        /\ x.out => x.token \notin DOMAIN x.units
        /\ ~x.out /\ x.token \in DOMAIN by_token =>
             x.token \in DOMAIN x.units /\ x.units[x.token] = EncodeSession(by_token[x.token])

OneWriter ==
    /\ \A r, q \in Requests : request[r].at = "write" /\ request[q].at = "write" => r = q
    /\ \A r \in Requests : request[r].at = "write" => sweeper.at # "write"

WordTyped ==
    /\ now \in Nat
    /\ DOMAIN request = Requests
    /\ \A tok \in DOMAIN loggedIn :
         loggedIn[tok] \in Nat /\ EncodeSession(loggedIn[tok]) = loggedIn[tok]
    /\ \A tok \in loggedOut : tok \notin unused

WordInv ==
    /\ WordTyped
    /\ Kept(by_token)
    /\ Kept(sessionsDb)
    /\ \A r \in Requests : ChangeSeen(request[r])
    /\ sweeper.at = "write" => Kept(sweeper.units)
    /\ OneWriter

LEMMA Multiples ==
    ASSUME NEW k \in Nat \ {0}, NEW m \in Nat, NEW n \in Nat, NEW r \in Nat, r < k,
           m * k <= n * k + r
    PROVE  m <= n
<1> SUFFICES ASSUME n + 1 <= m PROVE FALSE
  OBVIOUS
<1>1. PICK d \in Nat : m = n + 1 + d
  <2>1. m - (n + 1) \in Nat /\ m = n + 1 + (m - (n + 1))
    OBVIOUS
  <2> QED
    BY <2>1
<1>2. n * k \in Nat /\ d * k \in Nat
  BY SMT
<1>3. m * k = n * k + k + d * k
  BY <1>1, SMT
<1> QED
  BY <1>2, <1>3

\* The stored expiry is not later than the session's, and not earlier than a
\* stored one the session outlives.
LEMMA EncodeRoundsDown ==
    ASSUME NEW a \in Nat
    PROVE  /\ EncodeSession(a) \in Nat /\ EncodeSession(a) <= a
           /\ EncodeSession(EncodeSession(a)) = EncodeSession(a)
           /\ \A b \in Nat : EncodeSession(b) = b /\ a >= b => EncodeSession(a) >= b
<1>0. PICK k \in Nat \ {0} : k = SecondTicks
  BY SessionsAssumption
<1>1. \A c \in Nat : \E q \in Nat, r \in Nat : r < k /\ c = q * k + r /\ c \div k = q
  <2> TAKE c \in Nat
  <2>1. /\ c \div k \in Nat /\ c % k \in Nat /\ c % k < k
        /\ c = (c \div k) * k + (c % k)
    BY SMT
  <2> QED
    BY <2>1
<1>2. \A q \in Nat : q * k \in Nat /\ (q * k) \div k = q
  BY SMT
<1>3. PICK q \in Nat, r \in Nat : r < k /\ a = q * k + r /\ a \div k = q
  BY <1>1
<1>4. EncodeSession(a) = q * k
  BY <1>0, <1>3 DEF EncodeSession
<1>5. q * k \in Nat /\ q * k <= a
  BY <1>2, <1>3
<1>6. EncodeSession(q * k) = q * k
  BY <1>0, <1>2 DEF EncodeSession
<1>7. ASSUME NEW b \in Nat, EncodeSession(b) = b, a >= b
      PROVE  q * k >= b
  <2>1. PICK m \in Nat : b = m * k
    <3>1. b \div k \in Nat
      BY <1>1
    <3> QED
      BY <1>0, <1>7, <3>1 DEF EncodeSession
  <2>2. m <= q
    BY <1>3, <1>7, <2>1, Multiples
  <2>3. PICK d \in Nat : q = m + d
    <3>1. q - m \in Nat /\ q = m + (q - m)
      BY <2>2
    <3> QED
      BY <3>1
  <2>4. m * k \in Nat /\ d * k \in Nat /\ q * k = m * k + d * k
    BY <2>3, SMT
  <2> QED
    BY <2>1, <2>4
<1> QED
  BY <1>4, <1>5, <1>6, <1>7

\* What persist copies keeps the word that the sessions keep.
LEMMA StoredFormKeeps ==
    ASSUME WordTyped, Kept(by_token), NEW c, c = StoredForm
    PROVE  /\ Kept(c)
           /\ DOMAIN c = DOMAIN by_token
           /\ \A tok \in DOMAIN c : c[tok] = EncodeSession(by_token[tok])
<1>1. /\ DOMAIN c = DOMAIN by_token
      /\ \A tok \in DOMAIN c : c[tok] = EncodeSession(by_token[tok])
  BY DEF StoredForm
<1>2. \A tok \in DOMAIN by_token :
          by_token[tok] \in Nat /\ tok \notin loggedOut /\ tok \notin unused
  BY DEF Kept, KeepsWord
<1>3. \A tok \in DOMAIN c : c[tok] \in Nat /\ tok \notin loggedOut /\ tok \notin unused
  BY <1>1, <1>2, EncodeRoundsDown
<1>4. ASSUME NEW tok \in DOMAIN loggedIn, loggedIn[tok] > now
      PROVE  tok \in DOMAIN c /\ c[tok] >= loggedIn[tok]
  <2>1. tok \in DOMAIN by_token /\ by_token[tok] >= loggedIn[tok] /\ by_token[tok] \in Nat
    BY <1>2, <1>4 DEF Kept, KeepsWord
  <2>2. loggedIn[tok] \in Nat /\ EncodeSession(loggedIn[tok]) = loggedIn[tok]
    BY DEF WordTyped
  <2> QED
    BY <1>1, <2>1, <2>2, EncodeRoundsDown
<1> QED
  BY <1>1, <1>3, <1>4 DEF Kept, KeepsWord

\* So does a copy from which only expired sessions were dropped.
LEMMA DroppingExpiredKeeps ==
    ASSUME WordTyped, NEW c, Kept(c), NEW S \in SUBSET DOMAIN c,
           \A tok \in DOMAIN c \ S : c[tok] <= now,
           NEW d, d = Restrict(c, S)
    PROVE  /\ Kept(d) /\ DOMAIN d = S
           /\ \A tok \in S : d[tok] = c[tok]
<1>1. DOMAIN d = S /\ \A tok \in S : d[tok] = c[tok]
  BY DEF Restrict
<1>2. ASSUME NEW tok \in DOMAIN loggedIn, loggedIn[tok] > now
      PROVE  tok \in S
  <2>1. tok \in DOMAIN c /\ c[tok] >= loggedIn[tok] /\ c[tok] \in Nat
    BY <1>2 DEF Kept, KeepsWord
  <2>2. loggedIn[tok] \in Nat /\ now \in Nat
    BY DEF WordTyped
  <2> QED
    BY <1>2, <2>1, <2>2
<1> QED
  BY <1>1, <1>2 DEF Kept, KeepsWord

\* A step beside the sessions, which may end requests and the sweep.
LEMMA WordUntouched ==
    ASSUME WordInv,
           UNCHANGED <<by_token, sessionsDb, unused, loggedIn, loggedOut, now>>,
           DOMAIN request' = Requests,
           \A r \in Requests : request'[r] = request[r] \/ request'[r].at \notin {"copy", "write"},
           sweeper' = sweeper \/ sweeper'.at # "write"
    PROVE  WordInv'
<1>1. WordTyped' /\ Kept(by_token)' /\ Kept(sessionsDb)'
  BY DEF WordInv, WordTyped, Kept, EncodeSession
<1>2. \A r \in Requests : ChangeSeen(request[r])'
  BY DEF WordInv, ChangeSeen, Kept, EncodeSession
<1>3. (sweeper.at = "write" => Kept(sweeper.units))'
  BY DEF WordInv, Kept
<1>4. OneWriter'
  BY DEF WordInv, OneWriter
<1> QED
  BY <1>1, <1>2, <1>3, <1>4 DEF WordInv

\* A step that drops expired sessions from memory.
LEMMA WordAfterDrop ==
    ASSUME WordInv, NEW S \in SUBSET DOMAIN by_token,
           \A tok \in DOMAIN by_token \ S : by_token[tok] <= now,
           by_token' = Restrict(by_token, S),
           UNCHANGED <<sessionsDb, unused, loggedIn, loggedOut, now, request>>,
           sweeper' = sweeper \/ sweeper'.at # "write"
    PROVE  WordInv'
<1>1. /\ Kept(Restrict(by_token, S)) /\ DOMAIN by_token' = S
      /\ \A tok \in S : by_token'[tok] = by_token[tok]
  BY DroppingExpiredKeeps DEF WordInv
<1>2. WordTyped' /\ Kept(sessionsDb)'
  BY DEF WordInv, WordTyped, Kept, EncodeSession
<1>3. Kept(by_token)'
  BY <1>1 DEF Kept
<1>4. \A r \in Requests : ChangeSeen(request[r])'
  BY <1>1 DEF WordInv, ChangeSeen, Kept, EncodeSession
<1>5. (sweeper.at = "write" => Kept(sweeper.units))'
  BY DEF WordInv, Kept
<1>6. OneWriter'
  BY DEF WordInv, OneWriter
<1> QED
  BY <1>2, <1>3, <1>4, <1>5, <1>6 DEF WordInv

\* Time, fewer answered logins and fewer unused tokens ask no more of a copy.
LEMMA KeepsWordStill ==
    ASSUME NEW c, NEW in, NEW out, NEW un, NEW t \in Nat, KeepsWord(c, in, out, un, t),
           \A tok \in DOMAIN in : in[tok] \in Nat,
           NEW in2, DOMAIN in2 \subseteq DOMAIN in, \A tok \in DOMAIN in2 : in2[tok] = in[tok],
           NEW un2, un2 \subseteq un, NEW t2 \in Nat, t <= t2
    PROVE  KeepsWord(c, in2, out, un2, t2)
BY DEF KeepsWord

LEMMA WordInvStep ==
    ASSUME ~PersistsOverlap, ~WritesFail, WordInv, [SessionsNext]_sessionVars
    PROVE  WordInv'
<1>0. /\ WordTyped /\ now \in Nat /\ DOMAIN request = Requests
      /\ \A tok \in DOMAIN loggedIn :
            loggedIn[tok] \in Nat /\ EncodeSession(loggedIn[tok]) = loggedIn[tok]
      /\ \A tok \in loggedOut : tok \notin unused
      /\ Kept(by_token) /\ Kept(sessionsDb)
      /\ \A r \in Requests : ChangeSeen(request[r])
      /\ sweeper.at = "write" => Kept(sweeper.units)
      /\ OneWriter
  BY DEF WordInv, WordTyped
<1>1. CASE TimePasses
  <2>1. /\ now' \in Nat /\ now <= now'
        /\ UNCHANGED <<by_token, sessionsDb, request, sweeper, unused, loggedIn, loggedOut>>
    BY <1>0, <1>1 DEF TimePasses
  <2>2. \A c : Kept(c) => KeepsWord(c, loggedIn, loggedOut, unused, now')
    BY <1>0, <2>1, KeepsWordStill DEF Kept
  <2>3. \A r \in Requests : ChangeSeen(request[r])'
    BY <1>0, <2>1, <2>2 DEF ChangeSeen, Kept, EncodeSession
  <2>4. Kept(by_token)' /\ Kept(sessionsDb)' /\ (sweeper.at = "write" => Kept(sweeper.units))'
    BY <1>0, <2>1, <2>2 DEF Kept
  <2>5. WordTyped' /\ OneWriter'
    BY <1>0, <2>1 DEF WordTyped, OneWriter, EncodeSession
  <2> QED
    BY <2>3, <2>4, <2>5 DEF WordInv
<1>2. ASSUME NEW r \in Requests, NEW x, request' = [request EXCEPT ![r] = x],
             x.at \notin {"copy", "write"},
             UNCHANGED <<by_token, sessionsDb, unused, loggedIn, loggedOut, now, sweeper>>
      PROVE  WordInv'
  <2>1. /\ DOMAIN request' = Requests
        /\ \A q \in Requests : request'[q] = request[q] \/ request'[q].at \notin {"copy", "write"}
    BY <1>0, <1>2
  <2> QED
    BY <1>2, <2>1, WordUntouched
<1>3. ASSUME NEW r \in Requests,
             \/ \E kind \in {"login", "basic"} : CheckThrottle(r, kind)
             \/ RefuseThrottled(r) \/ WrongPassword(r) \/ RightPassword(r)
      PROVE  WordInv'
  <2>1. ASSUME NEW kind \in {"login", "basic"}, CheckThrottle(r, kind)
        PROVE  WordInv'
    <3>1. PICK x : x = [at |-> kind]
      OBVIOUS
    <3>2. x.at \notin {"copy", "write"}
      BY <3>1
    <3> QED
      BY <1>2, <2>1, <3>1, <3>2 DEF CheckThrottle
  <2>2. CASE RefuseThrottled(r)
    BY <1>0, <2>2, WordUntouched DEF RefuseThrottled
  <2>3. CASE WrongPassword(r)
    <3>1. Idle.at \notin {"copy", "write"}
      BY DEF Idle
    <3> QED
      BY <1>2, <2>3, <3>1 DEF WrongPassword
  <2>4. CASE RightPassword(r)
    <3>1. PICK x : x = IF request[r].at = "login" THEN [at |-> "create"] ELSE Idle
      OBVIOUS
    <3>2. x.at \notin {"copy", "write"}
      BY <3>1 DEF Idle
    <3>3. /\ request' = [request EXCEPT ![r] = x]
          /\ UNCHANGED <<by_token, sessionsDb, unused, loggedIn, loggedOut, now, sweeper>>
      BY <2>4, <3>1 DEF RightPassword
    <3> QED
      BY <1>2, <3>2, <3>3
  <2> QED
    BY <1>3, <2>1, <2>2, <2>3, <2>4
<1>4. ASSUME NEW r \in Requests, Create(r)
      PROVE  WordInv'
  <2>1. PICK tok \in unused :
            /\ unused' = unused \ {tok}
            /\ by_token' = Inserted(by_token, tok, now + SessionTtl)
            /\ request' = [request EXCEPT ![r] = [at |-> "copy", token |-> tok, out |-> FALSE]]
    BY <1>4 DEF Create
  <2>2. PICK x : x = [at |-> "copy", token |-> tok, out |-> FALSE]
    OBVIOUS
  <2>3. x.at = "copy" /\ x.token = tok /\ ~x.out
    BY <2>2
  <2>4. /\ UNCHANGED <<now, sessionsDb, sweeper, loggedIn, loggedOut>>
        /\ DOMAIN request' = Requests /\ request'[r] = x
        /\ \A q \in Requests \ {r} : request'[q] = request[q]
    BY <1>0, <1>4, <2>1, <2>2 DEF Create
  <2>5. /\ DOMAIN by_token' = DOMAIN by_token \cup {tok}
        /\ by_token'[tok] = now + SessionTtl
        /\ \A t \in DOMAIN by_token : t # tok => by_token'[t] = by_token[t]
    BY <2>1 DEF Inserted
  <2>6. tok \notin DOMAIN by_token
    BY <1>0 DEF Kept, KeepsWord
  <2>7. \A c : Kept(c) => KeepsWord(c, loggedIn, loggedOut, unused', now)
    BY <1>0, <2>1, KeepsWordStill DEF Kept
  <2>8. Kept(by_token)'
    <3>1. now + SessionTtl \in Nat /\ tok \notin loggedOut
      BY <1>0, SessionsAssumption
    <3>2. \A t \in DOMAIN by_token' :
              by_token'[t] \in Nat /\ t \notin loggedOut /\ t \notin unused'
      BY <1>0, <2>1, <2>5, <2>6, <3>1 DEF Kept, KeepsWord
    <3>3. \A t \in DOMAIN loggedIn : loggedIn[t] > now =>
              t \in DOMAIN by_token' /\ by_token'[t] >= loggedIn[t]
      BY <1>0, <2>5, <2>6 DEF Kept, KeepsWord
    <3> QED
      BY <2>4, <3>2, <3>3 DEF Kept, KeepsWord
  <2>9. Kept(sessionsDb)' /\ (sweeper.at = "write" => Kept(sweeper.units))'
    BY <1>0, <2>4, <2>7 DEF Kept
  <2>10. ASSUME NEW q \in Requests
         PROVE  ChangeSeen(request[q])'
    <3>1. CASE q = r
      BY <2>1, <2>3, <2>4, <3>1 DEF ChangeSeen
    <3>2. CASE q # r
      <4>1. PICK y : y = request[q] /\ y = request'[q] /\ ChangeSeen(y)
        BY <1>0, <2>4, <3>2
      <4>2. y.at \in {"copy", "write"} => y.token # tok
        BY <4>1 DEF ChangeSeen
      <4>3. ChangeSeen(y)'
        BY <2>1, <2>4, <2>5, <2>7, <4>1, <4>2 DEF ChangeSeen, Kept, EncodeSession
      <4> QED
        BY <4>1, <4>3
    <3> QED
      BY <3>1, <3>2
  <2>11. WordTyped' /\ OneWriter'
    BY <1>0, <2>1, <2>3, <2>4 DEF WordTyped, OneWriter, EncodeSession
  <2> QED
    BY <2>8, <2>9, <2>10, <2>11 DEF WordInv
<1>5. ASSUME NEW r \in Requests, NEW tok \in Tokens, RemoveSession(r, tok)
      PROVE  WordInv'
  <2>1. PICK x : x = [at |-> "copy", token |-> tok, out |-> TRUE]
    OBVIOUS
  <2>2. x.at = "copy" /\ x.token = tok
    BY <2>1
  <2>3. /\ UNCHANGED <<now, sessionsDb, sweeper, unused, loggedOut>> /\ tok \notin unused
        /\ DOMAIN request' = Requests /\ request'[r] = x
        /\ \A q \in Requests \ {r} : request'[q] = request[q]
    BY <1>0, <1>5, <2>1 DEF RemoveSession, Known
  <2>4. /\ DOMAIN by_token' = DOMAIN by_token \ {tok}
        /\ \A t \in DOMAIN by_token' : by_token'[t] = by_token[t]
        /\ DOMAIN loggedIn' = DOMAIN loggedIn \ {tok}
        /\ \A t \in DOMAIN loggedIn' : loggedIn'[t] = loggedIn[t]
    BY <1>5 DEF RemoveSession, Restrict
  <2>5. \A c : Kept(c) => KeepsWord(c, loggedIn', loggedOut, unused, now)
    BY <1>0, <2>4, KeepsWordStill DEF Kept
  <2>6. Kept(by_token)'
    BY <1>0, <2>3, <2>4 DEF Kept, KeepsWord
  <2>7. Kept(sessionsDb)' /\ (sweeper.at = "write" => Kept(sweeper.units))'
    BY <1>0, <2>3, <2>5 DEF Kept
  <2>8. ASSUME NEW q \in Requests
        PROVE  ChangeSeen(request[q])'
    <3>1. CASE q = r
      BY <2>2, <2>3, <2>4, <3>1 DEF ChangeSeen
    <3>2. CASE q # r
      <4>1. PICK y : y = request[q] /\ y = request'[q] /\ ChangeSeen(y)
        BY <1>0, <2>3, <3>2
      <4>2. ChangeSeen(y)'
        BY <2>3, <2>4, <2>5, <4>1 DEF ChangeSeen, Kept, EncodeSession
      <4> QED
        BY <4>1, <4>2
    <3> QED
      BY <3>1, <3>2
  <2>9. WordTyped' /\ OneWriter'
    BY <1>0, <2>2, <2>3, <2>4 DEF WordTyped, OneWriter, EncodeSession
  <2> QED
    BY <2>6, <2>7, <2>8, <2>9 DEF WordInv
<1>6. ASSUME NEW tok \in Tokens, CookieRequest(tok)
      PROVE  WordInv'
  <2>1. CASE by_token[tok] <= now
    <3>1. by_token' = Restrict(by_token, DOMAIN by_token \ {tok})
      BY <1>6, <2>1 DEF CookieRequest
    <3>2. \A t \in DOMAIN by_token \ (DOMAIN by_token \ {tok}) : by_token[t] <= now
      BY <2>1
    <3> QED
      BY <1>6, <3>1, <3>2, WordAfterDrop DEF CookieRequest
  <2>2. CASE ~(by_token[tok] <= now)
    <3>1. UNCHANGED <<by_token, sessionsDb, unused, loggedIn, loggedOut, now, request, sweeper>>
      BY <1>6, <2>2 DEF CookieRequest
    <3> QED
      BY <1>0, <3>1, WordUntouched
  <2> QED
    BY <2>1, <2>2
<1>7. CASE SweepRetain
  <2>1. PICK S : S = {tok \in DOMAIN by_token : by_token[tok] > now}
    OBVIOUS
  <2>2. S \in SUBSET DOMAIN by_token /\ \A tok \in DOMAIN by_token \ S : by_token[tok] <= now
    BY <1>0, <2>1 DEF Kept, KeepsWord
  <2>3. /\ by_token' = Restrict(by_token, S)
        /\ UNCHANGED <<sessionsDb, unused, loggedIn, loggedOut, now, request>>
    BY <1>7, <2>1 DEF SweepRetain
  <2>4. sweeper' = sweeper \/ sweeper'.at # "write"
    <3>1. sweeper' = [sweeper EXCEPT !.at = "compare"] /\ sweeper.at = "retain"
      BY <1>7 DEF SweepRetain
    <3>2. CASE "at" \in DOMAIN sweeper
      BY <3>1, <3>2
    <3>3. CASE "at" \notin DOMAIN sweeper
      BY <3>1, <3>3
    <3> QED
      BY <3>2, <3>3
  <2> QED
    BY <2>2, <2>3, <2>4, WordAfterDrop
<1>8. CASE SweepLen
  <2>1. sweeper'.at # "write"
    BY <1>8 DEF SweepLen
  <2> QED
    BY <1>0, <1>8, <2>1, WordUntouched DEF SweepLen
<1>9. MayCopy => /\ \A r \in Requests : request[r].at # "write"
                 /\ sweeper.at # "write"
  BY DEF MayCopy, Writing
<1>10. PICK c : c = StoredForm
  OBVIOUS
<1>11. /\ Kept(c) /\ DOMAIN c = DOMAIN by_token
       /\ \A tok \in DOMAIN c : c[tok] = EncodeSession(by_token[tok])
  BY <1>0, <1>10, StoredFormKeeps
<1>12. ASSUME NEW r \in Requests, PersistCopy(r)
       PROVE  WordInv'
  <2>1. PICK tok, out : tok = request[r].token /\ out = request[r].out
    OBVIOUS
  <2>2. PICK x : x = [at |-> "write", token |-> tok, out |-> out, units |-> c]
    OBVIOUS
  <2>3. x.at = "write" /\ x.token = tok /\ x.out = out /\ x.units = c
    BY <2>2
  <2>4. /\ request[r].at = "copy" /\ MayCopy
        /\ UNCHANGED <<now, by_token, sessionsDb, sweeper, unused, loggedIn, loggedOut>>
        /\ request' = [request EXCEPT ![r] = x]
    BY <1>10, <1>12, <2>1, <2>2 DEF PersistCopy
  <2>5. /\ DOMAIN request' = Requests /\ request'[r] = x
        /\ \A q \in Requests \ {r} : request'[q] = request[q]
    BY <1>0, <2>4
  <2>6. tok \notin unused /\ (out => tok \notin DOMAIN by_token)
    BY <1>0, <2>1, <2>4 DEF ChangeSeen
  <2>7. ChangeSeen(x)'
    BY <1>11, <2>3, <2>4, <2>6 DEF ChangeSeen, Kept, EncodeSession
  <2>8. ASSUME NEW q \in Requests
        PROVE  ChangeSeen(request[q])'
    <3>1. CASE q = r
      BY <2>5, <2>7, <3>1
    <3>2. CASE q # r
      <4>1. PICK y : y = request[q] /\ y = request'[q] /\ ChangeSeen(y)
        BY <1>0, <2>5, <3>2
      <4>2. ChangeSeen(y)'
        BY <2>4, <4>1 DEF ChangeSeen, Kept, EncodeSession
      <4> QED
        BY <4>1, <4>2
    <3> QED
      BY <3>1, <3>2
  <2>9. OneWriter'
    BY <1>9, <2>4, <2>5 DEF OneWriter
  <2>10. WordTyped' /\ Kept(by_token)' /\ Kept(sessionsDb)'
         /\ (sweeper.at = "write" => Kept(sweeper.units))'
    BY <1>0, <2>4, <2>5 DEF WordTyped, Kept, EncodeSession
  <2> QED
    BY <2>8, <2>9, <2>10 DEF WordInv
<1>13. ASSUME NEW r \in Requests, PersistWrite(r)
       PROVE  WordInv'
  <2>1. PICK tok, units : tok = request[r].token /\ units = request[r].units
    OBVIOUS
  <2>2. /\ request[r].at = "write" /\ sessionsDb' = units
        /\ UNCHANGED <<now, by_token, sweeper, unused>>
        /\ request' = [request EXCEPT ![r] = Idle]
    BY <1>13, <2>1 DEF PersistWrite
  <2>3. /\ DOMAIN request' = Requests /\ request'[r] = Idle
        /\ \A q \in Requests \ {r} : request'[q] = request[q]
    BY <1>0, <2>2
  <2>4. /\ \A q \in Requests : request'[q].at # "write"
        /\ sweeper'.at # "write"
    BY <1>0, <2>2, <2>3 DEF OneWriter, Idle
  <2>5. /\ Kept(units) /\ tok \notin unused
        /\ request[r].out => tok \notin DOMAIN by_token /\ tok \notin DOMAIN units
        /\ ~request[r].out /\ tok \in DOMAIN by_token =>
             tok \in DOMAIN units /\ units[tok] = EncodeSession(by_token[tok])
    BY <1>0, <2>1, <2>2 DEF ChangeSeen
  <2>6. ASSUME NEW q \in Requests
        PROVE  ChangeSeen(request[q])'
    <3>1. CASE q = r
      BY <2>3, <3>1 DEF ChangeSeen, Idle
    <3>2. CASE q # r
      <4>1. PICK y : y = request[q] /\ y = request'[q] /\ ChangeSeen(y)
        BY <1>0, <2>3, <3>2
      <4>2. ChangeSeen(y)'
        BY <2>2, <2>4, <4>1 DEF ChangeSeen
      <4> QED
        BY <4>1, <4>2
    <3> QED
      BY <3>1, <3>2
  <2>7. OneWriter' /\ (sweeper.at = "write" => Kept(sweeper.units))'
    BY <2>4 DEF OneWriter
  <2>8. CASE request[r].out
    <3>1. loggedOut' = loggedOut \cup {tok} /\ loggedIn' = loggedIn
      BY <1>13, <2>1, <2>8 DEF PersistWrite
    <3>2. WordTyped'
      BY <1>0, <2>2, <2>3, <2>5, <3>1 DEF WordTyped, EncodeSession
    <3>3. Kept(by_token)' /\ Kept(sessionsDb)'
      BY <1>0, <2>2, <2>5, <2>8, <3>1 DEF Kept, KeepsWord
    <3> QED
      BY <2>6, <2>7, <3>2, <3>3 DEF WordInv
  <2>9. CASE ~request[r].out /\ tok \notin DOMAIN by_token
    <3>1. loggedOut' = loggedOut /\ loggedIn' = loggedIn
      BY <1>13, <2>1, <2>9 DEF PersistWrite
    <3>2. WordTyped'
      BY <1>0, <2>2, <2>3, <3>1 DEF WordTyped, EncodeSession
    <3>3. Kept(by_token)' /\ Kept(sessionsDb)'
      BY <1>0, <2>2, <2>5, <3>1 DEF Kept
    <3> QED
      BY <2>6, <2>7, <3>2, <3>3 DEF WordInv
  <2>10. CASE ~request[r].out /\ tok \in DOMAIN by_token
    <3>1. PICK e : e = EncodeSession(by_token[tok])
      OBVIOUS
    <3>2. loggedOut' = loggedOut /\ loggedIn' = Inserted(loggedIn, tok, e)
      BY <1>13, <2>1, <2>10, <3>1 DEF PersistWrite
    <3>3. by_token[tok] \in Nat
      BY <1>0, <2>10 DEF Kept, KeepsWord
    <3>4. e \in Nat /\ e <= by_token[tok] /\ EncodeSession(e) = e
      BY <3>1, <3>3, EncodeRoundsDown
    <3>5. tok \in DOMAIN units /\ units[tok] = e
      BY <2>5, <2>10, <3>1
    <3>6. /\ DOMAIN loggedIn' = DOMAIN loggedIn \cup {tok} /\ loggedIn'[tok] = e
          /\ \A t \in DOMAIN loggedIn : t # tok => loggedIn'[t] = loggedIn[t]
      BY <3>2 DEF Inserted
    <3>7. WordTyped'
      BY <1>0, <2>2, <2>3, <3>2, <3>4, <3>6 DEF WordTyped, EncodeSession
    <3>8. Kept(by_token)'
      BY <1>0, <2>2, <2>10, <3>2, <3>3, <3>4, <3>6 DEF Kept, KeepsWord
    <3>9. Kept(sessionsDb)'
      BY <1>0, <2>2, <2>5, <3>2, <3>4, <3>5, <3>6 DEF Kept, KeepsWord
    <3> QED
      BY <2>6, <2>7, <3>7, <3>8, <3>9 DEF WordInv
  <2> QED
    BY <2>8, <2>9, <2>10
<1>14. CASE SweepCompare
  <2>1. UNCHANGED <<now, by_token, sessionsDb, request, unused, loggedIn, loggedOut>>
    BY <1>14 DEF SweepCompare
  <2>2. CASE sweeper' = Idle
    BY <1>0, <2>1, <2>2, WordUntouched DEF Idle
  <2>3. CASE MayCopy /\ sweeper' = [at |-> "write", units |-> StoredForm]
    <3>1. sweeper'.at = "write" /\ sweeper'.units = c
      BY <1>10, <2>3
    <3>2. (sweeper.at = "write" => Kept(sweeper.units))'
      BY <1>11, <2>1, <3>1 DEF Kept
    <3>3. OneWriter'
      BY <1>9, <2>1, <2>3 DEF OneWriter
    <3>4. WordTyped' /\ Kept(by_token)' /\ Kept(sessionsDb)'
          /\ \A r \in Requests : ChangeSeen(request[r])'
      BY <1>0, <2>1 DEF WordTyped, Kept, ChangeSeen, EncodeSession
    <3> QED
      BY <3>2, <3>3, <3>4 DEF WordInv
  <2> QED
    BY <1>14, <2>2, <2>3 DEF SweepCompare
<1>15. CASE SweepWrite
  <2>1. /\ sweeper.at = "write" /\ sessionsDb' = sweeper.units /\ sweeper'.at # "write"
        /\ UNCHANGED <<now, by_token, request, unused, loggedIn, loggedOut>>
    BY <1>15 DEF SweepWrite, Idle
  <2>2. Kept(sessionsDb)'
    BY <1>0, <2>1 DEF Kept
  <2>3. OneWriter' /\ (sweeper.at = "write" => Kept(sweeper.units))'
    BY <1>0, <2>1 DEF OneWriter
  <2>4. WordTyped' /\ Kept(by_token)' /\ \A r \in Requests : ChangeSeen(request[r])'
    BY <1>0, <2>1 DEF WordTyped, Kept, ChangeSeen, EncodeSession
  <2> QED
    BY <2>2, <2>3, <2>4 DEF WordInv
<1>16. CASE SessionsRestart
  <2>1. PICK db : db = sessionsDb'
    OBVIOUS
  <2>2. Kept(db)
    BY <1>0, <1>10, <1>11, <1>16, <2>1 DEF SessionsRestart
  <2>3. PICK S : S = {tok \in DOMAIN db : db[tok] > now}
    OBVIOUS
  <2>4. S \in SUBSET DOMAIN db /\ \A tok \in DOMAIN db \ S : db[tok] <= now
    BY <1>0, <2>2, <2>3 DEF Kept, KeepsWord
  <2>5. by_token' = Restrict(db, S)
    BY <1>16, <2>1, <2>3 DEF SessionsRestart
  <2>6. PICK d : d = Restrict(db, S)
    OBVIOUS
  <2>7. Kept(d)
    BY <1>0, <2>2, <2>4, <2>6, DroppingExpiredKeeps
  <2>8. /\ UNCHANGED <<now, unused, loggedIn, loggedOut>>
        /\ DOMAIN request' = Requests /\ \A r \in Requests : request'[r] = Idle
        /\ sweeper' = Idle /\ Idle.at = "idle"
    BY <1>16 DEF SessionsRestart, Idle
  <2>9. Kept(by_token)' /\ Kept(sessionsDb)'
    BY <2>1, <2>2, <2>5, <2>6, <2>7, <2>8 DEF Kept
  <2>10. WordTyped' /\ OneWriter' /\ \A r \in Requests : ChangeSeen(request[r])'
    BY <1>0, <2>8 DEF WordTyped, OneWriter, ChangeSeen, EncodeSession
  <2> QED
    BY <2>8, <2>9, <2>10 DEF WordInv
<1>17. CASE UNCHANGED sessionVars
  BY <1>0, <1>17, WordUntouched DEF sessionVars
<1> QED
  BY <1>1, <1>3, <1>4, <1>5, <1>6, <1>7, <1>8, <1>12, <1>13, <1>14, <1>15, <1>16, <1>17
     DEF SessionsNext

\* A logout that was answered is for good and a login that was answered
\* lasts until it expires, restarts included, for any number of threads and
\* sessions (auth.rs: create, remove, sweep, persist, load), as long as every
\* write of the file succeeds and no two of them overlap.
THEOREM SessionsKeepTheirWordHolds ==
    ASSUME ~PersistsOverlap, ~WritesFail
    PROVE  SessionsSpec => []SessionsKeepTheirWord
<1>1. SessionsInit => WordInv
  <2> SUFFICES ASSUME SessionsInit PROVE WordInv
    OBVIOUS
  <2>1. /\ now = 0 /\ DOMAIN request = Requests /\ loggedOut = {}
        /\ \A r \in Requests : request[r] = Idle
        /\ sweeper = Idle /\ Idle.at = "idle"
        /\ DOMAIN by_token = {} /\ DOMAIN sessionsDb = {} /\ DOMAIN loggedIn = {}
    BY DEF SessionsInit, Idle
  <2> QED
    BY <2>1 DEF WordInv, WordTyped, Kept, KeepsWord, ChangeSeen, OneWriter
<1>2. WordInv /\ [SessionsNext]_sessionVars => WordInv'
  BY WordInvStep
<1>3. WordInv => SessionsKeepTheirWord
  BY DEF WordInv, Kept, KeepsWord, SessionsKeepTheirWord
<1> QED
  BY <1>1, <1>2, <1>3, PTL DEF SessionsSpec

-----------------------------------------------------------------------------
(* The statistics, where an hour that was read is still the hour.          *)

UnitFields == {"id", "names", "total", "blocked"}

\* Whoever has read the hour finds it unchanged when it takes the lock.
HourHolds ==
    /\ adder # <<>> => adder[2] = clock
    /\ keeper.at \in {"prune", "snap"} => keeper.hour = clock
    /\ visitor # <<>> /\ visitor # <<"flag">> => visitor[1] = "prune" /\ visitor[2] = clock
    /\ closer.at = "snap" => closer.hour = clock

UpTo(units) == \A h \in DOMAIN units : h \in Nat /\ h <= clock

\* At most one unit is live, and the finished ones are of earlier hours.
UnitsInOrder ==
    /\ \A u, v \in current : u = v
    /\ \A u \in current : DOMAIN u = UnitFields /\ u.id \in Nat /\ u.id <= clock
    /\ UpTo(past) /\ clock \notin DOMAIN past
    /\ \A u \in current : \A h \in DOMAIN past : h < u.id

\* What is in the file and on the way to it is of no later hour.
FilesInOrder ==
    /\ UpTo(statsDb)
    /\ keeper.at = "write" => UpTo(keeper.units)
    /\ closer.at = "write" => UpTo(closer.units)

\* The stored units have every finished hour as it is held, and beyond them
\* the live one at most.
Follows(units) ==
    /\ DOMAIN past \subseteq DOMAIN units
    /\ \A h \in DOMAIN past : units[h] = past[h]
    /\ DOMAIN units \ DOMAIN past \subseteq {u.id : u \in current}

\* What is not marked as unsaved is in the file or about to be.
SavedOrFlagged ==
    (closer.at = "up" /\ ~unsaved /\ visitor # <<"flag">>) =>
        /\ keeper.at \notin {"snap", "write"} => Follows(statsDb)
        /\ keeper.at = "write" => Follows(keeper.units)

StatsInv ==
    /\ clock \in Nat
    /\ HourHolds /\ UnitsInOrder /\ FilesInOrder /\ SavedOrFlagged
    /\ closer.at = "down" => keeper.at = "tick" /\ adder = <<>> /\ visitor = <<>>

LEMMA StoredUnits ==
    ASSUME NEW units, NEW live
    PROVE  /\ DOMAIN Stored(units, live) = DOMAIN units \cup {u.id : u \in live}
           /\ \A h \in DOMAIN units : h \notin {u.id : u \in live} => Stored(units, live)[h] = units[h]
           /\ \A u \in live : (\A v \in live : u = v) => Stored(units, live)[u.id] = ToDb(u)
<1>1. ASSUME NEW u \in live, \A v \in live : u = v PROVE Stored(units, live)[u.id] = ToDb(u)
  <2>1. (CHOOSE v \in live : v.id = u.id) = u
    BY <1>1
  <2> QED
    BY <1>1, <2>1 DEF Stored
<1> QED
  BY <1>1 DEF Stored

\* roll at the hour now.
LEMMA RollsOver ==
    ASSUME StatsInv
    PROVE  /\ DOMAIN PastAfter(clock) = DOMAIN past \cup {u.id : u \in current \ CurrentAfter(clock)}
           /\ \A h \in DOMAIN past : PastAfter(clock)[h] = past[h]
           /\ UpTo(PastAfter(clock)) /\ clock \notin DOMAIN PastAfter(clock)
           /\ ~Rolls(clock) => CurrentAfter(clock) = current /\ DOMAIN PastAfter(clock) = DOMAIN past
           /\ \A u \in CurrentAfter(clock) : u \in current /\ u.id = clock
           /\ \A u \in CurrentAfter(clock) : \A h \in DOMAIN PastAfter(clock) : h < u.id
<1>1. /\ DOMAIN PastAfter(clock) = DOMAIN past \cup {u.id : u \in current \ CurrentAfter(clock)}
      /\ \A h \in DOMAIN past : PastAfter(clock)[h] = past[h]
  <2>1. \A h \in DOMAIN past : h \notin {u.id : u \in current \ CurrentAfter(clock)}
    BY DEF StatsInv, UnitsInOrder, UpTo
  <2> QED
    BY <2>1, StoredUnits DEF PastAfter
<1>2. \A u \in CurrentAfter(clock) : u \in current /\ u.id = clock
  BY DEF CurrentAfter
<1>3. \A u \in current \ CurrentAfter(clock) : u.id \in Nat /\ u.id < clock
  BY DEF CurrentAfter, StatsInv, UnitsInOrder
<1>4. UpTo(PastAfter(clock)) /\ \A h \in DOMAIN PastAfter(clock) : h < clock
  BY <1>1, <1>3 DEF StatsInv, UnitsInOrder, UpTo
<1>5. ~Rolls(clock) => CurrentAfter(clock) = current /\ DOMAIN PastAfter(clock) = DOMAIN past
  BY <1>1 DEF Rolls, CurrentAfter
<1> QED
  BY <1>1, <1>2, <1>4, <1>5 DEF StatsInv

\* snapshot at the hour now.
LEMMA SnapshotFollows ==
    ASSUME StatsInv
    PROVE  /\ DOMAIN Snapshot(clock) = DOMAIN PastAfter(clock) \cup {u.id : u \in CurrentAfter(clock)}
           /\ \A h \in DOMAIN PastAfter(clock) : Snapshot(clock)[h] = PastAfter(clock)[h]
           /\ UpTo(Snapshot(clock))
<1>1. DOMAIN Snapshot(clock) = DOMAIN PastAfter(clock) \cup {u.id : u \in CurrentAfter(clock)}
  BY StoredUnits DEF Snapshot
<1>2. \A h \in DOMAIN PastAfter(clock) : h \notin {u.id : u \in CurrentAfter(clock)}
  BY RollsOver
<1>3. \A h \in DOMAIN PastAfter(clock) : Snapshot(clock)[h] = PastAfter(clock)[h]
  BY <1>2, StoredUnits DEF Snapshot
<1> QED
  BY <1>1, <1>3, RollsOver DEF UpTo, StatsInv

LEMMA UnitAddKeeps ==
    ASSUME NEW u, DOMAIN u = UnitFields, NEW n
    PROVE  DOMAIN UnitAdd(u, n) = UnitFields /\ UnitAdd(u, n).id = u.id
           /\ UnitAdd(u, n).total = u.total + 1
BY DEF UnitAdd, UnitFields

LEMMA InitStats == StatsInit => StatsInv
BY StatsAssumption DEF StatsInit, StatsInv, HourHolds, UnitsInOrder, FilesInOrder, UpTo, SavedOrFlagged,
                       Follows

\* An operation that keeps the units as they are.
LEMMA UnitsStay ==
    ASSUME StatsInv, UNCHANGED <<clock, current, past>>
    PROVE  /\ clock' \in Nat /\ UnitsInOrder'
           /\ \A units : UpTo(units) => UpTo(units)'
           /\ \A units : Follows(units) => Follows(units)'
BY DEF StatsInv, UnitsInOrder, UpTo, Follows

LEMMA QuietSteps ==
    ASSUME StatsInv,
           \/ \E n \in QueryNames : AddReadsHour(n)
           \/ KeeperTicks \/ KeeperClaims \/ KeeperSaves
           \/ ClearFlags \/ SetStatsConfig \/ ShutdownBegins \/ ShutdownSaves
    PROVE  StatsInv'
<1>1. UNCHANGED <<clock, current, past>>
  BY DEF AddReadsHour, KeeperTicks, KeeperClaims, KeeperSaves, ClearFlags, SetStatsConfig,
         ShutdownBegins, ShutdownSaves
<1>2. /\ clock' \in Nat /\ UnitsInOrder'
      /\ \A units : UpTo(units) => UpTo(units)'
      /\ \A units : Follows(units) => Follows(units)'
  BY <1>1, UnitsStay
<1> USE <1>1, <1>2 DEF StatsInv
<1>3. CASE \E n \in QueryNames : AddReadsHour(n)
  BY <1>3 DEF AddReadsHour, HourHolds, FilesInOrder, SavedOrFlagged
<1>4. CASE KeeperTicks
  BY <1>4 DEF KeeperTicks, HourHolds, FilesInOrder, SavedOrFlagged
<1>5. CASE KeeperClaims
  BY <1>5 DEF KeeperClaims, HourHolds, FilesInOrder, SavedOrFlagged
<1>6. CASE KeeperSaves
  BY <1>6 DEF KeeperSaves, HourHolds, FilesInOrder, SavedOrFlagged
<1>7. CASE ClearFlags
  BY <1>7 DEF ClearFlags, HourHolds, FilesInOrder, SavedOrFlagged
<1>8. CASE SetStatsConfig
  BY <1>8 DEF SetStatsConfig, HourHolds, FilesInOrder, SavedOrFlagged
<1>9. CASE ShutdownBegins
  BY <1>9 DEF ShutdownBegins, HourHolds, FilesInOrder, SavedOrFlagged
<1>10. CASE ShutdownSaves
  BY <1>10 DEF ShutdownSaves, HourHolds, FilesInOrder, SavedOrFlagged
<1> QED
  BY <1>3, <1>4, <1>5, <1>6, <1>7, <1>8, <1>9, <1>10

LEMMA HourTurnsStep ==
    ASSUME ClockWaits, StatsInv, HourTurns
    PROVE  StatsInv'
<1>1. clock' = clock + 1 /\ clock' \in Nat /\ UNCHANGED <<current, past, statsDb>>
  BY DEF HourTurns, StatsInv
<1>2. UnitsInOrder' /\ \A units : UpTo(units) => UpTo(units)'
  BY <1>1 DEF StatsInv, UnitsInOrder, UpTo
<1>3. \A units : Follows(units)' <=> Follows(units)
  BY <1>1 DEF Follows
<1> QED
  BY <1>1, <1>2, <1>3 DEF HourTurns, StatsInv, HourHolds, HourInHand, FilesInOrder, SavedOrFlagged

\* The units are gone, with what was in hand.
LEMMA StoppedStep ==
    ASSUME StatsInv, StatsExit \/ Killed
    PROVE  StatsInv'
<1>1. Stopped
  BY DEF StatsExit, Killed
<1> QED
  BY <1>1 DEF Stopped, StatsInv, HourHolds, UnitsInOrder, FilesInOrder, SavedOrFlagged, UpTo

LEMMA ClearsStep ==
    ASSUME StatsInv, Clears
    PROVE  StatsInv'
BY DEF Clears, StatsInv, HourHolds, UnitsInOrder, FilesInOrder, SavedOrFlagged, UpTo

LEMMA LoadStep ==
    ASSUME StatsInv, StatsLoad
    PROVE  StatsInv'
<1> DEFINE kept == {id \in DOMAIN statsDb \ {clock} : id >= Oldest(clock, statsCfg.limit)}
<1>1. /\ clock' = clock /\ statsDb' = statsDb /\ keeper' = keeper /\ adder' = adder /\ visitor' = visitor
      /\ closer.at = "down" /\ closer'.at = "up"
      /\ current' = {FromDb(h, statsDb[h]) : h \in {clock} \cap DOMAIN statsDb}
      /\ past' = Restrict(statsDb, kept) /\ unsaved' = (kept # DOMAIN statsDb \ {clock})
  BY DEF StatsLoad
<1>2. keeper.at = "tick" /\ adder = <<>> /\ visitor = <<>> /\ clock \in Nat /\ UpTo(statsDb)
  BY <1>1 DEF StatsInv, FilesInOrder
<1>3. DOMAIN past' = kept /\ \A h \in kept : past'[h] = statsDb[h]
  BY <1>1 DEF Restrict
<1>4. \A h : FromDb(h, statsDb[h]).id = h /\ DOMAIN FromDb(h, statsDb[h]) = UnitFields
  BY DEF FromDb, UnitFields
<1>5. {u.id : u \in current'} = {clock} \cap DOMAIN statsDb
  BY <1>1, <1>4
<1>6. UnitsInOrder'
  <2>1. \A u \in current' : u = FromDb(clock, statsDb[clock])
    BY <1>1
  <2>2. \A u \in current' : u.id = clock /\ DOMAIN u = UnitFields
    BY <1>4, <2>1
  <2>3. \A h \in kept : h \in Nat /\ h < clock
    BY <1>2 DEF UpTo
  <2> QED
    BY <1>1, <1>2, <1>3, <2>1, <2>2, <2>3 DEF UnitsInOrder, UpTo
<1>7. FilesInOrder'
  BY <1>1, <1>2 DEF FilesInOrder, UpTo
<1>8. SavedOrFlagged'
  <2> SUFFICES ASSUME ~unsaved' PROVE Follows(statsDb)'
    BY <1>1, <1>2 DEF SavedOrFlagged
  <2>1. kept = DOMAIN statsDb \ {clock}
    BY <1>1
  <2> QED
    BY <1>1, <1>3, <1>5, <2>1 DEF Follows
<1> QED
  BY <1>1, <1>2, <1>6, <1>7, <1>8 DEF StatsInv, HourHolds

LEMMA AddStep ==
    ASSUME StatsInv, AddAt
    PROVE  StatsInv'
<1>1. /\ adder # <<>> /\ adder' = <<>> /\ adder[2] = clock
      /\ UNCHANGED <<clock, statsCfg, statsDb, keeper, visitor, closer>>
  BY DEF AddAt, StatsInv, HourHolds
<1>2. HourHolds' /\ FilesInOrder' /\ clock' \in Nat
      /\ (closer'.at = "down" => keeper'.at = "tick" /\ adder' = <<>> /\ visitor' = <<>>)
  BY <1>1 DEF StatsInv, HourHolds, FilesInOrder, UpTo
<1>3. CASE UNCHANGED <<current, past, unsaved>>
  <2>1. UnitsInOrder' /\ \A units : Follows(units) => Follows(units)'
    BY <1>1, <1>3, UnitsStay
  <2>2. SavedOrFlagged'
    BY <1>1, <1>3, <2>1 DEF SavedOrFlagged, StatsInv
  <2> QED
    BY <1>2, <2>1, <2>2 DEF StatsInv
<1>4. CASE statsCfg.enabled /\ adder[1] # 0
  <2> DEFINE live == IF CurrentAfter(clock) = {} THEN {NewUnit(clock)} ELSE CurrentAfter(clock)
  <2>1. /\ current' = {UnitAdd(u, adder[1]) : u \in live} /\ past' = PastAfter(clock)
        /\ unsaved' = (unsaved \/ Rolls(clock))
    BY <1>1, <1>4 DEF AddAt
  <2>2. NewUnit(clock).id = clock /\ DOMAIN NewUnit(clock) = UnitFields
    BY DEF NewUnit, UnitFields
  <2>3. /\ \A u, v \in live : u = v
        /\ \A u \in live : DOMAIN u = UnitFields /\ u.id = clock
    BY <2>2, RollsOver DEF StatsInv, UnitsInOrder
  <2> HIDE DEF live
  <2>4. /\ \A u, v \in current' : u = v
        /\ \A u \in current' : DOMAIN u = UnitFields /\ u.id = clock
    BY <2>1, <2>3, UnitAddKeeps
  <2>5. UnitsInOrder'
    <3>1. UpTo(past)' /\ clock' \notin DOMAIN past' /\ \A h \in DOMAIN past' : h \in Nat /\ h < clock
      BY <1>1, <2>1, RollsOver DEF UpTo, StatsInv
    <3> QED
      BY <1>1, <1>2, <2>4, <3>1 DEF UnitsInOrder
  <2>6. ASSUME ~Rolls(clock), NEW units, Follows(units) PROVE Follows(units)'
    <3>1. CurrentAfter(clock) = current /\ DOMAIN past' = DOMAIN past /\ \A h \in DOMAIN past : past'[h] = past[h]
      BY <2>1, <2>6, RollsOver
    <3>2. current \subseteq live
      BY <3>1 DEF live
    <3>3. {u.id : u \in current} \subseteq {u.id : u \in current'}
      <4>1. ASSUME NEW u \in current PROVE \E v \in current' : v.id = u.id
        BY <2>1, <2>3, <3>2, UnitAddKeeps
      <4> QED
        BY <4>1
    <3> QED
      BY <2>6, <3>1, <3>3 DEF Follows
  <2>7. SavedOrFlagged'
    BY <1>1, <2>1, <2>6 DEF SavedOrFlagged, StatsInv
  <2> QED
    BY <1>2, <2>5, <2>7 DEF StatsInv
<1> QED
  BY <1>1, <1>3, <1>4 DEF AddAt

\* prune at the hour now: what was marked saved is, or nothing was dropped.
LEMMA PruneFacts ==
    ASSUME StatsInv, NEW limit, Prune(clock, limit), clock' = clock
    PROVE  /\ UnitsInOrder'
           /\ ~unsaved' => ~unsaved /\ \A units : Follows(units) => Follows(units)'
<1> DEFINE kept == {id \in DOMAIN PastAfter(clock) : id >= Oldest(clock, limit)}
<1>1. /\ current' = CurrentAfter(clock) /\ past' = Restrict(PastAfter(clock), kept)
      /\ unsaved' = (unsaved \/ Rolls(clock) \/ kept # DOMAIN PastAfter(clock))
  BY DEF Prune
<1>2. DOMAIN past' = kept /\ \A h \in kept : past'[h] = PastAfter(clock)[h]
  BY <1>1 DEF Restrict
<1>3. kept \subseteq DOMAIN PastAfter(clock)
  OBVIOUS
<1> HIDE DEF kept
<1>4. UnitsInOrder'
  BY <1>1, <1>2, <1>3, RollsOver DEF UnitsInOrder, UpTo, StatsInv
<1>5. ASSUME ~unsaved' PROVE ~unsaved /\ \A units : Follows(units) => Follows(units)'
  <2>1. ~unsaved /\ ~Rolls(clock) /\ kept = DOMAIN PastAfter(clock)
    BY <1>1, <1>5
  <2>2. current' = current /\ DOMAIN past' = DOMAIN past /\ \A h \in DOMAIN past : past'[h] = past[h]
    BY <1>1, <1>2, <2>1, RollsOver
  <2> QED
    BY <2>1, <2>2 DEF Follows
<1> QED
  BY <1>4, <1>5

LEMMA PrunesStep ==
    ASSUME StatsInv, KeeperPrunes \/ ConfigPrunes
    PROVE  StatsInv'
<1>1. CASE KeeperPrunes
  <2>1. /\ keeper.at = "prune" /\ keeper.hour = clock /\ Prune(clock, keeper.limit) /\ keeper' = [at |-> "claim"]
        /\ UNCHANGED <<clock, statsCfg, statsDb, adder, visitor, closer>>
    BY <1>1 DEF KeeperPrunes, StatsInv, HourHolds
  <2>2. UnitsInOrder' /\ (~unsaved' => ~unsaved /\ \A units : Follows(units) => Follows(units)')
    BY <2>1, PruneFacts
  <2> QED
    BY <2>1, <2>2 DEF StatsInv, HourHolds, FilesInOrder, UpTo, SavedOrFlagged
<1>2. CASE ConfigPrunes
  <2>1. /\ visitor # <<>> /\ visitor[1] = "prune" /\ visitor' = <<>>
        /\ Prune(visitor[2], visitor[3])
        /\ UNCHANGED <<clock, statsCfg, statsDb, adder, keeper, closer>>
    BY <1>2 DEF ConfigPrunes
  <2>2. visitor # <<"flag">>
    BY <2>1
  <2>3. visitor[2] = clock
    BY <2>1, <2>2 DEF StatsInv, HourHolds
  <2>4. UnitsInOrder' /\ (~unsaved' => ~unsaved /\ \A units : Follows(units) => Follows(units)')
    BY <2>1, <2>3, PruneFacts
  <2> QED
    BY <2>1, <2>2, <2>4 DEF StatsInv, HourHolds, FilesInOrder, UpTo, SavedOrFlagged
<1> QED
  BY <1>1, <1>2

LEMMA SnapshotsStep ==
    ASSUME StatsInv, KeeperSnapshots \/ ShutdownSnapshots
    PROVE  StatsInv'
<1>1. ASSUME TakesSnapshot(clock), clock' = clock, NEW units, units = Snapshot(clock)
      PROVE  UnitsInOrder' /\ Follows(units)' /\ UpTo(units)'
  <2>1. current' = CurrentAfter(clock) /\ past' = PastAfter(clock)
    BY <1>1 DEF TakesSnapshot
  <2>2. UnitsInOrder'
    BY <1>1, <2>1, RollsOver DEF UnitsInOrder, UpTo, StatsInv
  <2>3. UpTo(units)'
    BY <1>1, SnapshotFollows DEF UpTo
  <2> QED
    BY <1>1, <2>1, <2>2, <2>3, SnapshotFollows DEF Follows
<1>2. CASE KeeperSnapshots
  <2> DEFINE units == Snapshot(clock)
  <2>1. /\ keeper.at = "snap" /\ keeper.hour = clock /\ TakesSnapshot(clock)
        /\ keeper' = [at |-> "write", units |-> units]
        /\ UNCHANGED <<clock, statsCfg, statsDb, adder, visitor, closer>>
    BY <1>2 DEF KeeperSnapshots, StatsInv, HourHolds
  <2>2. keeper'.at = "write" /\ keeper'.units = units
    BY <2>1
  <2>3. UnitsInOrder' /\ Follows(keeper.units)' /\ UpTo(keeper.units)'
    BY <1>1, <2>1, <2>2
  <2> QED
    BY <2>1, <2>2, <2>3 DEF StatsInv, HourHolds, FilesInOrder, UpTo, SavedOrFlagged
<1>3. CASE ShutdownSnapshots
  <2> DEFINE units == Snapshot(clock)
  <2>1. /\ closer.at = "snap" /\ closer.hour = clock /\ TakesSnapshot(clock)
        /\ closer' = [at |-> "write", units |-> units]
        /\ UNCHANGED <<clock, statsCfg, statsDb, adder, keeper, visitor>>
    BY <1>3 DEF ShutdownSnapshots, StatsInv, HourHolds
  <2>2. closer'.at = "write" /\ closer'.units = units
    BY <2>1
  <2>3. UnitsInOrder' /\ UpTo(closer.units)'
    BY <1>1, <2>1, <2>2
  <2> QED
    BY <2>1, <2>2, <2>3 DEF StatsInv, HourHolds, FilesInOrder, UpTo, SavedOrFlagged
<1> QED
  BY <1>2, <1>3

LEMMA StepStats ==
    ASSUME ClockWaits, StatsInv, [StatsNext]_statsVars
    PROVE  StatsInv'
<1>1. CASE UNCHANGED statsVars
  BY <1>1 DEF statsVars, StatsInv, HourHolds, UnitsInOrder, FilesInOrder, UpTo, SavedOrFlagged, Follows
<1> QED
  BY <1>1, QuietSteps, HourTurnsStep, StoppedStep, ClearsStep, LoadStep, AddStep, PrunesStep,
     SnapshotsStep DEF StatsNext

\* Between two saves the file holds every finished hour as it is held in
\* memory, for any hours, names, settings and queries, if no hour begins
\* between the reading of the clock and the lock.
THEOREM FileFollowsFinishedHoursHolds ==
    ASSUME ClockWaits
    PROVE  StatsSpec => []FileFollowsFinishedHours
<1>1. StatsInv => FileFollowsFinishedHours
  BY DEF StatsInv, SavedOrFlagged, Follows, FileFollowsFinishedHours
<1>2. StatsInv /\ [StatsNext]_statsVars => StatsInv'
  BY StepStats
<1> QED
  BY <1>1, <1>2, InitStats, PTL DEF StatsSpec

-----------------------------------------------------------------------------
(* The counts of the hours.                                                *)

\* The queries that stored units, or a live one before them, have for an hour.
Total(units, h) == IF h \in DOMAIN units THEN units[h].total ELSE 0
InUnits(live, units, h) ==
    IF \E u \in live : u.id = h THEN (CHOOSE u \in live : u.id = h).total ELSE Total(units, h)

LimitsRead ==
    /\ statsCfg \in StatsConfigs
    /\ keeper.at = "prune" => keeper.limit \in Nat
    /\ visitor # <<>> /\ visitor[1] = "prune" => visitor[3] \in Nat

\* Where the counts of the hours are, from the shutdown to the next start.
CountsAreSomewhere ==
    /\ DOMAIN counted = Hours24 /\ DOMAIN promised = Hours24
    /\ \A h \in Hours24 :
          /\ closer.at # "down" => InUnits(current, past, h) = counted[h]
          /\ closer.at = "write" => Total(closer.units, h) = promised[h]
          /\ closer.at = "saved" => Total(statsDb, h) = promised[h]
          /\ closer.at = "down" => Total(statsDb, h) = counted[h]
    /\ closer.at \in {"snap", "write", "saved"} => keeper.at = "tick"

CountsInv == StatsInv /\ LimitsRead /\ CountsAreSomewhere

\* Every query that was counted is in the unit of its hour that the report
\* takes, and no other is.
HoursAreKept ==
    closer.at = "up" =>
        \A h \in Hours24 : IF UnitAt(h) = {} THEN counted[h] = 0
                           ELSE \A u \in UnitAt(h) : u.total = counted[h]

LEMMA HeldLive ==
    ASSUME NEW live, \A u, v \in live : u = v, NEW units, NEW h
    PROVE  /\ \A u \in live : u.id = h => InUnits(live, units, h) = u.total
           /\ (\A u \in live : u.id # h) => InUnits(live, units, h) = Total(units, h)
<1>1. ASSUME NEW u \in live, u.id = h PROVE InUnits(live, units, h) = u.total
  <2>1. (CHOOSE v \in live : v.id = h) = u
    BY <1>1
  <2> QED
    BY <1>1, <2>1 DEF InUnits
<1> QED
  BY <1>1 DEF InUnits

LEMMA ToDbTotal == \A u : ToDb(u).total = u.total
BY DEF ToDb

LEMMA TotalStored ==
    ASSUME NEW live, \A u, v \in live : u = v, NEW units, NEW h
    PROVE  Total(Stored(units, live), h) = InUnits(live, units, h)
<1>1. CASE \E u \in live : u.id = h
  <2>1. PICK u \in live : u.id = h
    BY <1>1
  <2>2. (CHOOSE v \in live : v.id = h) = u
    BY <2>1
  <2>3. Stored(units, live)[h] = ToDb(u) /\ h \in DOMAIN Stored(units, live)
    BY <2>1, <2>2 DEF Stored
  <2> QED
    BY <2>1, <2>3, HeldLive, ToDbTotal DEF Total
<1>2. CASE \A u \in live : u.id # h
  <2>1. h \in DOMAIN Stored(units, live) <=> h \in DOMAIN units
    BY <1>2 DEF Stored
  <2>2. h \in DOMAIN units => Stored(units, live)[h] = units[h]
    BY <1>2 DEF Stored
  <2> QED
    BY <1>2, <2>1, <2>2, HeldLive DEF Total
<1> QED
  BY <1>1, <1>2

\* Neither a roll nor a snapshot changes what an hour has.
LEMMA RollKeepsCounts ==
    ASSUME StatsInv, NEW h
    PROVE  /\ InUnits(CurrentAfter(clock), PastAfter(clock), h) = InUnits(current, past, h)
           /\ Total(Snapshot(clock), h) = InUnits(current, past, h)
<1>1. /\ \A u, v \in current : u = v
      /\ \A u, v \in CurrentAfter(clock) : u = v
      /\ \A u, v \in current \ CurrentAfter(clock) : u = v
  BY DEF StatsInv, UnitsInOrder, CurrentAfter
<1>2. InUnits(CurrentAfter(clock), PastAfter(clock), h) = InUnits(current, past, h)
  <2>1. CASE \E u \in CurrentAfter(clock) : u.id = h
    <3>1. PICK u \in CurrentAfter(clock) : u.id = h
      BY <2>1
    <3> QED
      BY <1>1, <3>1, HeldLive DEF CurrentAfter
  <2>2. CASE \A u \in CurrentAfter(clock) : u.id # h
    <3>1. InUnits(CurrentAfter(clock), PastAfter(clock), h) = Total(PastAfter(clock), h)
      BY <1>1, <2>2, HeldLive
    <3>2. Total(PastAfter(clock), h) = InUnits(current \ CurrentAfter(clock), past, h)
      BY <1>1, TotalStored DEF PastAfter
    <3>3. InUnits(current \ CurrentAfter(clock), past, h) = InUnits(current, past, h)
      <4>1. CASE \E u \in current \ CurrentAfter(clock) : u.id = h
        BY <1>1, <4>1, HeldLive
      <4>2. CASE \A u \in current \ CurrentAfter(clock) : u.id # h
        BY <1>1, <2>2, <4>2, HeldLive
      <4> QED
        BY <4>1, <4>2
    <3> QED
      BY <3>1, <3>2, <3>3
  <2> QED
    BY <2>1, <2>2
<1>3. Total(Snapshot(clock), h) = InUnits(CurrentAfter(clock), PastAfter(clock), h)
  BY <1>1, TotalStored DEF Snapshot
<1> QED
  BY <1>2, <1>3

LEMMA InitCounts == StatsInit => CountsInv
<1> SUFFICES ASSUME StatsInit PROVE LimitsRead /\ CountsAreSomewhere
  BY InitStats DEF CountsInv
<1>1. LimitsRead
  BY DEF StatsInit, LimitsRead
<1>2. CountsAreSomewhere
  BY DEF StatsInit, CountsAreSomewhere, NoCounts, InUnits, Total
<1> QED
  BY <1>1, <1>2

LEMMA LimitsStep ==
    ASSUME LimitsRead, StatsNext
    PROVE  LimitsRead'
<1>1. \A c \in StatsConfigs : c.limit \in Nat
  BY StatsAssumption
<1> USE <1>1 DEF LimitsRead
<1>2. CASE SetStatsConfig
  BY <1>2 DEF SetStatsConfig
<1>3. CASE KeeperTicks \/ KeeperPrunes \/ KeeperClaims \/ KeeperSnapshots \/ KeeperSaves
  BY <1>3 DEF KeeperTicks, KeeperPrunes, KeeperClaims, KeeperSnapshots, KeeperSaves
<1>4. CASE Clears \/ ClearFlags \/ ConfigPrunes
  BY <1>4 DEF Clears, ClearFlags, ConfigPrunes
<1>5. CASE StatsExit \/ Killed
  BY <1>5 DEF StatsExit, Killed, Stopped
<1>6. CASE UNCHANGED <<statsCfg, keeper, visitor>>
  BY <1>6
<1> QED
  BY <1>2, <1>3, <1>4, <1>5, <1>6
     DEF StatsNext, HourTurns, AddReadsHour, AddAt, ShutdownBegins, ShutdownSnapshots, ShutdownSaves, StatsLoad

\* The steps that neither count nor forget.
LEMMA CountsQuiet ==
    ASSUME ~SavesOverlap, CountsInv,
           \/ HourTurns \/ \E n \in QueryNames : AddReadsHour(n)
           \/ KeeperTicks \/ KeeperClaims \/ KeeperSaves
           \/ ClearFlags \/ SetStatsConfig \/ ShutdownBegins \/ ShutdownSaves
    PROVE  CountsAreSomewhere'
<1> USE DEF CountsInv, CountsAreSomewhere
<1>1. CASE HourTurns
  BY <1>1 DEF HourTurns
<1>2. CASE \E n \in QueryNames : AddReadsHour(n)
  BY <1>2 DEF AddReadsHour
<1>3. CASE KeeperTicks
  BY <1>3 DEF KeeperTicks
<1>4. CASE KeeperClaims
  BY <1>4 DEF KeeperClaims
<1>5. CASE KeeperSaves
  BY <1>5 DEF KeeperSaves, StatsInv
<1>6. CASE ClearFlags
  BY <1>6 DEF ClearFlags
<1>7. CASE SetStatsConfig
  BY <1>7 DEF SetStatsConfig
<1>8. CASE ShutdownBegins
  BY <1>8 DEF ShutdownBegins
<1>9. CASE ShutdownSaves
  BY <1>9 DEF ShutdownSaves
<1> QED
  BY <1>1, <1>2, <1>3, <1>4, <1>5, <1>6, <1>7, <1>8, <1>9

LEMMA CountsSnapshot ==
    ASSUME CountsInv, KeeperSnapshots \/ ShutdownSnapshots
    PROVE  CountsAreSomewhere'
<1>1. CASE KeeperSnapshots
  <2>1. /\ keeper.at = "snap" /\ keeper.hour = clock /\ TakesSnapshot(clock)
        /\ UNCHANGED <<statsDb, closer, counted, promised>>
    BY <1>1 DEF KeeperSnapshots, CountsInv, StatsInv, HourHolds
  <2>2. closer.at \notin {"snap", "write", "saved", "down"}
    BY <2>1 DEF CountsInv, CountsAreSomewhere, StatsInv
  <2>3. \A h : InUnits(current', past', h) = InUnits(current, past, h)
    BY <2>1, RollKeepsCounts DEF TakesSnapshot, CountsInv
  <2> QED
    BY <2>1, <2>2, <2>3 DEF CountsInv, CountsAreSomewhere
<1>2. CASE ShutdownSnapshots
  <2>1. /\ closer.at = "snap" /\ closer.hour = clock /\ TakesSnapshot(clock) /\ promised' = counted
        /\ closer' = [at |-> "write", units |-> Snapshot(clock)]
        /\ UNCHANGED <<statsDb, keeper, counted>>
    BY <1>2 DEF ShutdownSnapshots, CountsInv, StatsInv, HourHolds
  <2>2. closer'.at = "write" /\ closer'.units = Snapshot(clock)
    BY <2>1
  <2>3. \A h : /\ InUnits(current', past', h) = InUnits(current, past, h)
               /\ Total(closer'.units, h) = InUnits(current, past, h)
    BY <2>1, <2>2, RollKeepsCounts DEF TakesSnapshot, CountsInv
  <2> QED
    BY <2>1, <2>2, <2>3 DEF CountsInv, CountsAreSomewhere
<1> QED
  BY <1>1, <1>2

LEMMA CountsPruned ==
    ASSUME CountsInv, NEW limit \in Nat, Prune(clock, limit),
           UNCHANGED <<statsDb, closer, promised>>, keeper' = keeper \/ keeper.at = "prune",
           closer.at # "down"
    PROVE  CountsAreSomewhere'
<1> DEFINE kept == {id \in DOMAIN PastAfter(clock) : id >= Oldest(clock, limit)}
<1>1. /\ current' = CurrentAfter(clock) /\ past' = Restrict(PastAfter(clock), kept)
      /\ counted' = [id \in Hours24 |-> IF id >= Oldest(clock, limit) THEN counted[id] ELSE 0]
  BY DEF Prune, NoCounts
<1>2. clock \in Nat /\ Oldest(clock, limit) \in Int /\ Oldest(clock, limit) <= clock
  BY DEF CountsInv, StatsInv, Oldest
<1>3. /\ \A u, v \in current' : u = v
      /\ \A u \in current' : u.id = clock
  BY <1>1 DEF CurrentAfter, CountsInv, StatsInv, UnitsInOrder
<1>4. ASSUME NEW h \in Hours24 PROVE InUnits(current', past', h) = counted'[h]
  <2>0. h \in Int
    BY StatsAssumption DEF Hours24
  <2>1. CASE h >= Oldest(clock, limit)
    <3>1. Total(past', h) = Total(PastAfter(clock), h)
      BY <1>1, <2>1 DEF Total, Restrict
    <3>2. InUnits(current', past', h) = InUnits(CurrentAfter(clock), PastAfter(clock), h)
      BY <1>1, <3>1 DEF InUnits
    <3>3. InUnits(current', past', h) = InUnits(current, past, h)
      BY <3>2, RollKeepsCounts DEF CountsInv
    <3> QED
      BY <1>1, <2>1, <3>3 DEF CountsInv, CountsAreSomewhere
  <2>2. CASE ~(h >= Oldest(clock, limit))
    <3>1. \A u \in current' : u.id # h
      BY <1>2, <1>3, <2>0, <2>2
    <3>2. Total(past', h) = 0
      BY <1>1, <2>2 DEF Total, Restrict
    <3>3. InUnits(current', past', h) = 0
      BY <1>3, <3>1, <3>2, HeldLive
    <3> QED
      BY <1>1, <2>2, <3>3
  <2> QED
    BY <2>1, <2>2
<1>5. DOMAIN counted' = Hours24
  BY <1>1
<1> HIDE DEF kept
<1> QED
  BY <1>4, <1>5 DEF CountsInv, CountsAreSomewhere

LEMMA CountsPrunes ==
    ASSUME CountsInv, KeeperPrunes \/ ConfigPrunes
    PROVE  CountsAreSomewhere'
<1>1. CASE KeeperPrunes
  <2>1. /\ keeper.at = "prune" /\ keeper.hour = clock /\ keeper.limit \in Nat
        /\ Prune(clock, keeper.limit) /\ UNCHANGED <<statsDb, closer, promised>> /\ closer.at # "down"
    BY <1>1 DEF KeeperPrunes, CountsInv, StatsInv, HourHolds, LimitsRead
  <2> QED
    BY <2>1, CountsPruned
<1>2. CASE ConfigPrunes
  <2>1. /\ visitor # <<>> /\ visitor[1] = "prune" /\ visitor[3] \in Nat
        /\ Prune(visitor[2], visitor[3]) /\ UNCHANGED <<statsDb, keeper, closer, promised>>
        /\ closer.at # "down"
    BY <1>2 DEF ConfigPrunes, CountsInv, StatsInv, LimitsRead
  <2>2. visitor # <<"flag">>
    BY <2>1
  <2>3. visitor[2] = clock
    BY <2>1, <2>2 DEF CountsInv, StatsInv, HourHolds
  <2> QED
    BY <2>1, <2>3, CountsPruned
<1> QED
  BY <1>1, <1>2

LEMMA CountsAdd ==
    ASSUME CountsInv, AddAt
    PROVE  CountsAreSomewhere'
<1>1. /\ adder[2] = clock /\ closer.at # "down"
      /\ UNCHANGED <<statsDb, keeper, closer, promised>>
  BY DEF AddAt, CountsInv, StatsInv, HourHolds
<1>2. CASE UNCHANGED <<current, past, counted>>
  BY <1>1, <1>2 DEF CountsInv, CountsAreSomewhere
<1>3. CASE statsCfg.enabled /\ adder[1] # 0
  <2> DEFINE live == IF CurrentAfter(clock) = {} THEN {NewUnit(clock)} ELSE CurrentAfter(clock)
  <2>1. /\ current' = {UnitAdd(u, adder[1]) : u \in live} /\ past' = PastAfter(clock)
        /\ counted' = [counted EXCEPT ![clock] = @ + 1]
    BY <1>1, <1>3 DEF AddAt
  <2>2. NewUnit(clock).id = clock /\ DOMAIN NewUnit(clock) = UnitFields /\ NewUnit(clock).total = 0
    BY DEF NewUnit, UnitFields
  <2>3. /\ \A u, v \in live : u = v
        /\ \A u \in live : DOMAIN u = UnitFields /\ u.id = clock
        /\ live # {}
    BY <2>2, RollsOver DEF CountsInv, StatsInv, UnitsInOrder
  <2>4. \A u \in live : u.total = InUnits(current, past, clock)
    <3>1. CASE CurrentAfter(clock) = {}
      <4>1. InUnits(CurrentAfter(clock), PastAfter(clock), clock) = 0
        BY <3>1, RollsOver DEF InUnits, Total, CountsInv
      <4>2. InUnits(current, past, clock) = 0
        BY <4>1, RollKeepsCounts DEF CountsInv
      <4> QED
        BY <2>2, <3>1, <4>2
    <3>2. CASE CurrentAfter(clock) # {}
      BY <2>3, <3>2, HeldLive, RollKeepsCounts DEF CountsInv
    <3> QED
      BY <3>1, <3>2
  <2> HIDE DEF live
  <2>5. /\ \A u, v \in current' : u = v
        /\ \A u \in current' : u.id = clock /\ u.total = InUnits(current, past, clock) + 1
        /\ current' # {}
    BY <2>1, <2>3, <2>4, UnitAddKeeps
  <2>6. ASSUME NEW h \in Hours24 PROVE InUnits(current', past', h) = counted'[h]
    <3>1. InUnits(current, past, h) = counted[h] /\ h \in DOMAIN counted
      BY <1>1 DEF CountsInv, CountsAreSomewhere
    <3>2. CASE h = clock
      <4>1. PICK u \in current' : u.id = h /\ u.total = InUnits(current, past, h) + 1
        BY <2>5, <3>2
      <4>2. InUnits(current', past', h) = u.total
        BY <2>5, <4>1, HeldLive
      <4>3. counted'[h] = counted[h] + 1
        BY <2>1, <3>1, <3>2
      <4> QED
        BY <3>1, <4>1, <4>2, <4>3
    <3>3. CASE h # clock
      <4>1. InUnits(current', past', h) = Total(PastAfter(clock), h)
        <5>1. \A u \in current' : u.id # h
          BY <2>5, <3>3
        <5>2. InUnits(current', past', h) = Total(past', h)
          BY <2>5, <5>1, HeldLive
        <5> QED
          BY <2>1, <5>2
      <4>2. InUnits(CurrentAfter(clock), PastAfter(clock), h) = Total(PastAfter(clock), h)
        BY <3>3 DEF InUnits, CurrentAfter
      <4> QED
        BY <2>1, <3>1, <3>3, <4>1, <4>2, RollKeepsCounts DEF CountsInv
    <3> QED
      BY <3>2, <3>3
  <2>7. DOMAIN counted' = Hours24
    BY <2>1 DEF CountsInv, CountsAreSomewhere
  <2> QED
    BY <1>1, <2>6, <2>7 DEF CountsInv, CountsAreSomewhere
<1> QED
  BY <1>1, <1>2, <1>3 DEF AddAt

LEMMA CountsClear ==
    ASSUME CountsInv, Clears
    PROVE  CountsAreSomewhere'
<1>1. \A h : InUnits(current', past', h) = 0
  BY DEF Clears, InUnits, Total
<1> QED
  BY <1>1 DEF Clears, NoCounts, CountsInv, CountsAreSomewhere

LEMMA CountsStopped ==
    ASSUME CountsInv, StatsExit \/ Killed
    PROVE  CountsAreSomewhere'
<1>1. closer'.at = "down" /\ keeper'.at = "tick" /\ statsDb' = statsDb /\ promised' = promised
  BY DEF StatsExit, Killed, Stopped
<1>2. CASE StatsExit
  BY <1>1, <1>2 DEF StatsExit, CountsInv, CountsAreSomewhere
<1>3. CASE Killed
  BY <1>1, <1>3 DEF Killed, Total, CountsInv, CountsAreSomewhere
<1> QED
  BY <1>2, <1>3

LEMMA CountsLoad ==
    ASSUME CountsInv, StatsLoad
    PROVE  CountsAreSomewhere'
<1> DEFINE oldest == Oldest(clock, statsCfg.limit)
           kept == {id \in DOMAIN statsDb \ {clock} : id >= oldest}
<1>1. /\ closer.at = "down" /\ closer'.at = "up" /\ promised' = promised /\ keeper' = keeper
      /\ current' = {FromDb(h, statsDb[h]) : h \in {clock} \cap DOMAIN statsDb}
      /\ past' = Restrict(statsDb, kept)
      /\ counted' = [id \in Hours24 |-> IF id >= oldest THEN counted[id] ELSE 0]
  BY DEF StatsLoad, NoCounts
<1>2. clock \in Nat /\ oldest \in Int /\ oldest <= clock
  <2>1. statsCfg.limit \in Nat
    BY StatsAssumption DEF CountsInv, LimitsRead
  <2> QED
    BY <2>1 DEF CountsInv, StatsInv, Oldest
<1> HIDE DEF oldest
<1>3. \A h : FromDb(h, statsDb[h]).id = h /\ FromDb(h, statsDb[h]).total = statsDb[h].total
  BY DEF FromDb
<1>4. /\ \A u, v \in current' : u = v
      /\ \A u \in current' : u.id = clock /\ u.total = statsDb[clock].total /\ clock \in DOMAIN statsDb
      /\ current' = {} => clock \notin DOMAIN statsDb
  BY <1>1, <1>3
<1>5. ASSUME NEW h \in Hours24 PROVE InUnits(current', past', h) = counted'[h]
  <2>1. Total(statsDb, h) = counted[h] /\ h \in Int
    BY <1>1, StatsAssumption DEF CountsInv, CountsAreSomewhere, Hours24
  <2>2. CASE h = clock
    <3>1. CASE current' = {}
      <4>1. Total(past', h) = 0
        BY <1>1, <2>2 DEF Total, Restrict
      <4>2. Total(statsDb, h) = 0
        BY <1>4, <2>2, <3>1 DEF Total
      <4> QED
        BY <1>1, <1>2, <2>1, <2>2, <3>1, <4>1, <4>2 DEF InUnits
    <3>2. CASE current' # {}
      <4>1. InUnits(current', past', h) = statsDb[clock].total /\ clock \in DOMAIN statsDb
        BY <1>4, <2>2, <3>2, HeldLive
      <4> QED
        BY <1>1, <1>2, <2>1, <2>2, <4>1 DEF Total
    <3> QED
      BY <3>1, <3>2
  <2>3. CASE h # clock
    <3>1. InUnits(current', past', h) = Total(past', h)
      BY <1>4, <2>3, HeldLive
    <3>2. Total(past', h) = IF h >= oldest THEN Total(statsDb, h) ELSE 0
      BY <1>1, <2>3 DEF Total, Restrict
    <3> QED
      BY <1>1, <2>1, <3>1, <3>2
  <2> QED
    BY <2>2, <2>3
<1>6. DOMAIN counted' = Hours24
  BY <1>1
<1> HIDE DEF kept
<1> QED
  BY <1>1, <1>5, <1>6 DEF CountsInv, CountsAreSomewhere

LEMMA StepCounts ==
    ASSUME ClockWaits, ~SavesOverlap, CountsInv, [StatsNext]_statsVars
    PROVE  CountsInv'
<1>1. StatsInv'
  BY StepStats DEF CountsInv
<1>2. CASE UNCHANGED statsVars
  <2>1. LimitsRead' /\ CountsAreSomewhere'
    BY <1>2 DEF statsVars, CountsInv, LimitsRead, CountsAreSomewhere
  <2> QED
    BY <1>1, <2>1 DEF CountsInv
<1>3. CASE StatsNext
  <2>1. LimitsRead'
    BY <1>3, LimitsStep DEF CountsInv
  <2>2. CountsAreSomewhere'
    BY <1>3, CountsQuiet, CountsSnapshot, CountsPrunes, CountsAdd, CountsClear, CountsStopped,
       CountsLoad DEF StatsNext
  <2> QED
    BY <1>1, <2>1, <2>2 DEF CountsInv
<1> QED
  BY <1>2, <1>3

\* Every query that was counted is in the unit of its hour, across the turns of
\* the hour, prunes, saves, resets, shutdowns, kills and restarts, for any
\* hours, names, settings and queries, if no hour begins between the reading of
\* the clock and the lock and a shutdown waits for the round of maintenance.
THEOREM HoursAreKeptHolds ==
    ASSUME ClockWaits, ~SavesOverlap
    PROVE  StatsSpec => []HoursAreKept
<1>1. CountsInv => HoursAreKept
  <2> SUFFICES ASSUME CountsInv, closer.at = "up", NEW h \in Hours24
               PROVE  IF UnitAt(h) = {} THEN counted[h] = 0
                      ELSE \A u \in UnitAt(h) : u.total = counted[h]
    BY DEF HoursAreKept
  <2>1. InUnits(current, past, h) = counted[h] /\ \A u, v \in current : u = v
    BY DEF CountsInv, CountsAreSomewhere, StatsInv, UnitsInOrder
  <2>2. CASE \E u \in current : u.id = h
    <3>1. PICK u \in current : u.id = h
      BY <2>2
    <3>2. current = {u} /\ u.total = counted[h]
      BY <2>1, <3>1, HeldLive
    <3>3. UnitAt(h) = {ToDb(u)}
      BY <2>2, <3>2 DEF UnitAt
    <3> QED
      BY <3>2, <3>3, ToDbTotal
  <2>3. CASE \A u \in current : u.id # h
    <3>1. Total(past, h) = counted[h]
      BY <2>1, <2>3, HeldLive
    <3>2. UnitAt(h) = {past[k] : k \in {h} \cap DOMAIN past}
      BY <2>3 DEF UnitAt
    <3> QED
      BY <3>1, <3>2 DEF Total
  <2> QED
    BY <2>2, <2>3
<1>2. CountsInv /\ [StatsNext]_statsVars => CountsInv'
  BY StepCounts
<1> QED
  BY <1>1, <1>2, InitCounts, PTL DEF StatsSpec
=============================================================================
