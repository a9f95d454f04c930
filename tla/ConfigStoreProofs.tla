-------------------------- MODULE ConfigStoreProofs --------------------------
(***************************************************************************)
(* Proofs about the configuration in memory, on disk and in the running    *)
(* server, for any requests, bounds, failing file operations and crashes,  *)
(* and saves that do not overlap.                                          *)
(***************************************************************************)
EXTENDS ConfigStore, TLAPS

\* One request, or the task that ends a pause, at a time.  Nothing in
\* save_config makes it so, and with two threads DiskIsWhole, LiveFollowsDisk and
\* OffMeansOff fail.
OneAtATime == \A t, u \in Threads : t = u

\* What a save has done so far.
SavesGoOn ==
    \A t \in Threads :
        /\ pc[t] = "fill" => fd[t] = "tmp" /\ tmp = Empty
        /\ pc[t] \in {"restrict", "rename"} => tmp = clone[t]
        /\ pc[t] \in {"settings", "rest"} => disk = clone[t]
        /\ pc[t] = "rest" => live.protection = clone[t].protection

\* The server follows the file but between a rename and the end of the reload.
LiveInTime ==
    up /\ (\A t \in Threads : pc[t] \notin {"settings", "rest"}) => live = View(disk)

StoreInv ==
    /\ StoreTypeOK
    /\ disk \in Configs
    /\ SavesGoOn
    /\ LiveInTime

LEMMA ViewFields ==
    ASSUME NEW c \in Configs, NEW v \in [protection : BOOLEAN, other : Nat]
    PROVE  /\ View(c) \in [protection : BOOLEAN, other : Nat]
           /\ View(c).protection = c.protection /\ View(c).other = c.other
           /\ v = View(c) <=> v.protection = c.protection /\ v.other = c.other
BY DEF View, Configs

LEMMA ApplyGivesConfigs ==
    ASSUME StoreTypeOK, NEW req \in Requests
    PROVE  Apply(req) \in Configs
<1>1. config \in Configs /\ now \in Nat
      BY ConfigStoreAssumption DEF StoreTypeOK
<1>2. CASE req.kind = "protection"
  <2>1. req \in [kind : {"protection"}, enabled : BOOLEAN, duration : Nat]
        BY <1>2, ConfigStoreAssumption
  <2>2. PICK d \in Deadlines : d = PauseDeadline(req.enabled, req.duration)
    <3>1. PICK d : d = PauseDeadline(req.enabled, req.duration)
          OBVIOUS
    <3>2. now + req.duration \in Nat
          BY <1>1, <2>1
    <3>3. d = now + req.duration \/ d = NoDeadline
          BY <3>1 DEF PauseDeadline
    <3> QED
        BY <3>1, <3>2, <3>3 DEF Deadlines
  <2>3. Apply(req) = [config EXCEPT !.protection = req.enabled, !.until = d]
        BY <1>2, <2>2 DEF Apply
  <2> QED
      BY <1>1, <2>1, <2>3 DEF Configs
<1>3. CASE req.kind = "dns_config"
  <2>1. req \in [kind : {"dns_config"}, enabled : BOOLEAN, valid : BOOLEAN]
        BY <1>3, ConfigStoreAssumption
  <2>2. Apply(req) = [config EXCEPT !.protection = req.enabled]
        BY <1>3 DEF Apply
  <2> QED
      BY <1>1, <2>1, <2>2 DEF Configs
<1>4. CASE req.kind \notin {"protection", "dns_config"}
  <2>1. req \in [kind : {"other"}, value : Nat]
        BY <1>4, ConfigStoreAssumption
  <2>2. Apply(req) = [config EXCEPT !.other = req.value]
        BY <1>4 DEF Apply
  <2> QED
      BY <1>1, <2>1, <2>2 DEF Configs
<1> QED
    BY <1>2, <1>3, <1>4

LEMMA StoreInitially == StoreInit => StoreInv
<1> SUFFICES ASSUME StoreInit PROVE StoreInv
    OBVIOUS
<1>1. Default \in Configs
      BY DEF Default, Configs, Deadlines
<1>2. View(Default) \in [protection : BOOLEAN, other : Nat]
      BY <1>1 DEF View, Configs
<1>3. StoreTypeOK
      BY <1>1, <1>2, ConfigStoreAssumption DEF StoreInit, StoreTypeOK
<1> QED
    BY <1>1, <1>3 DEF StoreInit, StoreInv, SavesGoOn, LiveInTime

\* The handlers and the task that ends a pause change memory only.
LEMMA HandlersKeepStore ==
    ASSUME StoreInv, NEW t \in Threads,
           \/ \E req \in Requests : Handle(t, req)
           \/ WatchStep(t)
    PROVE  StoreInv'
<1>0. StoreTypeOK /\ SavesGoOn /\ LiveInTime /\ disk \in Configs
      BY DEF StoreInv
<1>1. ASSUME NEW req \in Requests, Handle(t, req) PROVE StoreInv'
  <2>1. config' \in Configs
        BY <1>0, <1>1, ApplyGivesConfigs DEF Handle
  <2>2. asked' \in Requests \cup {Nothing}
        BY <1>0, <1>1 DEF Handle, StoreTypeOK
  <2>3. StoreTypeOK'
        BY <1>0, <1>1, <2>1, <2>2 DEF Handle, Goto, StoreTypeOK
  <2>4. SavesGoOn' /\ LiveInTime'
        BY <1>0, <1>1 DEF Handle, Goto, SavesGoOn, LiveInTime, StoreTypeOK
  <2> QED
      BY <1>0, <1>1, <2>3, <2>4 DEF Handle, StoreInv
<1>2. ASSUME WatchStep(t) PROVE StoreInv'
  <2>1. config' \in Configs
    <3>1. [config EXCEPT !.protection = TRUE, !.until = NoDeadline] \in Configs
          BY <1>0 DEF StoreTypeOK, Configs, Deadlines
    <3> QED
        BY <1>0, <1>2, <3>1 DEF WatchStep, WatchPause, WatchElapsed, WatchEnable, StoreTypeOK
  <2>2. StoreTypeOK'
        BY <1>0, <1>2, <2>1 DEF WatchStep, WatchPause, WatchElapsed, WatchEnable, Goto, StoreTypeOK
  <2>3. SavesGoOn' /\ LiveInTime'
        BY <1>0, <1>2 DEF WatchStep, WatchPause, WatchElapsed, WatchEnable, Goto, SavesGoOn, LiveInTime,
                          StoreTypeOK
  <2> QED
      BY <1>0, <1>2, <2>2, <2>3 DEF WatchStep, WatchPause, WatchElapsed, WatchEnable, StoreInv
<1> QED
    BY <1>1, <1>2

LEMMA SavesKeepStore ==
    ASSUME OneAtATime, StoreInv, NEW t \in Threads, SaveStep(t) \/ SaveFault(t)
    PROVE  StoreInv'
<1>0. /\ StoreTypeOK /\ SavesGoOn /\ LiveInTime /\ disk \in Configs
      /\ \A u \in Threads : u = t
      BY DEF StoreInv, OneAtATime
<1>1. ASSUME SaveClone(t) PROVE StoreInv'
  <2>1. StoreTypeOK'
        BY <1>0, <1>1 DEF SaveClone, Goto, StoreTypeOK
  <2>2. SavesGoOn' /\ LiveInTime'
        BY <1>0, <1>1 DEF SaveClone, Goto, SavesGoOn, LiveInTime, StoreTypeOK
  <2> QED
      BY <1>0, <1>1, <2>1, <2>2 DEF SaveClone, StoreInv
<1>2. ASSUME SaveOpen(t) PROVE StoreInv'
  <2>1. StoreTypeOK'
        BY <1>0, <1>2 DEF SaveOpen, Goto, StoreTypeOK
  <2>2. SavesGoOn' /\ LiveInTime'
        BY <1>0, <1>2 DEF SaveOpen, Goto, SavesGoOn, LiveInTime, StoreTypeOK
  <2> QED
      BY <1>0, <1>2, <2>1, <2>2 DEF SaveOpen, StoreInv
<1>3. ASSUME SaveFill(t) PROVE StoreInv'
  <2>1. disk' = disk /\ tmp' = clone[t] /\ pc' = [pc EXCEPT ![t] = "restrict"]
        BY <1>0, <1>3 DEF SaveFill, SavesGoOn, Overwrite, Goto
  <2>2. StoreTypeOK'
        BY <1>0, <1>3, <2>1 DEF SaveFill, StoreTypeOK
  <2>3. SavesGoOn' /\ LiveInTime'
        BY <1>0, <1>3, <2>1 DEF SaveFill, SavesGoOn, LiveInTime, StoreTypeOK
  <2> QED
      BY <1>0, <2>1, <2>2, <2>3 DEF StoreInv
<1>4. ASSUME SaveRestrict(t) PROVE StoreInv'
  <2>1. StoreTypeOK'
        BY <1>0, <1>4 DEF SaveRestrict, Goto, StoreTypeOK
  <2>2. SavesGoOn' /\ LiveInTime'
        BY <1>0, <1>4 DEF SaveRestrict, Goto, SavesGoOn, LiveInTime, StoreTypeOK
  <2> QED
      BY <1>0, <1>4, <2>1, <2>2 DEF SaveRestrict, StoreInv
<1>5. ASSUME SaveRename(t) PROVE StoreInv'
  <2>1. CASE tmp = NoFile
    <3>1. StoreTypeOK'
          BY <1>0, <1>5, <2>1 DEF SaveRename, Goto, StoreTypeOK
    <3>2. SavesGoOn' /\ LiveInTime'
          BY <1>0, <1>5, <2>1 DEF SaveRename, Goto, SavesGoOn, LiveInTime, StoreTypeOK
    <3> QED
        BY <1>0, <1>5, <2>1, <3>1, <3>2 DEF SaveRename, StoreInv
  <2>2. CASE tmp # NoFile
    <3>1. disk' = clone[t] /\ clone' = clone /\ clone[t] \in Configs
          BY <1>0, <1>5, <2>2 DEF SaveRename, SavesGoOn, StoreTypeOK
    <3>2. StoreTypeOK'
          BY <1>0, <1>5, <2>2, <3>1 DEF SaveRename, Goto, StoreTypeOK
    <3>3. SavesGoOn' /\ LiveInTime'
          BY <1>0, <1>5, <2>2, <3>1 DEF SaveRename, Goto, SavesGoOn, LiveInTime, StoreTypeOK
    <3> QED
        BY <3>1, <3>2, <3>3 DEF StoreInv
  <2> QED
      BY <2>1, <2>2
<1>6. ASSUME ReloadSettings(t) PROVE StoreInv'
  <2>1. PICK b \in BOOLEAN : b = clone[t].protection
        BY <1>0 DEF StoreTypeOK, Configs
  <2>2. live' \in [protection : BOOLEAN, other : Nat] /\ live'.protection = clone[t].protection
        BY <1>0, <1>6, <2>1 DEF ReloadSettings, StoreTypeOK
  <2>3. StoreTypeOK'
        BY <1>0, <1>6, <2>2 DEF ReloadSettings, Goto, StoreTypeOK
  <2>4. SavesGoOn' /\ LiveInTime'
        BY <1>0, <1>6, <2>2 DEF ReloadSettings, Goto, SavesGoOn, LiveInTime, StoreTypeOK
  <2> QED
      BY <1>0, <1>6, <2>3, <2>4 DEF ReloadSettings, StoreInv
<1>7. ASSUME ReloadRest(t) PROVE StoreInv'
  <2>1. PICK n \in Nat : n = clone[t].other
        BY <1>0 DEF StoreTypeOK, Configs
  <2>2. /\ live' \in [protection : BOOLEAN, other : Nat] /\ live'.protection = live.protection
        /\ live'.other = n
        BY <1>0, <1>7, <2>1 DEF ReloadRest, StoreTypeOK
  <2>3. disk = clone[t] /\ live.protection = clone[t].protection /\ disk' = disk
        BY <1>0, <1>7 DEF ReloadRest, SavesGoOn
  <2>4. live' = View(disk)
        BY <1>0, <2>1, <2>2, <2>3, ViewFields
  <2>5. StoreTypeOK'
        BY <1>0, <1>7, <2>2 DEF ReloadRest, Goto, StoreTypeOK
  <2>6. SavesGoOn'
        BY <1>0, <1>7 DEF ReloadRest, Goto, SavesGoOn, StoreTypeOK
  <2>7. LiveInTime'
        BY <2>3, <2>4 DEF LiveInTime
  <2> QED
      BY <1>0, <2>3, <2>5, <2>6, <2>7 DEF StoreInv
<1>8. ASSUME SaveFault(t) PROVE StoreInv'
  <2>1. StoreTypeOK'
        BY <1>0, <1>8, ConfigStoreAssumption DEF SaveFault, Goto, StoreTypeOK
  <2>2. SavesGoOn' /\ LiveInTime'
        BY <1>0, <1>8 DEF SaveFault, Goto, SavesGoOn, LiveInTime, StoreTypeOK
  <2> QED
      BY <1>0, <1>8, <2>1, <2>2 DEF SaveFault, StoreInv
<1> QED
    BY <1>1, <1>2, <1>3, <1>4, <1>5, <1>6, <1>7, <1>8 DEF SaveStep

LEMMA StoreKept == OneAtATime /\ StoreInv /\ [StoreNext]_storeVars => StoreInv'
<1> SUFFICES ASSUME OneAtATime, StoreInv, [StoreNext]_storeVars PROVE StoreInv'
    OBVIOUS
<1>0. StoreTypeOK /\ SavesGoOn /\ LiveInTime /\ disk \in Configs
      BY DEF StoreInv
<1>1. ASSUME Crash PROVE StoreInv'
  <2>1. StoreTypeOK'
    <3>1. crashes' \in 0..MaxCrashes
          BY <1>0, <1>1, ConfigStoreAssumption DEF Crash, StoreTypeOK
    <3>2. /\ pc' \in [Threads -> {"idle", "elapsed", "write", "save", "open", "fill",
                                  "restrict", "rename", "settings", "rest"}]
          /\ fd' \in [Threads -> {"tmp", "disk", "gone"}]
          BY <1>1 DEF Crash
    <3> QED
        BY <1>0, <1>1, <3>1, <3>2 DEF Crash, StoreTypeOK
  <2> QED
      BY <1>0, <1>1, <2>1 DEF Crash, StoreInv, SavesGoOn, LiveInTime
<1>2. ASSUME Restart PROVE StoreInv'
  <2>1. live' = View(disk) /\ disk' = disk /\ config' = disk
        BY <1>2 DEF Restart
  <2>2. live' \in [protection : BOOLEAN, other : Nat] /\ live'.protection = disk.protection
        BY <1>0, <2>1, ViewFields DEF StoreTypeOK
  <2>3. StoreTypeOK'
        BY <1>0, <1>2, <2>1, <2>2 DEF Restart, StoreTypeOK
  <2>4. SavesGoOn'
        BY <1>0, <1>2, <2>2 DEF Restart, SavesGoOn
  <2> QED
      BY <1>0, <2>1, <2>3, <2>4 DEF StoreInv, LiveInTime
<1>3. ASSUME Tick PROVE StoreInv'
  <2>1. StoreTypeOK'
        BY <1>0, <1>3, ConfigStoreAssumption DEF Tick, StoreTypeOK
  <2> QED
      BY <1>0, <1>3, <2>1 DEF Tick, StoreInv, SavesGoOn, LiveInTime
<1>4. CASE UNCHANGED storeVars
      BY <1>0, <1>4 DEF storeVars, StoreInv, StoreTypeOK, SavesGoOn, LiveInTime
<1> QED
    BY <1>1, <1>2, <1>3, <1>4, HandlersKeepStore, SavesKeepStore DEF StoreNext, WatchStep

LEMMA StoreInvariant ==
    ASSUME OneAtATime
    PROVE  StoreSpec => []StoreInv
<1>1. StoreInv /\ [StoreNext]_storeVars => StoreInv'
      BY StoreKept
<1> QED
    BY <1>1, StoreInitially, PTL DEF StoreSpec

\* "Rename over the target so a crash cannot leave a half-written config"
\* (file.rs:106-107): if saves do not overlap, the configuration file is a whole
\* configuration in every state, wherever a crash or a failing operation falls.
THEOREM DiskIsWholeHolds ==
    ASSUME OneAtATime
    PROVE  StoreSpec => []DiskIsWhole
<1>1. StoreInv => DiskIsWhole
      BY ConfigStoreAssumption DEF StoreInv, DiskIsWhole
<1> QED
    BY <1>1, StoreInvariant, PTL

\* If saves do not overlap, the running server is configured as the file says
\* whenever none is under way (state.rs: save_config, main.rs: the load at the
\* start): a save that failed reloads nothing, and a crash between the rename
\* and the reload is made good by the restart.
THEOREM LiveFollowsDiskHolds ==
    ASSUME OneAtATime
    PROVE  StoreSpec => []LiveFollowsDisk
<1>1. StoreInv => LiveFollowsDisk
      BY DEF StoreInv, LiveInTime, LiveFollowsDisk, Busy
<1> QED
    BY <1>1, StoreInvariant, PTL

(***************************************************************************)
(* Protection that was turned off.                                         *)
(***************************************************************************)
\* A set_dns_config that is accepted turns protection on, and one that is
\* refused would have turned it off.  The other two break the property: one
\* that turns protection off leaves the deadline of an earlier pause, and one
\* that is refused has turned it on already.
SwitchesKeepDeadlines ==
    \A req \in Requests : req.kind = "dns_config" => (req.enabled <=> req.valid)

\* The task that ends a pause has seen one, and nothing has changed since.
WatcherSawPause == \A t \in Threads : pc[t] \in {"elapsed", "write"} => Paused(config)

DownIsIdle == ~up => \A t \in Threads : pc[t] = "idle"

OffHasNoDeadline ==
    asked # Nothing /\ OffForGood(asked) => ~config.protection /\ config.until = NoDeadline

OffInv == StoreTypeOK /\ WatcherSawPause /\ DownIsIdle /\ OffHasNoDeadline

LEMMA OffKept ==
    OneAtATime /\ SwitchesKeepDeadlines /\ StoreTypeOK' /\ OffInv /\ [StoreNext]_storeVars => OffInv'
<1> SUFFICES ASSUME OneAtATime, SwitchesKeepDeadlines, StoreTypeOK', OffInv, [StoreNext]_storeVars
             PROVE  WatcherSawPause' /\ DownIsIdle' /\ OffHasNoDeadline'
    BY DEF OffInv
<1>0. /\ StoreTypeOK /\ WatcherSawPause /\ DownIsIdle /\ OffHasNoDeadline
      /\ \A t, u \in Threads : t = u
      BY DEF OffInv, OneAtATime
<1>1. ASSUME NEW t \in Threads, NEW req \in Requests, Handle(t, req)
      PROVE  WatcherSawPause' /\ DownIsIdle' /\ OffHasNoDeadline'
  <2>1. \A u \in Threads : pc'[u] \in {"idle", "save"}
        BY <1>0, <1>1 DEF Handle, Goto, StoreTypeOK
  <2>2. up /\ up' = up
        BY <1>1 DEF Handle
  <2>3. config \in Configs
        BY <1>0 DEF StoreTypeOK
  <2>4. CASE req.kind = "protection"
    <3>1. req \in [kind : {"protection"}, enabled : BOOLEAN, duration : Nat]
          BY <2>4, ConfigStoreAssumption
    <3>2. asked' = req
          BY <1>1, <2>4 DEF Handle, Rejected
    <3>3. ASSUME OffForGood(req) PROVE ~config'.protection /\ config'.until = NoDeadline
      <4>1. ~req.enabled /\ req.duration = 0
            BY <2>4, <3>3 DEF OffForGood
      <4>2. config' = [config EXCEPT !.protection = req.enabled, !.until = NoDeadline]
            BY <1>1, <2>4, <4>1 DEF Handle, Apply, PauseDeadline
      <4> QED
          BY <2>3, <4>1, <4>2 DEF Configs
    <3> QED
        BY <2>1, <2>2, <3>2, <3>3 DEF WatcherSawPause, DownIsIdle, OffHasNoDeadline
  <2>5. CASE req.kind = "dns_config"
    <3>1. req \in [kind : {"dns_config"}, enabled : BOOLEAN, valid : BOOLEAN]
          BY <2>5, ConfigStoreAssumption
    <3>2. config' = [config EXCEPT !.protection = req.enabled]
          BY <1>1, <2>5 DEF Handle, Apply
    <3>3. CASE req.enabled
      <4>1. asked' = req /\ ~OffForGood(req)
            BY <1>1, <2>5, <3>3 DEF Handle, Rejected, SwitchesKeepDeadlines, OffForGood
      <4> QED
          BY <2>1, <2>2, <4>1 DEF WatcherSawPause, DownIsIdle, OffHasNoDeadline
    <3>4. CASE ~req.enabled
      <4>1. asked' = asked
            BY <1>1, <2>5, <3>4 DEF Handle, Rejected, SwitchesKeepDeadlines
      <4>2. ~config'.protection /\ config'.until = config.until
            BY <2>3, <3>2, <3>4 DEF Configs
      <4> QED
          BY <1>0, <2>1, <2>2, <4>1, <4>2 DEF WatcherSawPause, DownIsIdle, OffHasNoDeadline
    <3> QED
        BY <3>3, <3>4
  <2>6. CASE req.kind \notin {"protection", "dns_config"}
    <3>1. req \in [kind : {"other"}, value : Nat]
          BY <2>6, ConfigStoreAssumption
    <3>2. asked' = asked /\ config' = [config EXCEPT !.other = req.value]
          BY <1>1, <2>6, <3>1 DEF Handle, Apply
    <3>3. config'.protection = config.protection /\ config'.until = config.until
          BY <2>3, <3>2 DEF Configs
    <3> QED
        BY <1>0, <2>1, <2>2, <3>2, <3>3 DEF WatcherSawPause, DownIsIdle, OffHasNoDeadline
  <2> QED
      BY <2>4, <2>5, <2>6
<1>2. ASSUME NEW t \in Threads, WatchPause(t) \/ WatchElapsed(t)
      PROVE  WatcherSawPause' /\ DownIsIdle' /\ OffHasNoDeadline'
      BY <1>0, <1>2 DEF WatchPause, WatchElapsed, Goto, WatcherSawPause, DownIsIdle, OffHasNoDeadline,
                        StoreTypeOK, Paused
<1>3. ASSUME NEW t \in Threads, WatchEnable(t)
      PROVE  WatcherSawPause' /\ DownIsIdle' /\ OffHasNoDeadline'
  <2>1. Paused(config) /\ up /\ up' = up /\ asked' = asked
        BY <1>0, <1>3 DEF WatchEnable, WatcherSawPause, DownIsIdle
  <2>2. ~(asked # Nothing /\ OffForGood(asked))
        BY <1>0, <2>1 DEF OffHasNoDeadline, Paused
  <2>3. \A u \in Threads : pc'[u] = "save"
        BY <1>0, <1>3 DEF WatchEnable, Goto, StoreTypeOK
  <2> QED
      BY <2>1, <2>2, <2>3 DEF WatcherSawPause, DownIsIdle, OffHasNoDeadline
<1>4. ASSUME NEW t \in Threads, SaveStep(t) \/ SaveFault(t)
      PROVE  WatcherSawPause' /\ DownIsIdle' /\ OffHasNoDeadline'
  <2>1. UNCHANGED <<config, asked, up>> /\ pc[t] # "idle"
        BY <1>4 DEF SaveStep, SaveClone, SaveOpen, SaveFill, SaveRestrict, SaveRename,
                    ReloadSettings, ReloadRest, SaveFault
  <2>2. pc'[t] \notin {"elapsed", "write"}
        BY <1>0, <1>4 DEF SaveStep, SaveClone, SaveOpen, SaveFill, SaveRestrict, SaveRename,
                          ReloadSettings, ReloadRest, SaveFault, Goto, StoreTypeOK
  <2> QED
      BY <1>0, <2>1, <2>2 DEF WatcherSawPause, DownIsIdle, OffHasNoDeadline
<1>5. ASSUME Crash \/ Restart \/ Tick \/ UNCHANGED storeVars
      PROVE  WatcherSawPause' /\ DownIsIdle' /\ OffHasNoDeadline'
      BY <1>0, <1>5 DEF Crash, Restart, Tick, storeVars, WatcherSawPause, DownIsIdle,
                        OffHasNoDeadline, Paused
<1> QED
    BY <1>1, <1>2, <1>3, <1>4, <1>5 DEF StoreNext

\* "Off until I say otherwise has no deadline" (status.rs:516-517): if requests
\* do not overlap and set_dns_config neither turns protection off nor is refused
\* after turning it on, protection that was turned off for good stays off, and
\* the task that ends a pause does not turn it on.
THEOREM OffMeansOffHolds ==
    ASSUME OneAtATime, SwitchesKeepDeadlines
    PROVE  StoreSpec => []OffMeansOff
<1>1. StoreInit => OffInv
  <2> SUFFICES ASSUME StoreInit PROVE OffInv
      OBVIOUS
  <2>1. StoreTypeOK
        BY StoreInitially DEF StoreInv
  <2> QED
      BY <2>1 DEF StoreInit, OffInv, WatcherSawPause, DownIsIdle, OffHasNoDeadline
<1>2. StoreTypeOK' /\ OffInv /\ [StoreNext]_storeVars => OffInv'
      BY OffKept
<1>3. StoreInv => StoreTypeOK
      BY DEF StoreInv
<1>4. OffInv => OffMeansOff
      BY DEF OffInv, OffHasNoDeadline, OffMeansOff
<1> QED
    BY <1>1, <1>2, <1>3, <1>4, StoreInvariant, PTL DEF StoreSpec

=============================================================================
