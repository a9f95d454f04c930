----------------------------- MODULE ConfigStore -----------------------------
(***************************************************************************)
(* The configuration in memory, on disk and in the running server: the     *)
(* handlers that change it, AppState::save_config and                      *)
(* expire_protection_pause of sift-api/src/state.rs, sift_config::save and *)
(* the two halves of LiveReloader::reload that a reader can tell apart.    *)
(*                                                                         *)
(* A thread is an API request or the task that ends a protection pause.    *)
(* Every lock it takes and every file operation it makes is a step.  The   *)
(* temporary file has one name for every save, and an open file stays with *)
(* its writer when it is renamed.                                          *)
(***************************************************************************)
EXTENDS Naturals

CONSTANTS
    Threads,
    Requests,     \* what API requests ask for, see Apply
    MaxTime,      \* bound on the clock
    MaxFaults,    \* bound on failing file operations
    MaxCrashes,   \* bound on crashes
    NoDeadline,   \* protection_disabled_until = None
    NoFile,       \* there is no temporary file
    Empty,        \* a file that was truncated and not yet written
    Torn,         \* a file with the bytes of two writers
    Nothing       \* no request

Deadlines == Nat \cup {NoDeadline}

Configs == [protection : BOOLEAN, until : Deadlines, other : Nat]

ASSUME ConfigStoreAssumption ==
    /\ MaxTime \in Nat /\ MaxFaults \in Nat /\ MaxCrashes \in Nat
    /\ Requests \subseteq
         [kind : {"protection"}, enabled : BOOLEAN, duration : Nat]
           \cup [kind : {"dns_config"}, enabled : BOOLEAN, valid : BOOLEAN]
           \cup [kind : {"other"}, value : Nat]
    /\ Empty \notin Configs /\ Torn \notin Configs

VARIABLES
    config,    \* AppState.config
    disk,      \* AdGuardHome.yaml
    tmp,       \* .AdGuardHome.yaml.tmp
    live,      \* what reload pushed into the resolver
    now,
    up,        \* the process is running
    pc,        \* where each thread is
    clone,     \* save_config's copy of the configuration
    fd,        \* what each thread's open file is called now
    asked,     \* the protection request that was accepted last
    faults, crashes

storeVars == <<config, disk, tmp, live, now, up, pc, clone, fd, asked, faults,
               crashes>>

Default == [protection |-> TRUE, until |-> NoDeadline, other |-> 0]

\* What the resolver's settings and the rest of the server take from it.
View(c) == [protection |-> c.protection, other |-> c.other]

StoreTypeOK ==
    /\ config \in Configs
    /\ disk \in Configs \cup {Empty, Torn}
    /\ tmp \in Configs \cup {NoFile, Empty, Torn}
    /\ live \in [protection : BOOLEAN, other : Nat]
    /\ now \in 0..MaxTime
    /\ up \in BOOLEAN
    /\ pc \in [Threads -> {"idle", "elapsed", "write", "save", "open", "fill",
                           "restrict", "rename", "settings", "rest"}]
    /\ clone \in [Threads -> Configs]
    /\ fd \in [Threads -> {"tmp", "disk", "gone"}]
    /\ asked \in Requests \cup {Nothing}
    /\ faults \in 0..MaxFaults /\ crashes \in 0..MaxCrashes

StoreInit ==
    /\ config = Default
    /\ disk = Default
    /\ tmp = NoFile
    /\ live = View(Default)
    /\ now = 0
    /\ up = TRUE
    /\ pc = [t \in Threads |-> "idle"]
    /\ clone = [t \in Threads |-> Default]
    /\ fd = [t \in Threads |-> "gone"]
    /\ asked = Nothing
    /\ faults = 0
    /\ crashes = 0

Busy == {t \in Threads : pc[t] # "idle"}

Goto(t, p) == pc' = [pc EXCEPT ![t] = p]

(***************************************************************************)
(* The handlers.                                                           *)
(***************************************************************************)
\* Mutant of PauseDeadline: no duration leaves the old deadline.
PauseDeadlineKept(enabled, duration) ==
    IF ~enabled /\ duration > 0 THEN now + duration ELSE config.until

\* pause_deadline: none when protection goes on, or off with no duration.
PauseDeadline(enabled, duration) ==
    IF ~enabled /\ duration > 0 THEN now + duration ELSE NoDeadline

\* set_protection; set_dns_config, which sets the switch and not the
\* deadline; and the handlers that leave protection alone.
Apply(req) ==
    IF req.kind = "protection"
      THEN [config EXCEPT !.protection = req.enabled,
                          !.until = PauseDeadline(req.enabled, req.duration)]
    ELSE IF req.kind = "dns_config" THEN [config EXCEPT !.protection = req.enabled]
    ELSE [config EXCEPT !.other = req.value]

Rejected(req) == req.kind = "dns_config" /\ ~req.valid

\* The change, under the configuration's lock.  A field set_dns_config finds
\* invalid returns an error with the fields before it already changed.
Handle(t, req) ==
    /\ up
    /\ pc[t] = "idle"
    /\ config' = Apply(req)
    /\ asked' = IF req.kind = "other" \/ Rejected(req) THEN asked ELSE req
    /\ Goto(t, IF Rejected(req) THEN "idle" ELSE "save")
    /\ UNCHANGED <<disk, tmp, live, now, up, clone, fd, faults, crashes>>

(***************************************************************************)
(* expire_protection_pause, once a second: two reads and then a write.     *)
(***************************************************************************)
Paused(c) == ~c.protection /\ c.until # NoDeadline

\* protection_pause_left is zero.
Elapsed(c) == c.protection \/ c.until = NoDeadline \/ c.until <= now

WatchPause(t) ==
    /\ up
    /\ pc[t] = "idle"
    /\ Paused(config)
    /\ Goto(t, "elapsed")
    /\ UNCHANGED <<config, disk, tmp, live, now, up, clone, fd, asked, faults,
                   crashes>>

WatchElapsed(t) ==
    /\ pc[t] = "elapsed"
    /\ Goto(t, IF Elapsed(config) THEN "write" ELSE "idle")
    /\ UNCHANGED <<config, disk, tmp, live, now, up, clone, fd, asked, faults,
                   crashes>>

\* Mutant of WatchEnable: the change is not saved, so nothing reloads.
WatchEnableUnsaved(t) ==
    /\ pc[t] = "write"
    /\ config' = [config EXCEPT !.protection = TRUE, !.until = NoDeadline]
    /\ Goto(t, "idle")
    /\ UNCHANGED <<disk, tmp, live, now, up, clone, fd, asked, faults, crashes>>

WatchEnable(t) ==
    /\ pc[t] = "write"
    /\ config' = [config EXCEPT !.protection = TRUE, !.until = NoDeadline]
    /\ Goto(t, "save")
    /\ UNCHANGED <<disk, tmp, live, now, up, clone, fd, asked, faults, crashes>>

(***************************************************************************)
(* save_config: sift_config::save, then reload.                            *)
(***************************************************************************)
SaveClone(t) ==
    /\ pc[t] = "save"
    /\ clone' = [clone EXCEPT ![t] = config]
    /\ Goto(t, "open")
    /\ UNCHANGED <<config, disk, tmp, live, now, up, fd, asked, faults, crashes>>

\* Mutant of SaveOpen: writes over the configuration itself.
SaveOpenInPlace(t) ==
    /\ pc[t] = "open"
    /\ disk' = Empty
    /\ fd' = [fd EXCEPT ![t] = "disk"]
    /\ Goto(t, "fill")
    /\ UNCHANGED <<config, tmp, live, now, up, clone, asked, faults, crashes>>

\* fs::write opens and truncates whatever file has the name ...
SaveOpen(t) ==
    /\ pc[t] = "open"
    /\ tmp' = Empty
    /\ fd' = [fd EXCEPT ![t] = "tmp"]
    /\ Goto(t, "fill")
    /\ UNCHANGED <<config, disk, live, now, up, clone, asked, faults, crashes>>

\* The file after a write from its start: what was there may be longer.
Overwrite(old, new) == IF old = Empty THEN {new} ELSE {new, Torn}

\* ... and writes to the file it opened, by whatever name that goes now.
SaveFill(t) ==
    /\ pc[t] = "fill"
    /\ \/ fd[t] = "tmp" /\ tmp' \in Overwrite(tmp, clone[t]) /\ UNCHANGED disk
       \/ fd[t] = "disk" /\ disk' \in Overwrite(disk, clone[t]) /\ UNCHANGED tmp
       \/ fd[t] = "gone" /\ UNCHANGED <<disk, tmp>>
    /\ fd' = [fd EXCEPT ![t] = "gone"]
    /\ Goto(t, "restrict")
    /\ UNCHANGED <<config, live, now, up, clone, asked, faults, crashes>>

\* restrict_file, by name: an error if another save has renamed the file.
SaveRestrict(t) ==
    /\ pc[t] = "restrict"
    /\ Goto(t, IF tmp = NoFile THEN "idle" ELSE "rename")
    /\ UNCHANGED <<config, disk, tmp, live, now, up, clone, fd, asked, faults,
                   crashes>>

\* The rename carries the open files of other saves with it.
SaveRename(t) ==
    /\ pc[t] = "rename"
    /\ IF tmp = NoFile
         THEN UNCHANGED <<disk, tmp, fd>> /\ Goto(t, "idle")
         ELSE /\ disk' = tmp
              /\ tmp' = NoFile
              /\ fd' = [x \in Threads |->
                          IF fd[x] = "tmp" THEN "disk" ELSE "gone"]
              /\ Goto(t, "settings")
    /\ UNCHANGED <<config, live, now, up, clone, asked, faults, crashes>>

\* Mutant of SaveFault: the error is dropped and the server reloads.
SaveFaultIgnored(t) ==
    /\ pc[t] \in {"open", "fill", "restrict", "rename"}
    /\ faults < MaxFaults
    /\ faults' = faults + 1
    /\ fd' = [fd EXCEPT ![t] = "gone"]
    /\ Goto(t, "settings")
    /\ UNCHANGED <<config, disk, tmp, live, now, up, clone, asked, crashes>>

\* Any of the file operations fails: save_config returns without reloading.
SaveFault(t) ==
    /\ pc[t] \in {"open", "fill", "restrict", "rename"}
    /\ faults < MaxFaults
    /\ faults' = faults + 1
    /\ fd' = [fd EXCEPT ![t] = "gone"]
    /\ Goto(t, "idle")
    /\ UNCHANGED <<config, disk, tmp, live, now, up, clone, asked, crashes>>

\* reload: the resolver's settings first, the other parts after them.
ReloadSettings(t) ==
    /\ pc[t] = "settings"
    /\ live' = [live EXCEPT !.protection = clone[t].protection]
    /\ Goto(t, "rest")
    /\ UNCHANGED <<config, disk, tmp, now, up, clone, fd, asked, faults, crashes>>

ReloadRest(t) ==
    /\ pc[t] = "rest"
    /\ live' = [live EXCEPT !.other = clone[t].other]
    /\ Goto(t, "idle")
    /\ UNCHANGED <<config, disk, tmp, now, up, clone, fd, asked, faults, crashes>>

(***************************************************************************)
(* The process and the clock.                                              *)
(***************************************************************************)
Crash ==
    /\ up
    /\ crashes < MaxCrashes
    /\ crashes' = crashes + 1
    /\ up' = FALSE
    /\ pc' = [t \in Threads |-> "idle"]
    /\ fd' = [t \in Threads |-> "gone"]
    /\ UNCHANGED <<config, disk, tmp, live, now, clone, asked, faults>>

\* sift_config::load, which fails on a file that is not whole.
Restart ==
    /\ ~up
    /\ disk \in Configs
    /\ up' = TRUE
    /\ config' = disk
    /\ live' = View(disk)
    /\ asked' = Nothing
    /\ UNCHANGED <<disk, tmp, now, pc, clone, fd, faults, crashes>>

Tick ==
    /\ now < MaxTime
    /\ now' = now + 1
    /\ UNCHANGED <<config, disk, tmp, live, up, pc, clone, fd, asked, faults,
                   crashes>>

SaveStep(t) ==
    \/ SaveClone(t)
    \/ SaveOpen(t)
    \/ SaveFill(t)
    \/ SaveRestrict(t)
    \/ SaveRename(t)
    \/ ReloadSettings(t)
    \/ ReloadRest(t)

WatchStep(t) == WatchPause(t) \/ WatchElapsed(t) \/ WatchEnable(t)

StoreNext ==
    \/ \E t \in Threads :
         \/ \E req \in Requests : Handle(t, req)
         \/ WatchPause(t)
         \/ WatchElapsed(t)
         \/ WatchEnable(t)
         \/ SaveStep(t)
         \/ SaveFault(t)
    \/ Crash
    \/ Restart
    \/ Tick

\* The clock runs, protection_watch ticks every second (main.rs:692-704) and
\* a save that was begun goes on.
StoreFairness ==
    /\ WF_storeVars(Tick)
    /\ WF_storeVars(Restart)
    /\ \A t \in Threads : WF_storeVars(SaveStep(t))
    /\ \A t \in Threads : WF_storeVars(WatchElapsed(t) \/ WatchEnable(t))
    /\ SF_storeVars(\E t \in Threads : WatchPause(t))

StoreSpec == StoreInit /\ [][StoreNext]_storeVars /\ StoreFairness

(***************************************************************************)
(* Properties.                                                             *)
(***************************************************************************)
\* "Rename over the target so a crash cannot leave a half-written config"
\* (file.rs:106-107): whenever the process may die, the file is whole.
DiskIsWhole == disk \notin {Empty, Torn}

\* With no save under way the running server is configured as the file says,
\* whichever of the save's operations failed and wherever a crash fell.
LiveFollowsDisk == up /\ Busy = {} => disk \in Configs /\ live = View(disk)

\* Saves that overlap leave no temporary file behind: whoever renames last
\* takes the name away, and the others return an error.
NoLeftoverFile == Busy = {} /\ faults = 0 /\ crashes = 0 => tmp = NoFile

\* "Saves the configuration and tells the server to pick it up"
\* (state.rs:182): a save that returns Ok leaves the configuration in memory
\* on disk and in the server.
SavedMeansSaved ==
    [][\A t \in Threads :
         ReloadRest(t) => disk = config /\ live' = View(config)]_storeVars

OffForGood(req) ==
    /\ ~req.enabled
    /\ req.kind = "protection" => req.duration = 0

\* "Off until I say otherwise has no deadline, and leaving a stale one behind
\* would turn protection back on by itself" (status.rs:516-517): after a
\* request that turns protection off for good, it stays off.
OffMeansOff == asked # Nothing /\ OffForGood(asked) => ~config.protection

PauseOver == Paused(config) /\ config.until <= now

\* "Turns protection back on if its pause has elapsed" (state.rs:227): an
\* elapsed pause is followed by a server that filters again, if no request
\* turns protection off once more and no file operation has failed.  When the
\* watcher's own save fails, memory says that protection is on while the
\* server stays off, and no later tick tries again.
PauseEnds ==
    PauseOver ~> \/ live.protection
                 \/ ~config.protection /\ ~PauseOver
                 \/ faults > 0
=============================================================================
