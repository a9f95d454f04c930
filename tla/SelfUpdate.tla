----------------------------- MODULE SelfUpdate -----------------------------
(***************************************************************************)
(* Replacing the running program by a published release                    *)
(* (sift/src/update.rs), as /control/update asks for it                    *)
(* (sift-api/src/handlers/status.rs: version, update).                     *)
(*                                                                         *)
(* A file holds nothing, a part of a program, or the program of a version. *)
(* The working directory and the program's may be on one file system, in   *)
(* which case a move is a rename, or on two, in which case it is a copy    *)
(* and a removal.                                                          *)
(***************************************************************************)
EXTENDS Integers, FiniteSets

CONSTANTS
    Updaters,       \* requests to update that may be in progress at once
    MaxVersion,     \* the versions are 1..MaxVersion
    MaxUpdateFaults \* bound on the file operations of one update that fail

ASSUME UpdateAssumption == MaxVersion \in Nat /\ MaxUpdateFaults \in Nat

VARIABLES
    files,        \* "exe", "kept" (in agh-backup), "staged" (in agh-update-*)
    crossFs,      \* whether exe is on another file system than the working directory
    image,        \* the version that is running, 0 when none is
    announced,    \* the version in version_cache, 0 when there is none
    upd,          \* what each update is doing
    crashed,      \* ghost: the process died in the middle of an update
    updFaults     \* how many operations of the update failed

updateVars == <<files, crossFs, image, announced, upd, crashed, updFaults>>

Nothing == 0
Partial == -1
Whole(f) == files[f] > 0
NoUpdate == [at |-> "none"]

UpdateInit ==
    /\ files = [f \in {"exe", "kept", "staged"} |-> IF f = "exe" THEN 1 ELSE Nothing]
    /\ crossFs \in BOOLEAN
    /\ image = 1
    /\ announced = 0
    /\ upd = [u \in Updaters |-> NoUpdate]
    /\ crashed = FALSE
    /\ updFaults = 0

\* A fault of the file system, counted.
UpdateFault == updFaults < MaxUpdateFaults /\ updFaults' = updFaults + 1

To(u, at) == upd' = [upd EXCEPT ![u] = [@ EXCEPT !.at = at]]

\* version: the cache takes what the announcement names.
FetchAnnouncement ==
    /\ image > 0
    /\ announced' \in 1..MaxVersion
    /\ UNCHANGED <<files, crossFs, image, upd, crashed, updFaults>>

\* update, update_blocker and the start of perform: only a newer version is
\* installed, and what an earlier attempt left is removed.
BeginUpdate(u) ==
    /\ image > 0
    /\ upd[u] = NoUpdate
    /\ announced > image
    /\ upd' = [upd EXCEPT ![u] = [at |-> "stage", version |-> announced, ok |-> FALSE, copied |-> Nothing]]
    /\ files' = [files EXCEPT !.staged = Nothing]
    /\ updFaults' = 0
    /\ UNCHANGED <<crossFs, image, announced, crashed>>

\* stage: a download, checksum or archive that is not right ends the update,
\* before the file is written or when part of it is.
StageFails(u) ==
    /\ upd[u].at = "stage"
    /\ files' \in {files, [files EXCEPT !.staged = Partial]}
    /\ To(u, "clean")
    /\ UNCHANGED <<crossFs, image, announced, crashed, updFaults>>

StageWrites(u) ==
    /\ upd[u].at = "stage"
    /\ files' = [files EXCEPT !.staged = upd[u].version]
    /\ To(u, "check")
    /\ UNCHANGED <<crossFs, image, announced, crashed, updFaults>>

\* check: the new program runs and takes the configuration, or not.  Creating
\* the backup and copying the configuration into it may fail as well.
CheckStaged(u) ==
    /\ upd[u].at = "check"
    /\ To(u, "keep") \/ To(u, "clean")
    /\ UNCHANGED <<files, crossFs, image, announced, crashed, updFaults>>

-----------------------------------------------------------------------------
(* install: the running program is moved to the backup, the new one to its *)
(* place, and the old one back when that failed.  A move is a rename, or   *)
(* a copy and a removal, of which the copy is seen while it is made.       *)

Moves == {"keep", "place", "undo"}
Source(at) == CASE at = "keep" -> "exe" [] at = "place" -> "staged" [] at = "undo" -> "kept"
Dest(at) == IF at = "keep" THEN "kept" ELSE "exe"

\* Mutant of AfterMove: a failure to place the new program is only reported.
AfterMoveNotUndone(at, ok) ==
    CASE at = "keep" /\ ok -> "place"
      [] at = "place" /\ ok -> "mode"
      [] OTHER -> "clean"

AfterMove(at, ok) ==
    CASE at = "keep" /\ ok -> "place"
      [] at = "place" -> IF ok THEN "mode" ELSE "undo"
      [] OTHER -> "clean"

MoveByRename(u) ==
    LET at == upd[u].at
    IN  /\ at \in Moves /\ upd[u].copied = Nothing
        /\ ~crossFs /\ files[Source(at)] # Nothing
        /\ files' = [files EXCEPT ![Dest(at)] = files[Source(at)], ![Source(at)] = Nothing]
        /\ To(u, AfterMove(at, TRUE))
        /\ UNCHANGED <<crossFs, image, announced, crashed, updFaults>>

\* The rename failed: always on two file systems, or by a fault.
BeginCopy(u) ==
    LET at == upd[u].at
    IN  /\ at \in Moves /\ upd[u].copied = Nothing
        /\ IF crossFs \/ files[Source(at)] = Nothing THEN UNCHANGED updFaults ELSE UpdateFault
        /\ IF files[Source(at)] = Nothing
           THEN To(u, AfterMove(at, FALSE)) /\ UNCHANGED files
           ELSE /\ files' = [files EXCEPT ![Dest(at)] = Partial]
                /\ upd' = [upd EXCEPT ![u].copied = files[Source(at)]]
        /\ UNCHANGED <<crossFs, image, announced, crashed>>

\* The copy ends and the source is removed; the one or the other may fail.
EndCopy(u) ==
    LET at == upd[u].at
        done == [files EXCEPT ![Dest(at)] = upd[u].copied]
        Leaves(next) == upd' = [upd EXCEPT ![u] = [@ EXCEPT !.at = next, !.copied = Nothing]]
    IN  /\ at \in Moves /\ upd[u].copied # Nothing
        /\ \/ /\ files' = [done EXCEPT ![Source(at)] = Nothing]
              /\ Leaves(AfterMove(at, TRUE))
              /\ UNCHANGED updFaults
           \/ /\ UpdateFault
              /\ files' \in {files, done}
              /\ Leaves(AfterMove(at, FALSE))
        /\ UNCHANGED <<crossFs, image, announced, crashed>>

\* make_executable of the program that was placed.
SetMode(u) ==
    /\ upd[u].at = "mode"
    /\ \/ upd' = [upd EXCEPT ![u] = [@ EXCEPT !.at = "clean", !.ok = TRUE]] /\ UNCHANGED updFaults
       \/ To(u, "clean") /\ UpdateFault
    /\ UNCHANGED <<files, crossFs, image, announced, crashed>>

\* The end of perform: the update directory is removed and the request answered.
CleanUp(u) ==
    /\ upd[u].at = "clean"
    /\ files' = [files EXCEPT !.staged = Nothing]
    /\ IF upd[u].ok
       THEN To(u, "restart")
       ELSE upd' = [upd EXCEPT ![u] = NoUpdate]
    /\ UNCHANGED <<crossFs, image, announced, crashed, updFaults>>

\* restart_into: the program at exe replaces this process, or the process exits.
RestartInto(u) ==
    /\ upd[u].at = "restart"
    /\ image' = IF Whole("exe") THEN files.exe ELSE 0
    /\ announced' = 0
    /\ upd' = [v \in Updaters |-> NoUpdate]
    /\ UNCHANGED <<files, crossFs, crashed, updFaults>>

UpdateCrash ==
    /\ image > 0
    /\ image' = 0
    /\ announced' = 0
    /\ crashed' = (crashed \/ \E u \in Updaters : upd[u] # NoUpdate)
    /\ upd' = [u \in Updaters |-> NoUpdate]
    /\ UNCHANGED <<files, crossFs, updFaults>>

\* A supervisor starts what is at exe; without it the operator puts the backup there.
StartProgram ==
    /\ image = 0
    /\ \/ Whole("exe") /\ UNCHANGED files
       \/ ~Whole("exe") /\ Whole("kept") /\ files' = [files EXCEPT !.exe = files.kept]
    /\ image' = files'.exe
    /\ crashed' = FALSE
    /\ UNCHANGED <<crossFs, announced, upd, updFaults>>

UpdateNext ==
    \/ FetchAnnouncement \/ UpdateCrash \/ StartProgram
    \/ \E u \in Updaters :
        \/ BeginUpdate(u) \/ StageFails(u) \/ StageWrites(u) \/ CheckStaged(u)
        \/ MoveByRename(u) \/ BeginCopy(u) \/ EndCopy(u) \/ SetMode(u)
        \/ CleanUp(u) \/ RestartInto(u)

UpdateSpec == UpdateInit /\ [][UpdateNext]_updateVars

-----------------------------------------------------------------------------
\* A whole program is at its place or in the backup at every moment, a crash
\* in the middle of an update included; unless the process died, an update
\* that ended left one at its place, whatever step of it failed, and one that
\* was answered with success left the version it announced
\* (update.rs: perform, install, move_file).
ProgramSurvives ==
    /\ Whole("exe") \/ Whole("kept")
    /\ (~crashed /\ \A u \in Updaters : upd[u].at \in {"none", "clean", "restart"}) => Whole("exe")
    /\ \A u \in Updaters : upd[u].at = "restart" => files.exe = upd[u].version

=============================================================================
