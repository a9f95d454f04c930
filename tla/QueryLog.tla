------------------------------ MODULE QueryLog ------------------------------
(***************************************************************************)
(* The query log: sift-querylog/src/log.rs.                                *)
(*                                                                         *)
(* Two buffers with a lock each -- the entries not yet written and a ring  *)
(* of recent ones for the API -- and two files with no lock at all.        *)
(* Queries push from many threads; the push that fills the buffer writes   *)
(* it; maintenance rotates; the API clears.  An open file stays with its   *)
(* writer when it is renamed or removed.  Entries are numbered in the      *)
(* order they are offered.                                                 *)
(***************************************************************************)
EXTENDS Naturals, SequencesExt

CONSTANTS
    Threads,
    MaxEntries,    \* bound on the entries offered
    SizeMemory,    \* Config.size_memory
    RecentCap,     \* RECENT_CAP
    MaxRotations,  \* bound on rotations
    MaxClears,     \* bound on clears
    MaxFaults,     \* bound on failing file operations
    FileEnabled    \* Config.file_enabled

ASSUME QueryLogAssumption ==
    /\ MaxEntries \in Nat /\ RecentCap \in Nat /\ SizeMemory \in Nat \ {0}
    /\ MaxRotations \in Nat /\ MaxClears \in Nat /\ MaxFaults \in Nat
    /\ FileEnabled \in BOOLEAN

VARIABLES
    pending,    \* QueryLog.pending, oldest first
    recent,     \* QueryLog.recent, newest first
    file,       \* querylog.json
    present,    \* querylog.json exists
    rotated,    \* querylog.json.1
    pc,         \* where each thread is
    after,      \* where a thread's flush returns to
    batch,      \* the entries a flush took
    fd,         \* what the file a flush opened is called now
    offered,    \* how many entries have been offered
    dropped,    \* entries whose file was rotated away or could not be written
    cleared,    \* entries offered before the last clear began, once it ended
    clearing,   \* entries offered before each thread's clear began
    rotations, clears, faults

logVars == <<pending, recent, file, present, rotated, pc, after, batch, fd,
             offered, dropped, cleared, clearing, rotations, clears, faults>>

Entries == 1..MaxEntries

Logs == Seq(Entries)

LogTypeOK ==
    /\ pending \in Logs
    /\ recent \in Logs /\ Len(recent) <= RecentCap
    /\ file \in Logs /\ rotated \in Logs
    /\ pc \in [Threads -> {"idle", "pending", "take", "open", "write", "rename",
                           "recent", "file", "rotated"}]
    /\ present \in BOOLEAN
    /\ after \in [Threads -> {"idle", "rename"}]
    /\ batch \in [Threads -> Logs]
    /\ fd \in [Threads -> {"file", "rotated", "gone"}]
    /\ offered \in 0..MaxEntries
    /\ dropped \subseteq Entries /\ cleared \subseteq Entries
    /\ clearing \in [Threads -> SUBSET Entries]
    /\ rotations \in 0..MaxRotations
    /\ clears \in 0..MaxClears
    /\ faults \in 0..MaxFaults

LogInit ==
    /\ pending = <<>> /\ recent = <<>>
    /\ file = <<>> /\ rotated = <<>>
    /\ pc = [t \in Threads |-> "idle"]
    /\ present = FALSE
    /\ after = [t \in Threads |-> "idle"]
    /\ batch = [t \in Threads |-> <<>>]
    /\ fd = [t \in Threads |-> "gone"]
    /\ offered = 0
    /\ dropped = {} /\ cleared = {}
    /\ clearing = [t \in Threads |-> {}]
    /\ rotations = 0 /\ clears = 0 /\ faults = 0

Goto(t, p) == pc' = [pc EXCEPT ![t] = p]

FirstOf(s, n) == SubSeq(s, 1, IF n < Len(s) THEN n ELSE Len(s))

(***************************************************************************)
(* QueryLog::push.  A disabled log and an ignored host do nothing.         *)
(***************************************************************************)
\* The ring takes the entry; it is carried on as a batch of one.
PushRecent(t) ==
    /\ pc[t] = "idle"
    /\ offered < MaxEntries
    /\ offered' = offered + 1
    /\ recent' = FirstOf(<<offered + 1>> \o recent, RecentCap)
    /\ batch' = IF FileEnabled THEN [batch EXCEPT ![t] = <<offered + 1>>] ELSE batch
    /\ Goto(t, IF FileEnabled THEN "pending" ELSE "idle")
    /\ UNCHANGED <<pending, file, present, rotated, after, fd, dropped,
                   cleared, clearing, rotations, clears, faults>>

\* The push that fills the buffer goes on to flush it.
PushPending(t) ==
    /\ pc[t] = "pending"
    /\ pending' = pending \o batch[t]
    /\ batch' = [batch EXCEPT ![t] = <<>>]
    /\ after' = [after EXCEPT ![t] = "idle"]
    /\ Goto(t, IF Len(pending') >= SizeMemory THEN "take" ELSE "idle")
    /\ UNCHANGED <<recent, file, present, rotated, fd, offered, dropped,
                   cleared, clearing, rotations, clears, faults>>

(***************************************************************************)
(* QueryLog::flush: the batch leaves the buffer, then the file is opened,  *)
(* then written.  A flush that rotate called goes on to the rename.        *)
(***************************************************************************)
AskFlush(t) ==
    /\ pc[t] = "idle"
    /\ pending # <<>>
    /\ after' = [after EXCEPT ![t] = "idle"]
    /\ Goto(t, "take")
    /\ UNCHANGED <<pending, recent, file, present, rotated, batch, fd,
                   offered, dropped, cleared, clearing, rotations, clears,
                   faults>>

\* Mutant of FlushTake: the batch is copied and stays in the buffer.
FlushTakeCopies(t) ==
    /\ pc[t] = "take"
    /\ batch' = [batch EXCEPT ![t] = pending]
    /\ Goto(t, IF pending = <<>> THEN after[t] ELSE "open")
    /\ UNCHANGED <<pending, recent, file, present, rotated, after, fd, offered,
                   dropped, cleared, clearing, rotations, clears, faults>>

FlushTake(t) ==
    /\ pc[t] = "take"
    /\ pending' = <<>>
    /\ batch' = [batch EXCEPT ![t] = pending]
    /\ Goto(t, IF pending = <<>> THEN after[t] ELSE "open")
    /\ UNCHANGED <<recent, file, present, rotated, after, fd, offered,
                   dropped, cleared, clearing, rotations, clears, faults>>

\* Mutant of FlushOpen: the file is opened for writing, not appending.
FlushOpenTruncates(t) ==
    /\ pc[t] = "open"
    /\ present' = TRUE
    /\ file' = <<>>
    /\ fd' = [fd EXCEPT ![t] = "file"]
    /\ Goto(t, "write")
    /\ UNCHANGED <<pending, recent, rotated, after, batch, offered, dropped,
                   cleared, clearing, rotations, clears, faults>>

FlushOpen(t) ==
    /\ pc[t] = "open"
    /\ present' = TRUE
    /\ fd' = [fd EXCEPT ![t] = "file"]
    /\ Goto(t, "write")
    /\ UNCHANGED <<pending, recent, file, rotated, after, batch, offered,
                   dropped, cleared, clearing, rotations, clears, faults>>

FlushWrite(t) ==
    /\ pc[t] = "write"
    /\ file' = IF fd[t] = "file" THEN file \o batch[t] ELSE file
    /\ rotated' = IF fd[t] = "rotated" THEN rotated \o batch[t] ELSE rotated
    /\ dropped' = IF fd[t] = "gone" THEN dropped \cup ToSet(batch[t]) ELSE dropped
    /\ batch' = [batch EXCEPT ![t] = <<>>]
    /\ fd' = [fd EXCEPT ![t] = "gone"]
    /\ Goto(t, after[t])
    /\ UNCHANGED <<pending, recent, present, after, offered, cleared,
                   clearing, rotations, clears, faults>>

\* Opening or writing fails: the batch was taken and is not put back.
FlushFault(t) ==
    /\ pc[t] \in {"open", "write"}
    /\ faults < MaxFaults
    /\ faults' = faults + 1
    /\ dropped' = dropped \cup ToSet(batch[t])
    /\ batch' = [batch EXCEPT ![t] = <<>>]
    /\ fd' = [fd EXCEPT ![t] = "gone"]
    /\ Goto(t, "idle")
    /\ UNCHANGED <<pending, recent, file, present, rotated, after, offered,
                   cleared, clearing, rotations, clears>>

(***************************************************************************)
(* QueryLog::rotate_if_due, once the first record of the file is due:      *)
(* rotate flushes, gives up if that failed, and renames what is there.     *)
(***************************************************************************)
Rotate(t) ==
    /\ pc[t] = "idle"
    /\ file # <<>>
    /\ rotations < MaxRotations
    /\ rotations' = rotations + 1
    /\ after' = [after EXCEPT ![t] = "rename"]
    /\ Goto(t, "take")
    /\ UNCHANGED <<pending, recent, file, present, rotated, batch, fd,
                   offered, dropped, cleared, clearing, clears, faults>>

RotateRename(t) ==
    /\ pc[t] = "rename"
    /\ IF ~present THEN UNCHANGED <<file, present, rotated, fd, dropped>>
       ELSE /\ rotated' = file
            /\ file' = <<>>
            /\ present' = FALSE
            /\ dropped' = dropped \cup ToSet(rotated)
            /\ fd' = [x \in Threads |->
                        IF fd[x] = "file" THEN "rotated" ELSE "gone"]
    /\ Goto(t, "idle")
    /\ UNCHANGED <<pending, recent, after, batch, offered, cleared, clearing,
                   rotations, clears, faults>>

(***************************************************************************)
(* QueryLog::clear: two locks, then two files.                             *)
(***************************************************************************)
ClearPending(t) ==
    /\ pc[t] = "idle"
    /\ clears < MaxClears
    /\ clears' = clears + 1
    /\ clearing' = [clearing EXCEPT ![t] = 1..offered]
    /\ pending' = <<>>
    /\ Goto(t, "recent")
    /\ UNCHANGED <<recent, file, present, rotated, after, batch, fd, offered,
                   dropped, cleared, rotations, faults>>

ClearRecent(t) ==
    /\ pc[t] = "recent"
    /\ recent' = <<>>
    /\ Goto(t, "file")
    /\ UNCHANGED <<pending, file, present, rotated, after, batch, fd, offered,
                   dropped, cleared, clearing, rotations, clears, faults>>

ClearFile(t) ==
    /\ pc[t] = "file"
    /\ file' = <<>>
    /\ present' = FALSE
    /\ fd' = [x \in Threads |-> IF fd[x] = "file" THEN "gone" ELSE fd[x]]
    /\ Goto(t, "rotated")
    /\ UNCHANGED <<pending, recent, rotated, after, batch, offered, dropped,
                   cleared, clearing, rotations, clears, faults>>

ClearRotated(t) ==
    /\ pc[t] = "rotated"
    /\ rotated' = <<>>
    /\ fd' = [x \in Threads |-> IF fd[x] = "rotated" THEN "gone" ELSE fd[x]]
    /\ cleared' = cleared \cup clearing[t]
    /\ Goto(t, "idle")
    /\ UNCHANGED <<pending, recent, file, present, after, batch, offered,
                   dropped, clearing, rotations, clears, faults>>

\* A file that cannot be renamed or removed ends a rotation or a clear.
FileFault(t) ==
    /\ pc[t] \in {"rename", "file", "rotated"}
    /\ faults < MaxFaults
    /\ faults' = faults + 1
    /\ Goto(t, "idle")
    /\ UNCHANGED <<pending, recent, file, present, rotated, after, batch, fd,
                   offered, dropped, cleared, clearing, rotations, clears>>

LogNext ==
    \E t \in Threads :
        \/ PushRecent(t)
        \/ PushPending(t)
        \/ AskFlush(t)
        \/ FlushTake(t)
        \/ FlushOpen(t)
        \/ FlushWrite(t)
        \/ FlushFault(t)
        \/ Rotate(t)
        \/ RotateRename(t)
        \/ ClearPending(t)
        \/ ClearRecent(t)
        \/ ClearFile(t)
        \/ ClearRotated(t)
        \/ FileFault(t)

LogSpec == LogInit /\ [][LogNext]_logVars

(***************************************************************************)
(* QueryLog::read and read_tail.                                           *)
(***************************************************************************)
\* The newest entries of a file, newest first.
ReadTail(f, offset, limit) ==
    FirstOf(SubSeq(Reverse(f), offset + 1, Len(f)), limit)

Less(m, n) == IF m > n THEN m - n ELSE 0

Read(offset, limit) ==
    LET memory == FirstOf(SubSeq(recent, offset + 1, Len(recent)), limit)
        skip == Less(offset, Len(recent))
        want == limit - Len(memory)
        first == memory \o ReadTail(file, skip, Less(want, Len(memory)))
    IN  IF Len(memory) >= limit THEN memory
        ELSE IF Len(first) >= limit THEN first
        ELSE first \o ReadTail(rotated, skip, Less(want, Len(first)))

(***************************************************************************)
(* Properties.                                                             *)
(***************************************************************************)
Quiet == \A t \in Threads : pc[t] = "idle"

\* The places in s that hold e.
At(s, e) == {i \in DOMAIN s : s[i] = e}

\* Where an entry is on its way to the files: in the buffer, in a flush's
\* hands or in one of the files.
Places(e) ==
    {<<"pending", i>> : i \in At(pending, e)}
      \cup {<<"file", i>> : i \in At(file, e)}
      \cup {<<"rotated", i>> : i \in At(rotated, e)}
      \cup UNION {{<<"batch", i, t>> : i \in At(batch[t], e)} : t \in Threads}

\* An accepted entry is written once: it is in one place on its way to the
\* files, whoever flushes, rotates or clears meanwhile.
WrittenOnce == \A e \in Entries : \A p, q \in Places(e) : p = q

\* No entry goes missing on its way: while nothing was cleared, each one
\* offered is buffered, being written, on disk, or in a file that a second
\* rotation replaced.
NothingGoesMissing ==
    FileEnabled /\ clears = 0 =>
        \A e \in 1..offered : Places(e) # {} \/ e \in dropped

\* The buffer is bounded: with no push under way it holds fewer entries than
\* size_memory, and with some, one more for each at most.
BufferIsBounded ==
    Len(pending) < SizeMemory + Cardinality({t \in Threads : pc[t] = "take"})

\* A page never exceeds the limit that was asked for (log.rs:232).
PagesWithinLimit ==
    \A offset \in 0..2, limit \in 1..3 : Len(Read(offset, limit)) <= limit

\* "Removes every entry, in memory and on disk" (log.rs:214): once a clear
\* has returned, nothing logged before it began is left or comes back.
ClearedStaysCleared ==
    \A e \in cleared : Places(e) = {} /\ e \notin ToSet(recent)

\* "The in-memory ring already covered the newest entries, so skip past what
\* it supplied" (log.rs:245-246): no page holds an entry twice.
PagesRepeatNothing ==
    Quiet => \A offset \in 0..2, limit \in 1..4 :
                LET page == Read(offset, limit)
                IN  Cardinality(ToSet(page)) = Len(page)
=============================================================================
