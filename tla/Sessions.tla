------------------------------ MODULE Sessions ------------------------------
(***************************************************************************)
(* Sessions and the login throttle (sift-api/src/auth.rs), with the        *)
(* requests that use them (handlers/misc.rs: login, logout, current_user;  *)
(* routes.rs: authenticate) and the sweep of main.rs: maintenance.         *)
(*                                                                         *)
(* Requests run on several threads.  persist copies the sessions under the *)
(* lock and writes the file without it.  The requests of one client        *)
(* address are followed.                                                   *)
(***************************************************************************)
EXTENDS Integers, FiniteSets, Functions, TLC

CONSTANTS
    Requests,          \* requests that may be in progress at once
    Tokens,            \* the session tokens that are handed out
    SecondTicks,       \* how many steps of the clock are a second
    SessionTtl, FailedTtl, BlockTime,   \* in steps of the clock
    MaxFails,          \* auth_attempts
    MaxTime, MaxGuesses, \* bounds
    Budgets,           \* bounds of a behaviour: <<tokens that are left, guesses made>>
    PersistsOverlap,   \* two requests may write the file at the same time
    WritesFail         \* the file may fail to be written

ASSUME SessionsAssumption ==
    /\ IsFiniteSet(Requests)
    /\ SecondTicks \in Nat \ {0} /\ SessionTtl \in Nat \ {0}
    /\ MaxFails \in Nat /\ BlockTime \in Nat /\ FailedTtl \in Nat

VARIABLES
    now,          \* SystemTime::now
    by_token,     \* Sessions::by_token: token -> when it expires
    sessionsDb,   \* sessions.db
    attempts,     \* LoginLimiter::attempts of the client: at most one record
    request,      \* what each request is doing
    sweeper,      \* what the sweep is doing
    unused,       \* tokens that were not handed out yet
    loggedIn,     \* ghost: token -> expiry, for logins that were answered
    loggedOut,    \* ghost: tokens whose logout was answered
    spent,        \* ghost: when the attempts were last spent, and guesses compared since
    guesses       \* how many wrong guesses were made

sessionVars == <<now, by_token, sessionsDb, attempts, request, sweeper, unused, loggedIn,
                 loggedOut, spent, guesses>>

Idle == [at |-> "idle"]

\* A map with v inserted at k.
Inserted(map, k, v) == [x \in DOMAIN map \cup {k} |-> IF x = k THEN v ELSE map[x]]

-----------------------------------------------------------------------------
(* encode: the expiry is stored in whole seconds. *)
EncodeSession(t) == (t \div SecondTicks) * SecondTicks

StoredForm == [tok \in DOMAIN by_token |-> EncodeSession(by_token[tok])]

ThrottleEnabled == MaxFails > 0 /\ BlockTime > 0

\* blocked_for, after retain has dropped the record that lapsed.
Unlapsed == {f \in attempts : f.until > now}
Blocked == ThrottleEnabled /\ \E f \in Unlapsed : f.count >= MaxFails

\* Mutant of RecordFailure: the attempt that is the last keeps the first one's deadline.
RecordFailureUnblocked ==
    {[count |-> 1, until |-> now + FailedTtl] : x \in {y \in {1} : attempts = {}}}
        \cup {[f EXCEPT !.count = @ + 1] : f \in attempts}

\* record_failure: the record of the client, with a new one when there is none.
RecordFailure ==
    LET old == IF attempts = {} THEN {[count |-> 0, until |-> now + FailedTtl]} ELSE attempts
    IN  {[count |-> f.count + 1,
          until |-> IF f.count + 1 >= MaxFails THEN now + BlockTime ELSE f.until] : f \in old}

-----------------------------------------------------------------------------
SessionsInit ==
    /\ now = 0
    /\ by_token = <<>> /\ sessionsDb = <<>>
    /\ attempts = {}
    /\ request = [r \in Requests |-> Idle]
    /\ sweeper = Idle
    /\ \E b \in Budgets : unused = b[1] /\ guesses = b[2]
    /\ loggedIn = <<>> /\ loggedOut = {}
    /\ spent = [at |-> -BlockTime, since |-> 0]

TimePasses ==
    /\ now < MaxTime
    /\ now' = now + 1
    /\ UNCHANGED <<by_token, sessionsDb, attempts, request, sweeper, unused, loggedIn,
                   loggedOut, spent, guesses>>

\* login and authenticate: the throttle is asked first; a refused request is answered.
CheckThrottle(r, kind) ==
    /\ request[r] = Idle
    /\ guesses < MaxGuesses
    /\ attempts' = Unlapsed
    /\ ~Blocked
    /\ request' = [request EXCEPT ![r] = [at |-> kind]]
    /\ UNCHANGED <<now, by_token, sessionsDb, sweeper, unused, loggedIn, loggedOut, spent, guesses>>

RefuseThrottled(r) ==
    /\ request[r] = Idle
    /\ Blocked
    /\ attempts' = Unlapsed
    /\ UNCHANGED <<now, by_token, sessionsDb, request, sweeper, unused, loggedIn, loggedOut,
                   spent, guesses>>

WrongPassword(r) ==
    /\ request[r].at \in {"login", "basic"}
    /\ guesses' = guesses + 1
    /\ attempts' = IF ThrottleEnabled THEN RecordFailure ELSE attempts
    /\ spent' = IF \E f \in RecordFailure : f.count = MaxFails
                THEN [at |-> now, since |-> 0]
                ELSE [spent EXCEPT !.since = @ + 1]
    /\ request' = [request EXCEPT ![r] = Idle]
    /\ UNCHANGED <<now, by_token, sessionsDb, sweeper, unused, loggedIn, loggedOut>>

RightPassword(r) ==
    /\ request[r].at \in {"login", "basic"}
    /\ attempts' = {}
    /\ spent' = [at |-> -BlockTime, since |-> 0]
    /\ request' = [request EXCEPT ![r] = IF @.at = "login" THEN [at |-> "create"] ELSE Idle]
    /\ UNCHANGED <<now, by_token, sessionsDb, sweeper, unused, loggedIn, loggedOut, guesses>>

\* create: the session is inserted, then persisted.
Create(r) ==
    /\ request[r].at = "create"
    /\ \E tok \in unused :
        /\ unused' = unused \ {tok}
        /\ by_token' = Inserted(by_token, tok, now + SessionTtl)
        /\ request' = [request EXCEPT ![r] = [at |-> "copy", token |-> tok, out |-> FALSE]]
    /\ UNCHANGED <<now, sessionsDb, attempts, sweeper, loggedIn, loggedOut, spent, guesses>>

\* A token is known to a browser once its login was answered.
Known(tok) ==
    /\ tok \notin unused
    /\ \A r \in Requests : request[r].at \in {"copy", "write"} => request[r].token # tok

\* logout: the session is removed, then persisted.
RemoveSession(r, tok) ==
    /\ request[r] = Idle
    /\ Known(tok)
    /\ loggedIn' = Restrict(loggedIn, DOMAIN loggedIn \ {tok})
    /\ by_token' = Restrict(by_token, DOMAIN by_token \ {tok})
    /\ request' = [request EXCEPT ![r] = [at |-> "copy", token |-> tok, out |-> TRUE]]
    /\ UNCHANGED <<now, sessionsDb, attempts, sweeper, unused, loggedOut, spent, guesses>>

\* current_user by cookie: get drops a session that has expired.
CookieRequest(tok) ==
    /\ Known(tok) /\ tok \in DOMAIN by_token
    /\ by_token' = IF by_token[tok] <= now THEN Restrict(by_token, DOMAIN by_token \ {tok})
                   ELSE by_token
    /\ UNCHANGED <<now, sessionsDb, attempts, request, sweeper, unused, loggedIn, loggedOut,
                   spent, guesses>>

-----------------------------------------------------------------------------
(* persist, by a request or by the sweep: copy, then replace the file.     *)

Writing == {r \in Requests : request[r].at = "write"}
MayCopy == PersistsOverlap \/ (Writing = {} /\ sweeper.at # "write")

\* Mutant of PersistCopy: the copy is the one of the file, with the request's change.
PersistCopyUnchanged(r) ==
    /\ request[r].at = "copy"
    /\ MayCopy
    /\ request' = [request EXCEPT ![r] =
            [at |-> "write", token |-> @.token, out |-> @.out, units |-> StoredForm @@ sessionsDb]]
    /\ UNCHANGED <<now, by_token, sessionsDb, attempts, sweeper, unused, loggedIn, loggedOut,
                   spent, guesses>>

PersistCopy(r) ==
    /\ request[r].at = "copy"
    /\ MayCopy
    /\ request' = [request EXCEPT ![r] =
            [at |-> "write", token |-> @.token, out |-> @.out, units |-> StoredForm]]
    /\ UNCHANGED <<now, by_token, sessionsDb, attempts, sweeper, unused, loggedIn, loggedOut,
                   spent, guesses>>

\* The request is answered after its write, whether or not that failed.
PersistWrite(r) ==
    /\ request[r].at = "write"
    /\ sessionsDb' \in {request[r].units} \cup (IF WritesFail THEN {sessionsDb} ELSE {})
    /\ LET tok == request[r].token
       IN  IF request[r].out THEN loggedOut' = loggedOut \cup {tok} /\ UNCHANGED loggedIn
           ELSE /\ loggedIn' = IF tok \in DOMAIN by_token
                               THEN Inserted(loggedIn, tok, EncodeSession(by_token[tok]))
                               ELSE loggedIn
                /\ UNCHANGED loggedOut
    /\ request' = [request EXCEPT ![r] = Idle]
    /\ UNCHANGED <<now, by_token, attempts, sweeper, unused, spent, guesses>>

(* sweep takes the lock three times: the length, the expired ones dropped, *)
(* the length again.                                                       *)
SweepLen ==
    /\ sweeper = Idle
    /\ sweeper' = [at |-> "retain", len |-> Cardinality(DOMAIN by_token)]
    /\ UNCHANGED <<now, by_token, sessionsDb, attempts, request, unused, loggedIn, loggedOut,
                   spent, guesses>>

SweepRetain ==
    /\ sweeper.at = "retain"
    /\ by_token' = Restrict(by_token, {tok \in DOMAIN by_token : by_token[tok] > now})
    /\ sweeper' = [sweeper EXCEPT !.at = "compare"]
    /\ UNCHANGED <<now, sessionsDb, attempts, request, unused, loggedIn, loggedOut, spent, guesses>>

SweepCompare ==
    /\ sweeper.at = "compare"
    /\ IF Cardinality(DOMAIN by_token) = sweeper.len THEN sweeper' = Idle
       ELSE MayCopy /\ sweeper' = [at |-> "write", units |-> StoredForm]
    /\ UNCHANGED <<now, by_token, sessionsDb, attempts, request, unused, loggedIn, loggedOut,
                   spent, guesses>>

SweepWrite ==
    /\ sweeper.at = "write"
    /\ sessionsDb' \in {sweeper.units} \cup (IF WritesFail THEN {sessionsDb} ELSE {})
    /\ sweeper' = Idle
    /\ UNCHANGED <<now, by_token, attempts, request, unused, loggedIn, loggedOut, spent, guesses>>

\* The process ends and the next one opens the store.  It is killed at any
\* point, or shuts down, which persists the sessions once more.
SessionsRestart ==
    /\ sessionsDb' \in {sessionsDb} \cup (IF MayCopy THEN {StoredForm} ELSE {})
    /\ by_token' = Restrict(sessionsDb', {tok \in DOMAIN sessionsDb' : sessionsDb'[tok] > now})
    /\ attempts' = {}
    /\ spent' = [at |-> -BlockTime, since |-> 0]
    /\ request' = [r \in Requests |-> Idle]
    /\ sweeper' = Idle
    /\ UNCHANGED <<now, unused, loggedIn, loggedOut, guesses>>

SessionsNext ==
    \/ TimePasses
    \/ \E r \in Requests :
        \/ \E kind \in {"login", "basic"} : CheckThrottle(r, kind)
        \/ RefuseThrottled(r) \/ WrongPassword(r) \/ RightPassword(r)
        \/ Create(r) \/ PersistCopy(r) \/ PersistWrite(r)
        \/ \E tok \in Tokens : RemoveSession(r, tok)
    \/ \E tok \in Tokens : CookieRequest(tok)
    \/ SweepLen \/ SweepRetain \/ SweepCompare \/ SweepWrite
    \/ SessionsRestart

SessionsSpec == SessionsInit /\ [][SessionsNext]_sessionVars

-----------------------------------------------------------------------------
\* A session whose logout was answered is gone for good, restarts included,
\* and one whose login was answered lives until it expires, restarts included
\* (auth.rs: create, remove, sweep, persist, load).
SessionsKeepTheirWord ==
    /\ loggedOut \cap DOMAIN by_token = {}
    /\ \A tok \in DOMAIN loggedIn : loggedIn[tok] > now => tok \in DOMAIN by_token

\* Once a client has spent its attempts, the guesses compared before the block
\* lifts are those of requests that had passed the throttle already, one per
\* other thread (auth.rs: blocked_for, record_failure; misc.rs: login).
SpentAttemptsBlock ==
    (ThrottleEnabled /\ now < spent.at + BlockTime) => spent.since < Cardinality(Requests)

=============================================================================
