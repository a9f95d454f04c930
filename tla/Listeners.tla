----------------------------- MODULE Listeners ------------------------------
(***************************************************************************)
(* The listeners (UDP, TCP, TLS, QUIC, HTTPS and HTTP/3) in front of       *)
(* module Server, and the guard that turns away a source whose connections *)
(* never ask anything (probe.rs).                                          *)
(*                                                                         *)
(* A slot is one connection or datagram.  The streams of a QUIC or HTTP    *)
(* connection are handled by tasks of their own, so that the connection    *)
(* may end while one of them is under way; a slot has one at a time.       *)
(***************************************************************************)
EXTENDS Server, Sequences, SequencesExt

CONSTANTS
    Local,          \* those that belong to this network
    ServerName,     \* the name the certificate is for: a sequence of labels
    ServerNames,    \* the names a client may ask for in its handshake
    TrustedProxies, \* the addresses whose forwarding header counts
    Forwarded,      \* what the header may say: sets of at most one address
    Window,         \* ticks the strikes are counted over
    Penalty         \* ticks a source is refused for

ASSUME ListenersAssumption == Window \in Nat /\ Penalty \in Nat

VARIABLES
    conns,    \* slot -> the connection in it
    guard,    \* Guard.cfg: [strikes, allowlist, exempt_local]
    marks,    \* Guard.marks: address -> [strikes, first, until]
    visits,   \* connections accepted
    wasted,   \* ghost: address -> times of its strikes since it was cleared
    answers   \* ghost: the slots whose connection's client was sent an answer

listenerVars == <<conns, guard, marks, visits, wasted, answers>>
frontVars == <<serverVars, listenerVars>>

-----------------------------------------------------------------------------
(* Who is asking.                                                          *)

\* client_id_from_sni: the one label below the server's own name.
ClientIdFromSni(sni) ==
    IF ServerName # <<>> /\ Len(sni) = Len(ServerName) + 1 /\ Tail(sni) = ServerName
    THEN {Head(sni)} ELSE {}

\* real_client: the forwarding header counts only from a trusted proxy.
RealClient(peer, forwarded) ==
    IF peer \in TrustedProxies /\ forwarded # {} THEN CHOOSE ip \in forwarded : TRUE ELSE peer

-----------------------------------------------------------------------------
(* The guard.                                                              *)

Exempt(ip) == guard.strikes = 0 \/ ip \in guard.allowlist \/ (guard.exempt_local /\ ip \in Local)

Unmarked(ip) == [k \in DOMAIN marks \ {ip} |-> marks[k]]

ShutOut(ip) == ip \in DOMAIN marks /\ \E t \in marks[ip].until : ticks < t

\* Guard::admits: refused while the penalty lasts, forgotten once it is over.
Admits(ip) == Exempt(ip) \/ ~ShutOut(ip)

MarksAfterAdmit(ip) ==
    IF ~Exempt(ip) /\ ip \in DOMAIN marks /\ marks[ip].until # {} /\ ~ShutOut(ip)
    THEN Unmarked(ip) ELSE marks

\* Once there are too many, the marks that neither shut anybody out nor are
\* within their window are forgotten.
SweptMarks ==
    IF Cardinality(DOMAIN marks) >= SweepAt
    THEN [k \in {ip \in DOMAIN marks : ShutOut(ip) \/ ticks - marks[ip].first < Window} |-> marks[k]]
    ELSE marks

NewMark == [strikes |-> 0, first |-> ticks, until |-> {}]

\* A mark with one more strike, which may be the last one it takes.
Struck(mark) ==
    [mark EXCEPT !.strikes = @ + 1,
                 !.until = IF mark.strikes + 1 >= guard.strikes THEN {ticks + Penalty} ELSE @]

\* Mutant of Strike: the strikes of an older window still count.
StrikeForever(ip) ==
    LET held == SweptMarks
        seen == IF ip \in DOMAIN held THEN held[ip] ELSE NewMark
    IN  IF ShutOut(ip) THEN held
        ELSE [k \in DOMAIN held \cup {ip} |-> IF k = ip THEN Struck(seen) ELSE held[k]]

\* Guard::wasted, the part under the lock of the marks.
Strike(ip) ==
    LET held == SweptMarks
        seen == IF ip \in DOMAIN held THEN held[ip] ELSE NewMark
        mark == IF ticks - seen.first > Window THEN NewMark ELSE seen
    IN  IF ShutOut(ip) THEN held
        ELSE [k \in DOMAIN held \cup {ip} |-> IF k = ip THEN Struck(mark) ELSE held[k]]

\* Guard::record: a connection that was served clears its address, one that
\* was not is a strike against it.
Record(ip, served) ==
    IF Exempt(ip) THEN UNCHANGED <<marks, wasted>>
    ELSE IF served
    THEN marks' = Unmarked(ip) /\ wasted' = [wasted EXCEPT ![ip] = <<>>]
    ELSE /\ marks' = Strike(ip)
         /\ wasted' = IF ShutOut(ip) THEN wasted ELSE [wasted EXCEPT ![ip] = Append(@, ticks)]

\* Guard::set_config, the last part of a save of the settings: the marks stay.
SetGuard(save) ==
    /\ save.step = "guard"
    /\ guard' = save.to.guard
    /\ saving' = {}
    /\ UNCHANGED <<scene, queries, access, limit, buckets, semaphores, saves, ticks, spent>>
    /\ UNCHANGED <<conns, marks, visits, wasted, answers>>

-----------------------------------------------------------------------------
(* Connections.                                                            *)

NoConn == [phase |-> "free"]

\* The transports whose queries are tasks of their own, those that count a
\* request when it arrives rather than when it is answered, and those whose
\* handshake failing is no proof of the address.
Multiplexed == {"quic", "https", "http3"}
CountsRequests == {"https", "http3"}
Unvalidated == {"quic", "http3"}
Handshakes == {"tls", "quic", "https", "http3"}

\* The next free slot: slots are only names for the tasks.
Free(s) ==
    /\ conns[s].phase = "free" /\ queries[s].pc = "none"
    /\ \A r \in Slots : r < s => conns[r].phase # "free" \/ queries[r].pc # "none"

\* serve_udp: a datagram is a query at once.
Datagram(s, ip, parses) ==
    /\ "udp" \in Scenes[scene].protos
    /\ Free(s)
    /\ visits < Scenes[scene].visits
    /\ visits' = visits + 1
    /\ queries' = [queries EXCEPT ![s] = NewQuery("udp", ip, {}, parses)]
    /\ UNCHANGED <<scene, access, limit, buckets, semaphores, saving, saves, ticks, spent>>
    /\ UNCHANGED <<conns, guard, marks, wasted, answers>>

\* A connection is accepted, unless the guard turns it away.
Accept(s, proto, ip, id) ==
    /\ proto # "udp"
    /\ proto \notin {"tls", "quic"} => id = {}
    /\ Free(s)
    /\ visits < Scenes[scene].visits
    /\ visits' = visits + 1
    /\ marks' = MarksAfterAdmit(ip)
    /\ conns' = IF Admits(ip)
                THEN [conns EXCEPT ![s] = [phase |-> IF proto \in Handshakes THEN "shake" ELSE "open",
                                           proto |-> proto, ip |-> ip, id |-> id, served |-> FALSE]]
                ELSE conns
    /\ answers' = answers \ {s}
    /\ UNCHANGED <<guard, wasted>>
    /\ UNCHANGED serverVars

HandshakeDone(s) ==
    /\ conns[s].phase = "shake"
    /\ conns' = [conns EXCEPT ![s].phase = "open"]
    /\ UNCHANGED <<guard, marks, visits, wasted, answers>>
    /\ UNCHANGED serverVars

\* A handshake that fails or times out is recorded where TCP has proved the
\* address, and not where a datagram may have forged it.
HandshakeFails(s) ==
    /\ conns[s].phase = "shake"
    /\ IF conns[s].proto \in Unvalidated THEN UNCHANGED <<marks, wasted>>
                                         ELSE Record(conns[s].ip, FALSE)
    /\ conns' = [conns EXCEPT ![s] = NoConn]
    /\ UNCHANGED <<guard, visits, answers>>
    /\ UNCHANGED serverVars

\* A query arrives whole: over a stream, or as a request of HTTP, which says
\* whom it is for.
Ask(s, parses, forwarded) ==
    /\ conns[s].phase = "open" /\ queries[s].pc = "none"
    /\ LET c == conns[s]
           ip == IF c.proto \in CountsRequests THEN RealClient(c.ip, forwarded) ELSE c.ip
       IN  /\ queries' = [queries EXCEPT ![s] = NewQuery(c.proto, ip, c.id, parses)]
           /\ conns' = [conns EXCEPT ![s].served = @ \/ c.proto \in CountsRequests]
    /\ UNCHANGED <<scene, access, limit, buckets, semaphores, saving, saves, ticks, spent>>
    /\ UNCHANGED <<guard, marks, visits, wasted, answers>>

\* A request of HTTP that carries no message, a page of the web interface or
\* one that is malformed, is answered by itself; it counts all the same.
OtherRequest(s) ==
    /\ conns[s].phase = "open" /\ queries[s].pc = "none"
    /\ conns[s].proto \in CountsRequests
    /\ conns' = [conns EXCEPT ![s].served = TRUE]
    /\ UNCHANGED <<guard, marks, visits, wasted, answers>>
    /\ UNCHANGED serverVars

\* The outcome is sent.  A TCP or TLS connection is closed when there is none.
Reply(s) ==
    /\ queries[s].pc \in {"answered", "refused"}
    /\ conns[s].phase = "open" /\ queries[s].proto # "udp"
    /\ queries' = IF conns[s].proto = "quic" THEN [queries EXCEPT ![s].pc = "written"]
                                             ELSE [queries EXCEPT ![s] = NoQuery]
    /\ conns' = [conns EXCEPT ![s].served = @ \/ conns[s].proto # "quic"]
    /\ answers' = answers \cup {s}
    /\ UNCHANGED <<scene, access, limit, buckets, semaphores, saving, saves, ticks, spent>>
    /\ UNCHANGED <<guard, marks, visits, wasted>>

\* A stream of a QUIC connection counts itself after it has written.
CountServed(s) ==
    /\ queries[s].pc = "written"
    /\ queries' = [queries EXCEPT ![s] = NoQuery]
    /\ conns' = IF conns[s].phase = "open" THEN [conns EXCEPT ![s].served = TRUE] ELSE conns
    /\ UNCHANGED <<scene, access, limit, buckets, semaphores, saving, saves, ticks, spent>>
    /\ UNCHANGED <<guard, marks, visits, wasted, answers>>

\* A task whose client is gone, or that has nothing to say, ends: a datagram
\* is sent or not, a stream of a closed connection cannot be written to, and
\* HTTP and QUIC leave the connection open.
EndTask(s) ==
    /\ queries[s].pc \in {"answered", "refused", "silent"}
    /\ \/ queries[s].proto = "udp"
       \/ conns[s].phase = "free"
       \/ queries[s].pc = "silent" /\ queries[s].proto \in Multiplexed
    /\ queries' = [queries EXCEPT ![s] = NoQuery]
    /\ UNCHANGED <<scene, access, limit, buckets, semaphores, saving, saves, ticks, spent>>
    /\ UNCHANGED listenerVars

\* The connection is over: closed, idle for too long, unreadable, or, over a
\* plain stream, with nothing to answer or a write that failed.  What it asked
\* is recorded as far as it has been counted.  Dropping an HTTPS connection
\* drops the handling of its request.
EndConn(s) ==
    /\ conns[s].phase = "open"
    /\ conns[s].proto \in Multiplexed \/ queries[s].pc \in {"none", "silent", "answered", "refused"}
    /\ Record(conns[s].ip, conns[s].served)
    /\ conns' = [conns EXCEPT ![s] = NoConn]
    /\ queries' = IF conns[s].proto \in {"quic", "http3"} THEN queries
                                                         ELSE [queries EXCEPT ![s] = NoQuery]
    /\ UNCHANGED <<scene, access, limit, buckets, semaphores, saving, saves, ticks, spent>>
    /\ UNCHANGED <<guard, visits, answers>>

Tick ==
    /\ ticks < Scenes[scene].ticks
    /\ ticks' = ticks + 1
    /\ UNCHANGED <<scene, queries, access, limit, buckets, semaphores, saving, saves, spent>>
    /\ UNCHANGED listenerVars

FrontInit ==
    /\ ServerInit
    /\ conns = [s \in Slots |-> NoConn]
    /\ guard = Scenes[scene].start.guard
    /\ marks = [ip \in {} |-> [strikes |-> 0, first |-> 0, until |-> {}]]
    /\ visits = 0
    /\ wasted = [ip \in Scenes[scene].peers |-> <<>>]
    /\ answers = {}

Handling(s) == HandleAs(s) /\ UNCHANGED listenerVars

Visit(s) ==
    \/ \E ip \in Scenes[scene].peers, parses \in Scenes[scene].parses : Datagram(s, ip, parses)
    \/ \E proto \in Scenes[scene].protos, ip \in Scenes[scene].peers, sni \in ServerNames :
          Accept(s, proto, ip, ClientIdFromSni(sni))
    \/ \E parses \in Scenes[scene].parses, forwarded \in Forwarded : Ask(s, parses, forwarded)

FrontNext ==
    \/ \E s \in Slots :
          \/ Handling(s)
          \/ Visit(s)
          \/ HandshakeDone(s)
          \/ HandshakeFails(s)
          \/ OtherRequest(s)
          \/ Reply(s)
          \/ CountServed(s)
          \/ EndTask(s)
          \/ EndConn(s)
    \/ SaveServer /\ UNCHANGED listenerVars
    \/ \E save \in saving : SetGuard(save)
    \/ Tick

\* A task that can run does, and permits are handed out first come, first
\* served.  The client and the clock owe nothing, but a connection that goes
\* quiet is timed out.
FrontFairness ==
    /\ \A s \in Slots : SF_frontVars(Handling(s)) /\ WF_frontVars(EndTask(s))
    /\ \A s \in Slots : WF_frontVars(Reply(s)) /\ WF_frontVars(CountServed(s))
    /\ \A s \in Slots : WF_frontVars(EndConn(s)) /\ WF_frontVars(HandshakeFails(s))

FrontSpec == FrontInit /\ [][FrontNext]_frontVars /\ FrontFairness

-----------------------------------------------------------------------------
\* A source is shut out only for strikes within one window: while it is
\* refused, the strikes counted against it are connections that ended without
\* being served in the window before the penalty began, with none between them
\* that cleared it; and they are as many as the settings ask for, unless these
\* were saved anew since, for the marks outlive them (probe.rs:22-27).
StrikesAreEarned ==
    \A ip \in Scenes[scene].peers : ShutOut(ip) =>
        \E t \in marks[ip].until :
            LET struck == {i \in DOMAIN wasted[ip] :
                              wasted[ip][i] \in (t - Penalty - Window)..(t - Penalty)}
            IN  /\ Cardinality(struck) >= marks[ip].strikes
                /\ saves = 0 => Cardinality(struck) >= guard.strikes

\* Every query that enters leaves: answered, refused or dropped, its permit is
\* given back and nothing waits behind it for good, whatever is saved, closed
\* or replaced meanwhile (server.rs:318-322).
QueriesLeave == \A s \in Slots : queries[s].pc # "none" ~> queries[s].pc = "none"

\* Not so, see the README: only a connection
\* that has ended clears its address, so a source that is being served on one
\* connection may be shut out by others that asked nothing, although
\* probe.rs:26 says that a busy NAT cannot be.
BusyIsNeverShutOut ==
    \A s \in Slots : conns[s].phase = "open" /\ conns[s].served => ~ShutOut(conns[s].ip)

\* Not so, see the README: a QUIC client
\* that closes as soon as it has its answer may be counted as one that asked
\* nothing, for the stream counts itself after it has written (doq.rs:130-141).
AnsweredIsNoStrike ==
    [][\A s \in answers : conns[s].phase = "open" /\ conns'[s].phase = "free"
          => Len(wasted'[conns[s].ip]) <= Len(wasted[conns[s].ip])]_frontVars
=============================================================================
