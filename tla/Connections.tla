---------------------------- MODULE Connections ----------------------------
(***************************************************************************)
(* One upstream's client and the connections it keeps: `client.rs` and     *)
(* `conn.rs` of sift-dns.                                                  *)
(*                                                                         *)
(* The client has a transport and addresses that it tries in turn.  To     *)
(* each address it keeps what the transport can share: checked-out         *)
(* connections for DNS over TCP, TLS and HTTP/1.1 (`idle`), and one        *)
(* multiplexed connection behind a gate for HTTP/2 ("h2") and for QUIC and *)
(* HTTP/3 ("quic").  A query is a task; every await of the code is a place *)
(* where another task, the server or the network may act, or the task be   *)
(* dropped.  Time is what it decides: a timeout may fire wherever the code *)
(* has one.  Optional values are sets of at most one.                      *)
(***************************************************************************)
EXTENDS Naturals, Sequences, SequencesExt, FiniteSetsExt

CONSTANTS
    Queries,      \* tasks
    Requests,     \* what they ask: [id, question]
    Targets,      \* [transport, boot]: of "udp", "tcp", "https", "http3", "quic",
                  \* TLS being as "tcp"; what the bootstrap servers answer, see Resolved
    ConnIds,      \* names of connections
    IdleMax,      \* IDLE_MAX
    MaxDials,     \* bound: dials that succeed
    MaxFaults     \* bound: times the network or the peer misbehaves

VARIABLES
    transport,  \* of the client
    hosts,      \* how many addresses it has
    preferred,  \* the address that answered last
    conns,      \* [ConnIds -> [life, wire, frames, extra]]
    idle,       \* by address: sequence of [conn, age], the oldest first
    slot,       \* by address and kind: the set of the [stamp, conn] in it
    gate,       \* by address and kind: the tasks at the gate, its holder first
    recent,     \* by address and kind: whether a dial failed a moment ago
    dials, faults,
    task        \* the queries

clientVars == <<transport, hosts>>
kept == <<idle, slot>>
counts == <<dials, faults>>
connVars == <<clientVars, preferred, conns, kept, gate, recent, counts, task>>

\* resolve_upstream.  `b.order` is the preferred family first; `b.replies[f]`
\* has each server's reply for family f: nothing, or a set of one sequence of
\* addresses.  The first reply counts, even one without an address, and the
\* second family is asked for only if the first gave none.
FirstReply(rs) ==
    LET given == {i \in DOMAIN rs : rs[i] # {}}
    IN IF given = {} THEN <<>> ELSE CHOOSE addrs \in rs[Min(given)] : TRUE
Resolved(b) ==
    LET of(n) == FirstReply(b.replies[b.order[n]])
    IN IF of(1) # <<>> THEN of(1) ELSE of(2)

\* A request is an identifier and a question, and a server that can be asked
\* for an address answers with a list.
ASSUME ConnectionsAssumption ==
    /\ \A r \in Requests : r = [id |-> r.id, question |-> r.question]
    /\ \A up \in Targets : /\ up.transport \in {"udp", "tcp", "https", "http3", "quic"}
                             /\ Len(Resolved(up.boot)) \in Nat
    /\ IdleMax \in Nat \ {0} /\ MaxDials \in Nat /\ MaxFaults \in Nat

Shareable == {"h2", "quic"}
Kinds == Shareable \union {"pool"}
Addresses == 0 .. hosts - 1

\* A connection: open, retired by its peer, failed with an error, or lost
\* without a word; `wire` and `frames` are what is under way on a stream, and
\* `extra` counts the answers that nobody asked for.
Closed == [life |-> "none", wire |-> <<>>, frames |-> <<>>, extra |-> 0]
Opened == [life |-> "open", wire |-> <<>>, frames |-> <<>>, extra |-> 0]

Resting == [pc |-> "idle", req |-> [id |-> 0, question |-> ""], first |-> 0, step |-> 0, kind |-> "pool",
            conn |-> {}, stamp |-> 0, reused |-> FALSE, retried |-> FALSE, sent |-> 0, out |-> {}]

\* Client::connect: a client without an address is not built.
ConnInit ==
    /\ \E up \in Targets : transport = up.transport /\ hosts = Len(Resolved(up.boot))
    /\ hosts > 0 /\ preferred = 0
    /\ conns = [c \in ConnIds |-> Closed]
    /\ idle = [a \in Addresses |-> <<>>]
    /\ slot = [a \in Addresses |-> [k \in Shareable |-> {}]]
    /\ gate = [a \in Addresses |-> [k \in Shareable |-> <<>>]]
    /\ recent = [a \in Addresses |-> [k \in Kinds |-> FALSE]]
    /\ dials = 0 /\ faults = 0
    /\ task = [t \in Queries |-> Resting]

AddressOf(t) == (task[t].first + task[t].step) % hosts
ConnOf(t) == CHOOSE c \in task[t].conn : TRUE
At(t, pc) == task[t].pc = pc
Rests(t) == task[t].pc \in {"idle", "done"}
Go(t, r) == task' = [task EXCEPT ![t] = r]

\* A connection lives as long as a pool, a slot or a task has it.
Referenced == UNION {task[t].conn : t \in Queries}
              \union UNION {{i.conn : i \in Range(idle[a])} : a \in DOMAIN idle}
              \union UNION {{s.conn : s \in slot[a][k]} : a \in DOMAIN slot, k \in Shareable}
Hold(next) == conns' = [c \in ConnIds |-> IF c \in Referenced' THEN next[c] ELSE Closed]
Free == ConnIds \ Referenced

(***************************************************************************)
(* Client::exchange.                                                       *)
(***************************************************************************)
\* The transport of the client, on the way to its next address.
Attempt(req, first, step) ==
    [Resting EXCEPT !.req = req, !.first = first, !.step = step,
                    !.pc = CASE transport = "udp" -> "udp" [] transport = "tcp" -> "take" [] OTHER -> "get",
                    !.kind = CASE transport = "https" -> "h2" [] transport \in {"http3", "quic"} -> "quic" [] OTHER -> "pool"]

Ask(t, req) ==
    /\ Rests(t)
    /\ Go(t, Attempt(req, preferred, 0))
    /\ UNCHANGED <<clientVars, preferred, conns, kept, gate, recent, counts>>

\* What becomes of the task after an attempt: an answer, HTTP/2 in place of
\* HTTP/3, the next address, or the last error.
Ended(t, out) == [Resting EXCEPT !.pc = "done", !.req = task[t].req, !.kind = task[t].kind, !.out = out]
Answered(t, reply) == Ended(t, {reply})
Another(t) == [task[t] EXCEPT !.pc = "get", !.retried = TRUE, !.conn = {}, !.stamp = 0, !.reused = FALSE]
Failed(t) ==
    IF transport = "http3" /\ task[t].kind = "quic"
    THEN [Attempt(task[t].req, task[t].first, task[t].step) EXCEPT !.kind = "h2"]
    ELSE IF task[t].step + 1 < hosts THEN Attempt(task[t].req, task[t].first, task[t].step + 1)
    ELSE Ended(t, {})

Prefer(t) == preferred' = IF task[t].step > 0 THEN AddressOf(t) ELSE preferred

\* The budget of the whole exchange may be spent before the next address.
OutOfTime(t) ==
    /\ task[t].step > 0 /\ task[t] = Attempt(task[t].req, task[t].first, task[t].step)
    /\ Go(t, Ended(t, {}))
    /\ UNCHANGED <<clientVars, preferred, conns, kept, gate, recent, counts>>

\* Mutant of Matches: the identifier alone is compared.
MatchesById(req, reply) == reply.id = req.id

\* check_reply and the comparison of identifiers.
SameQuestion(req, reply) == reply.question = req.question
Matches(req, reply) == reply.id = req.id /\ SameQuestion(req, reply)

\* udp_exchange on a socket of its own: replies with another identifier are
\* passed over, one with another question fails it; a truncated answer is
\* asked for again over TCP.
UdpReply(t, reply, truncated) ==
    /\ At(t, "udp") /\ reply.id = task[t].req.id
    /\ faults' = IF SameQuestion(task[t].req, reply) THEN faults ELSE faults + 1
    /\ faults' <= MaxFaults
    /\ IF ~Matches(task[t].req, reply) THEN Go(t, Failed(t)) /\ UNCHANGED preferred
       ELSE IF truncated THEN Go(t, [task[t] EXCEPT !.pc = "take"]) /\ UNCHANGED preferred
       ELSE Go(t, Answered(t, reply)) /\ Prefer(t)
    /\ UNCHANGED <<clientVars, conns, kept, gate, recent, dials>>

UdpTimeout(t) ==
    /\ At(t, "udp")
    /\ Go(t, Failed(t))
    /\ UNCHANGED <<clientVars, preferred, conns, kept, gate, recent, counts>>

(***************************************************************************)
(* Connections that are checked out: pooled, and HTTP/1.1.                 *)
(***************************************************************************)
\* Pool::take: from the front what is too old, or for HTTP/1.1 closed, is
\* swept up to the first that is not; the last is handed out if it is usable.
Alive(c) == conns[c].life \in {"open", "lost"}
Usable(i) == i.age # "old" /\ (transport \in {"https", "http3"} => Alive(i.conn))
Swept(q) == LET live == {i \in DOMAIN q : Usable(q[i])}
            IN IF live = {} THEN <<>> ELSE SubSeq(q, Min(live), Len(q))
Takes(q) == Swept(q) # <<>> /\ Usable(Last(Swept(q)))
Rest(q) == IF Takes(q) THEN Front(Swept(q)) ELSE Swept(q)
CheckedOut(t, q) == [task[t] EXCEPT !.pc = "write", !.conn = {Last(Swept(q)).conn}, !.reused = TRUE]

Take(t) ==
    /\ At(t, "take")
    /\ LET a == AddressOf(t)
           q == idle[a]
       IN /\ idle' = [idle EXCEPT ![a] = Rest(q)]
          /\ Go(t, IF Takes(q) THEN CheckedOut(t, q) ELSE [task[t] EXCEPT !.pc = "redial", !.reused = FALSE])
    /\ UNCHANGED slot
    /\ Hold(conns)
    /\ UNCHANGED <<clientVars, preferred, gate, recent, counts>>

\* Pool::put: the least recently used fall out.
Put(a, c) ==
    LET q == Append(idle[a], [conn |-> c, age |-> "new"])
    IN SubSeq(q, Len(q) - Min({Len(q), IdleMax}) + 1, Len(q))

\* stream_exchange and h1_send: the request is written, and what is read first
\* is taken for the reply.  A connection its peer has closed fails here or at
\* the read.
Write(t) ==
    /\ At(t, "write") /\ Alive(ConnOf(t))
    /\ conns' = [conns EXCEPT ![ConnOf(t)].wire = Append(@, task[t].req)]
    /\ Go(t, [task[t] EXCEPT !.pc = "read"])
    /\ UNCHANGED <<clientVars, preferred, kept, gate, recent, counts>>

\* Over HTTP the identifier is not compared.
Valid(t, reply) == IF task[t].kind = "pool" THEN Matches(task[t].req, reply) ELSE SameQuestion(task[t].req, reply)

\* A pooled connection that failed is followed by a fresh one; over HTTP any
\* failure to send is, once, but not a reply that does not fit.
AfterBadReply(t) ==
    IF task[t].kind = "pool" /\ task[t].reused
    THEN [task[t] EXCEPT !.pc = "redial", !.reused = FALSE, !.conn = {}]
    ELSE Failed(t)
AfterFailure(t) ==
    IF task[t].kind # "pool" /\ ~task[t].retried
    THEN Another(t)
    ELSE AfterBadReply(t)

Read(t) ==
    /\ At(t, "read") /\ conns[ConnOf(t)].frames # <<>>
    /\ LET c == ConnOf(t)
           a == AddressOf(t)
           reply == Head(conns[c].frames)
       IN /\ IF Valid(t, reply)
             THEN idle' = [idle EXCEPT ![a] = Put(a, c)] /\ Go(t, Answered(t, reply)) /\ Prefer(t)
             ELSE Go(t, AfterBadReply(t)) /\ UNCHANGED <<idle, preferred>>
          /\ UNCHANGED slot
          /\ Hold([conns EXCEPT ![c].frames = Tail(@)])
    /\ UNCHANGED <<clientVars, gate, recent, counts>>

\* A timeout, a short read or an error drops the connection.
StreamFails(t) ==
    /\ task[t].pc \in {"write", "read"}
    /\ Go(t, AfterFailure(t))
    /\ UNCHANGED kept
    /\ Hold(conns)
    /\ UNCHANGED <<clientVars, preferred, gate, recent, counts>>

\* No time is left, or a dial failed a moment ago: no dial.
Redial(t) ==
    /\ At(t, "redial")
    /\ \/ Go(t, Failed(t))
       \/ ~recent[AddressOf(t)]["pool"] /\ Go(t, [task[t] EXCEPT !.pc = "dial"])
    /\ UNCHANGED <<clientVars, preferred, conns, kept, gate, recent, counts>>

\* The name of the next connection.
Fresh == CHOOSE c \in Free : TRUE
CanDial == dials < MaxDials /\ Free # {}

Dialed(t) ==
    /\ At(t, "dial") /\ CanDial
    /\ dials' = dials + 1
    /\ recent' = [recent EXCEPT ![AddressOf(t)]["pool"] = FALSE]
    /\ Go(t, [task[t] EXCEPT !.pc = "write", !.conn = {Fresh}])
    /\ conns' = [conns EXCEPT ![Fresh] = Opened]
    /\ UNCHANGED <<clientVars, preferred, kept, gate, faults>>

DialFails(t) ==
    /\ At(t, "dial")
    /\ recent' = [recent EXCEPT ![AddressOf(t)]["pool"] = TRUE]
    /\ Go(t, Failed(t))
    /\ UNCHANGED <<clientVars, preferred, conns, kept, gate, counts>>

(***************************************************************************)
(* The multiplexed connection of a slot: shared, http_conn and their users.*)
(***************************************************************************)
\* What is ready: the live connection of the slot; over HTTP, unless this is
\* the second try, also an idle HTTP/1.1 connection.  A dead one is cleared.
Live(a, k) == {s \in slot[a][k] : Alive(s.conn)}
Ready(t) ==
    LET a == AddressOf(t)
        k == task[t].kind
        q == idle[a]
    IN CASE Live(a, k) # {} ->
              LET s == CHOOSE s \in Live(a, k) : TRUE
              IN {[next |-> [task[t] EXCEPT !.pc = "send", !.conn = {s.conn}, !.stamp = s.stamp, !.reused = TRUE], rest |-> q]}
         [] Live(a, k) = {} /\ k = "h2" /\ ~task[t].retried /\ Takes(q) -> {[next |-> CheckedOut(t, q), rest |-> Rest(q)]}
         [] OTHER -> {}
\* Looking sweeps the slot, and the pool too when it came to that.
Looked(t, rest) ==
    /\ slot' = [slot EXCEPT ![AddressOf(t)][task[t].kind] = Live(AddressOf(t), task[t].kind)]
    /\ idle' = [idle EXCEPT ![AddressOf(t)] = rest]
NothingReady(t) ==
    /\ Ready(t) = {}
    /\ Looked(t, IF task[t].kind = "h2" /\ ~task[t].retried THEN Swept(idle[AddressOf(t)]) ELSE idle[AddressOf(t)])

AtGate(t) == gate[AddressOf(t)][task[t].kind]
Leaves(t) == gate' = [gate EXCEPT ![AddressOf(t)][task[t].kind] = RemoveFirst(@, t)]

\* The first look; the gate is a fair lock.
Get(t) ==
    /\ At(t, "get")
    /\ \/ \E r \in Ready(t) : Looked(t, r.rest) /\ Go(t, r.next) /\ UNCHANGED gate
       \/ /\ NothingReady(t)
          /\ gate' = [gate EXCEPT ![AddressOf(t)][task[t].kind] = Append(@, t)]
          /\ Go(t, [task[t] EXCEPT !.pc = "gate"])
       \/ Go(t, Failed(t)) /\ UNCHANGED <<kept, gate>>   \* no time is left
    /\ Hold(conns)
    /\ UNCHANGED <<clientVars, preferred, recent, counts>>

\* The second look, with the gate held.
EnterGate(t) ==
    /\ At(t, "gate") /\ Head(AtGate(t)) = t
    /\ \/ \E r \in Ready(t) : Looked(t, r.rest) /\ Go(t, r.next) /\ Leaves(t)
       \/ /\ NothingReady(t)
          /\ IF recent[AddressOf(t)][task[t].kind]
             THEN Leaves(t) /\ Go(t, Failed(t))
             ELSE Go(t, [task[t] EXCEPT !.pc = "handshake"]) /\ UNCHANGED gate
    /\ Hold(conns)
    /\ UNCHANGED <<clientVars, preferred, recent, counts>>

\* The dial ends with the gate held: a connection to share or, over HTTP, one
\* that speaks HTTP/1.1 only; or an error that the next ones are told.
Dials(t, pc) ==
    /\ At(t, "handshake") /\ CanDial
    /\ dials' = dials + 1
    /\ recent' = [recent EXCEPT ![AddressOf(t)][task[t].kind] = FALSE]
    /\ Go(t, [task[t] EXCEPT !.pc = pc, !.conn = {Fresh}, !.stamp = dials + 1, !.reused = FALSE])
    /\ Leaves(t)
    /\ UNCHANGED <<clientVars, preferred, idle, faults>>
Shares(t) == slot' = [slot EXCEPT ![AddressOf(t)][task[t].kind] = {[stamp |-> dials + 1, conn |-> Fresh]}]

DialHttps(t, h2) ==
    /\ task[t].kind = "h2"
    /\ Dials(t, IF h2 THEN "send" ELSE "write")
    /\ IF h2 THEN Shares(t) ELSE UNCHANGED slot
    /\ Hold([conns EXCEPT ![Fresh] = Opened])
QuicConnect(t) ==
    /\ task[t].kind = "quic"
    /\ Dials(t, "send") /\ Shares(t)
    /\ Hold([conns EXCEPT ![Fresh] = Opened])

HandshakeFails(t) ==
    /\ At(t, "handshake")
    /\ recent' = [recent EXCEPT ![AddressOf(t)][task[t].kind] = TRUE]
    /\ Leaves(t)
    /\ Go(t, Failed(t))
    /\ UNCHANGED <<clientVars, preferred, conns, kept, counts>>

\* The request is on the wire.
H2Send(t) ==
    /\ At(t, "send") /\ task[t].kind = "h2" /\ Alive(ConnOf(t))
    /\ Go(t, [task[t] EXCEPT !.pc = "sent", !.sent = @ + 1])
    /\ UNCHANGED <<clientVars, preferred, conns, kept, gate, recent, counts>>
QuicSend(t) ==
    /\ At(t, "send") /\ task[t].kind = "quic" /\ Alive(ConnOf(t))
    /\ Go(t, [task[t] EXCEPT !.pc = "sent"])
    /\ UNCHANGED <<clientVars, preferred, conns, kept, gate, recent, counts>>

\* The response, paired by the protocol; one to another question is an error,
\* and the connection stays.
Respond(t, reply) ==
    /\ At(t, "sent") /\ conns[ConnOf(t)].life = "open"
    /\ faults' = IF SameQuestion(task[t].req, reply) THEN faults ELSE faults + 1
    /\ faults' <= MaxFaults
    /\ IF SameQuestion(task[t].req, reply) THEN Go(t, Answered(t, [reply EXCEPT !.id = task[t].req.id])) /\ Prefer(t)
       ELSE Go(t, Failed(t)) /\ UNCHANGED preferred
    /\ UNCHANGED kept
    /\ Hold(conns)
    /\ UNCHANGED <<clientVars, gate, recent, dials>>

\* Mutant of Forget: whatever is in the slot goes.
ForgetAny(t) == slot' = [slot EXCEPT ![AddressOf(t)][task[t].kind] = {}]

\* Shared::forget: the incarnation that failed, and no other.
Forget(t) == slot' = [slot EXCEPT ![AddressOf(t)][task[t].kind] = {s \in @ : s.stamp # task[t].stamp}]

\* An error or a timeout, after which the task tries once more or fails.
Gives(t, again) ==
    /\ task[t].pc \in {"send", "sent"}
    /\ Go(t, IF again /\ ~task[t].retried THEN Another(t) ELSE Failed(t))
    /\ UNCHANGED idle
    /\ Hold(conns)
    /\ UNCHANGED <<clientVars, preferred, gate, recent, counts>>

\* Mutant of H2Fails: a request that was on the wire is sent once more.
H2FailsResent(t) == task[t].kind = "h2" /\ Forget(t) /\ Gives(t, TRUE)

\* HTTP/2 forgets the connection, and tries once more if nothing of the request
\* reached the wire.
H2Fails(t) == task[t].kind = "h2" /\ Forget(t) /\ Gives(t, At(t, "send") /\ ~Alive(ConnOf(t)))

\* QUIC forgets one that was closed as in order, and if it was reused tries
\* once more.
WorthRebuilding(c) == conns[c].life = "retired"
QuicFails(t) ==
    /\ task[t].kind = "quic" /\ task[t].conn # {}
    /\ IF WorthRebuilding(ConnOf(t)) THEN Forget(t) ELSE UNCHANGED slot
    /\ Gives(t, task[t].reused /\ WorthRebuilding(ConnOf(t)))

(***************************************************************************)
(* The caller, the server, the network and the clock.                      *)
(***************************************************************************)
\* Mutant of Abort: the gate is not a guard that is dropped with the future.
AbortAtGate(t) ==
    /\ ~Rests(t)
    /\ Go(t, Ended(t, {}))
    /\ UNCHANGED <<kept, gate>>
    /\ Hold(conns)
    /\ UNCHANGED <<clientVars, preferred, recent, counts>>

\* The caller drops the exchange at an await: what it holds goes with it.
Abort(t) ==
    /\ ~Rests(t)
    /\ Go(t, Ended(t, {}))
    /\ IF task[t].pc \in {"gate", "handshake"} THEN Leaves(t) ELSE UNCHANGED gate
    /\ UNCHANGED kept
    /\ Hold(conns)
    /\ UNCHANGED <<clientVars, preferred, recent, counts>>

\* Client::close, by the last one to drop the client.
Hangup ==
    /\ \A t \in Queries : Rests(t)
    /\ idle' = [a \in Addresses |-> <<>>]
    /\ slot' = [a \in Addresses |-> [k \in Shareable |-> {}]]
    /\ conns' = [c \in ConnIds |-> Closed]
    /\ UNCHANGED <<clientVars, preferred, gate, recent, counts, task>>

\* The server answers a stream's request; as a fault with another answer, or
\* with one more after it.
Serve(c, replies) ==
    /\ conns[c].life = "open" /\ conns[c].wire # <<>>
    /\ faults' = IF replies = <<Head(conns[c].wire)>> THEN faults ELSE faults + 1
    /\ faults' <= MaxFaults
    /\ conns' = [conns EXCEPT ![c].wire = Tail(@), ![c].frames = @ \o replies,
                              ![c].extra = @ + Len(replies) - 1]
    /\ UNCHANGED <<clientVars, preferred, kept, gate, recent, dials, task>>

Break(c, life) ==
    /\ conns[c].life = "open" /\ faults < MaxFaults
    /\ conns' = [conns EXCEPT ![c].life = life]
    /\ faults' = faults + 1
    /\ UNCHANGED <<clientVars, preferred, kept, gate, recent, dials, task>>

\* Idle connections age past IDLE_CAP, the oldest first.
Elapse(a) ==
    /\ \E i \in DOMAIN idle[a] : idle[a][i].age = "new" /\ idle' = [idle EXCEPT ![a][i].age = "old"]
                                 /\ \A j \in 1 .. i - 1 : idle[a][j].age = "old"
    /\ UNCHANGED <<clientVars, preferred, conns, slot, gate, recent, counts, task>>

\* DIAL_BACKOFF is over.
BackoffEnds(a, k) ==
    /\ recent[a][k]
    /\ recent' = [recent EXCEPT ![a][k] = FALSE]
    /\ UNCHANGED <<clientVars, preferred, conns, kept, gate, counts, task>>

StreamStep(t) == Take(t) \/ Write(t) \/ Read(t) \/ StreamFails(t) \/ Redial(t) \/ Dialed(t) \/ DialFails(t)
SharedStep(t) ==
    \/ Get(t) \/ EnterGate(t) \/ H2Send(t) \/ H2Fails(t) \/ QuicSend(t) \/ QuicFails(t)
    \/ DialHttps(t, TRUE) \/ DialHttps(t, FALSE) \/ QuicConnect(t) \/ HandshakeFails(t)
    \/ \E reply \in Requests : Respond(t, reply)
UdpStep(t) == UdpTimeout(t) \/ \E reply \in Requests, tc \in BOOLEAN : UdpReply(t, reply, tc)
ExchangeStep(t) == OutOfTime(t) \/ StreamStep(t) \/ SharedStep(t) \/ UdpStep(t)

NetworkStep ==
    \/ \E c \in ConnIds, r \in Requests : Serve(c, <<r>>)
    \/ \E c \in ConnIds : conns[c].wire # <<>> /\ Serve(c, <<Head(conns[c].wire), Head(conns[c].wire)>>)
    \/ \E c \in ConnIds, life \in {"retired", "failed", "lost"} : Break(c, life)
    \/ \E a \in Addresses : Elapse(a) \/ \E k \in Kinds : BackoffEnds(a, k)

ConnNext ==
    \/ \E t \in Queries : ExchangeStep(t) \/ Abort(t) \/ \E req \in Requests : Ask(t, req)
    \/ NetworkStep \/ Hangup

\* Every await of an exchange has a timeout and the gate is handed on in turn,
\* so a task that can take a step takes one.
ConnFairness == \A t \in Queries : WF_connVars(ExchangeStep(t))
ConnSpec == ConnInit /\ [][ConnNext]_connVars /\ ConnFairness

(***************************************************************************)
(* Properties.                                                             *)
(***************************************************************************)
\* An exchange returns an answer to its own question and, wherever the
\* transport pairs answers by identifier, with its own identifier: whatever a
\* reused connection still had on it (check_reply, stream_exchange).
RepliesMatch ==
    \A t \in Queries : \A reply \in task[t].out :
        reply.question = task[t].req.question /\ (task[t].kind # "h2" => reply.id = task[t].req.id)

\* On a connection in the pool no answer is still to come that the next query
\* might read as its own (the invariant `pooled` states), unless the server sent
\* more answers than it was asked for.
IdleConnsAreQuiet ==
    \A a \in Addresses : \A i \in Range(idle[a]) : Len(conns[i.conn].wire) <= conns[i.conn].extra

\* A shared connection that works is thrown away only by a query that used it:
\* never by one that failed on the connection it replaced (Shared::forget).
ReplacementSurvives ==
    [][\A a \in Addresses, k \in Shareable : \A s \in slot[a][k] \ slot'[a][k] :
         \/ ~Alive(s.conn)
         \/ \A t \in Queries : Rests(t)
         \/ \E t \in Queries : s.conn \in task[t].conn /\ task'[t] # task[t]]_connVars

\* Over HTTP/2 a query is on the wire at most once, whatever the connection
\* does and however often it is tried (Sent::Unsent, Sent::Spent).
SentOnce == \A t \in Queries : task[t].kind = "h2" => task[t].sent <= 1

\* A query over HTTP is on the wire at most once.  It is not so: an HTTP/1.1
\* connection that fails after the request was written is retried.
SentOnceOverHttp ==
    [][\A t \in Queries : task[t].kind = "h2" /\ At(t, "read") => task'[t].pc # "get"]_connVars

\* Every exchange ends, although tasks wait for each other's dial and any of
\* them may be dropped while it holds the gate.
ExchangesEnd == \A t \in Queries : ~Rests(t) ~> Rests(t)
=============================================================================
