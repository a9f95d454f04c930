--------------------------- MODULE UpstreamProofs ---------------------------
(***************************************************************************)
(* Proofs about the upstreams: one upstream's client and its connections,  *)
(* for any queries, transports, addresses, bounds and faults of the        *)
(* network, and the pools and their rebuilds, for any reloads, settings,   *)
(* names and queries.                                                      *)
(***************************************************************************)
EXTENDS Connections, Pools, WellFoundedInduction, FiniteSetTheorems, TLAPS

\* What a message can be, and a task.
Texts == [id : {r.id : r \in Requests} \cup {0},
          question : {r.question : r \in Requests} \cup {""}]

Pcs == {"idle", "done", "udp", "take", "write", "read", "redial", "dial", "get",
        "gate", "handshake", "send", "sent"}

TaskRecords ==
    [pc : Pcs, req : Texts, first : Nat, step : Nat, kind : Kinds,
     conn : SUBSET ConnIds, stamp : Nat, reused : BOOLEAN, retried : BOOLEAN,
     sent : Nat, out : SUBSET Texts]

ConnRecords ==
    [life : {"none", "open", "retired", "failed", "lost"}, wire : Seq(Texts),
     frames : Seq(Texts), extra : Nat]

IdleItems == [conn : ConnIds, age : {"new", "old"}]

\* Whether r's answer, if it has one, is to what r asked.
AnswerFits(r) ==
    \A reply \in r.out :
        /\ reply.question = r.req.question
        /\ r.kind # "h2" => reply.id = r.req.id

\* A task holds a connection wherever it uses one, and of the kind it asked
\* for; only one that waits for an answer has a request on the wire; and only one
\* that was given a shared connection carries a stamp.
Fit(r) ==
    /\ r \in TaskRecords
    /\ r.pc \in {"write", "read", "send", "sent"} => r.conn # {}
    /\ r.pc \in {"udp", "take", "redial", "dial"} => r.kind = "pool"
    /\ r.pc \in {"write", "read"} => r.kind # "quic"
    /\ r.pc \in {"get", "gate", "handshake", "send", "sent"} => r.kind \in Shareable
    /\ r.sent <= 1
    /\ r.pc # "sent" \/ r.kind = "quic" => r.sent = 0
    /\ r.pc \notin {"write", "read", "send", "sent"} \/ r.kind = "pool" => r.stamp = 0
    /\ AnswerFits(r)

TasksFit ==
    /\ task \in [Queries -> TaskRecords]
    /\ \A t \in Queries : Fit(task[t])

ClientTyped ==
    /\ transport \in {"udp", "tcp", "https", "http3", "quic"}
    /\ hosts \in Nat \ {0}
    /\ preferred \in Nat
    /\ dials \in Nat

ConnsTyped == conns \in [ConnIds -> ConnRecords]

IdleTyped == idle \in [Addresses -> Seq(IdleItems)]

SlotsTyped ==
    slot \in [Addresses -> [Shareable -> SUBSET [stamp : Nat, conn : ConnIds]]]

TypesInv == TasksFit /\ ClientTyped /\ ConnsTyped /\ IdleTyped /\ SlotsTyped

-----------------------------------------------------------------------------
(***************************************************************************)
(* Operators.                                                              *)
(***************************************************************************)
LEMMA LeastNatural ==
    ASSUME NEW T, T \subseteq Nat, T # {}
    PROVE  Min(T) \in T /\ \E m \in T : \A i \in T : m <= i
<1>1. PICK m \in T : \A y \in T : ~ (<<y, m>> \in OpToRel(<, Nat))
      BY NatLessThanWellFounded, WFMin
<1>2. \A y \in T : ~(y < m)
      BY <1>1 DEF OpToRel
<1>3. \A y \in T : m =< y
      BY <1>2
<1> QED
    BY <1>3 DEF Min

LEMMA RequestsAreTexts == Requests \subseteq Texts
<1> SUFFICES ASSUME NEW r \in Requests PROVE r \in Texts
    OBVIOUS
<1>1. r = [id |-> r.id, question |-> r.question]
      BY ConnectionsAssumption
<1>2. [id |-> r.id, question |-> r.question] \in Texts
      BY DEF Texts
<1> QED
    BY <1>1, <1>2, Zenon

LEMMA AddressTyped ==
    ASSUME TypesInv, NEW t \in Queries
    PROVE  AddressOf(t) \in Addresses /\ AddressOf(t) \in Nat
<1>1. task[t].first \in Nat /\ task[t].step \in Nat /\ hosts \in Nat \ {0}
      BY DEF TypesInv, TasksFit, ClientTyped, TaskRecords
<1> QED
    BY <1>1 DEF AddressOf, Addresses

\* Sweeping and taking leave a part of the pool.
LEMMA SweptTyped ==
    ASSUME NEW q \in Seq(IdleItems)
    PROVE  /\ Swept(q) \in Seq(IdleItems)
           /\ Rest(q) \in Seq(IdleItems)
           /\ Takes(q) => Last(Swept(q)) \in IdleItems
<1> DEFINE live == {i \in DOMAIN q : Usable(q[i])}
<1>1. Swept(q) \in Seq(IdleItems)
  <2>1. CASE live = {}
        BY <2>1 DEF Swept
  <2>2. CASE live # {}
    <3>1. Min(live) \in 1..Len(q)
      <4>1. live \subseteq Nat /\ live \subseteq 1..Len(q)
            OBVIOUS
      <4> HIDE DEF live
      <4> QED
          BY <2>2, <4>1, LeastNatural
    <3>2. Swept(q) = SubSeq(q, Min(live), Len(q))
          BY <2>2 DEF Swept
    <3> HIDE DEF live
    <3> QED
        BY <3>1, <3>2
  <2> QED
      BY <2>1, <2>2
<1>2. Rest(q) \in Seq(IdleItems)
      BY <1>1 DEF Rest, Takes, Front
<1>3. Takes(q) => Last(Swept(q)) \in IdleItems
      BY <1>1 DEF Takes, Last
<1> QED
    BY <1>1, <1>2, <1>3

LEMMA PutTyped ==
    ASSUME NEW a, NEW c \in ConnIds, idle[a] \in Seq(IdleItems)
    PROVE  Put(a, c) \in Seq(IdleItems)
<1> DEFINE q == Append(idle[a], [conn |-> c, age |-> "new"])
           n == Min({Len(q), IdleMax})
<1>1. q \in Seq(IdleItems) /\ Len(q) \in Nat \ {0}
      BY DEF IdleItems
<1>2. n \in Nat /\ n \in {Len(q), IdleMax}
  <2>1. {Len(q), IdleMax} \subseteq Nat
        BY <1>1, ConnectionsAssumption
  <2> HIDE DEF q
  <2> QED
      BY <2>1, LeastNatural
<1>3. n <= Len(q)
  <2>1. CASE Len(q) <= IdleMax
        BY <1>1, <2>1, ConnectionsAssumption DEF Min
  <2>2. CASE Len(q) > IdleMax
        BY <1>1, <1>2, <2>2, ConnectionsAssumption
  <2> QED
      BY <1>1, <2>1, <2>2, ConnectionsAssumption
<1>4. Put(a, c) = SubSeq(q, Len(q) - n + 1, Len(q))
      BY DEF Put
<1> HIDE DEF q, n
<1> QED
    BY <1>1, <1>2, <1>3, <1>4

\* The connection a task holds is one.
LEMMA ConnOfTyped ==
    ASSUME NEW t \in Queries, Fit(task[t]),
           task[t].pc \in {"write", "read", "send", "sent"} \/ task[t].conn # {}
    PROVE  ConnOf(t) \in ConnIds /\ ConnOf(t) \in task[t].conn
<1>1. task[t].conn \in SUBSET ConnIds /\ task[t].conn # {}
      BY DEF Fit, TaskRecords
<1> QED
    BY <1>1 DEF ConnOf

\* The states a task can be sent to fit.
LEMMA RestingFits == Fit(Resting)
BY DEF Fit, Resting, TaskRecords, Pcs, Texts, Kinds, Shareable, AnswerFits

LEMMA StartingFits ==
    ASSUME NEW req \in Texts, NEW first \in Nat, NEW step \in Nat,
           NEW stage \in {"udp", "take", "get"}, NEW kind \in Kinds,
           stage = "get" <=> kind # "pool"
    PROVE  Fit([pc |-> stage, req |-> req, first |-> first, step |-> step, kind |-> kind,
                conn |-> {}, stamp |-> 0, reused |-> FALSE, retried |-> FALSE,
                sent |-> 0, out |-> {}])
BY DEF Fit, TaskRecords, Pcs, Kinds, Shareable, AnswerFits

LEMMA EndedFields ==
    ASSUME NEW req, NEW kind, NEW out, NEW r,
           r = [Resting EXCEPT !.pc = "done", !.req = req, !.kind = kind, !.out = out]
    PROVE  r = [pc |-> "done", req |-> req, first |-> 0, step |-> 0, kind |-> kind,
                conn |-> {}, stamp |-> 0, reused |-> FALSE, retried |-> FALSE,
                sent |-> 0, out |-> out]
BY DEF Resting

LEMMA AttemptFits ==
    ASSUME ClientTyped, NEW req \in Texts, NEW first \in Nat, NEW step \in Nat
    PROVE  /\ Fit(Attempt(req, first, step))
           /\ Attempt(req, first, step).pc \in {"udp", "take", "get"}
           /\ Attempt(req, first, step).stamp = 0
<1>1. PICK stage, kind :
        /\ stage = CASE transport = "udp" -> "udp" [] transport = "tcp" -> "take"
                  [] OTHER -> "get"
        /\ kind = CASE transport = "https" -> "h2"
                    [] transport \in {"http3", "quic"} -> "quic" [] OTHER -> "pool"
      OBVIOUS
<1>2. stage \in {"udp", "take", "get"} /\ kind \in Kinds /\ (stage = "get" <=> kind # "pool")
      BY <1>1 DEF ClientTyped, Kinds, Shareable
<1>3. PICK r : r = Attempt(req, first, step)
      OBVIOUS
<1>4. r = [Resting EXCEPT !.req = req, !.first = first, !.step = step,
                          !.pc = stage, !.kind = kind]
      BY <1>1, <1>3 DEF Attempt
<1>5. r = [pc |-> stage, req |-> req, first |-> first, step |-> step, kind |-> kind,
           conn |-> {}, stamp |-> 0, reused |-> FALSE, retried |-> FALSE, sent |-> 0,
           out |-> {}]
      BY <1>4 DEF Resting
<1>6. Fit(r)
      BY <1>2, <1>5, StartingFits
<1> QED
    BY <1>2, <1>3, <1>5, <1>6

LEMMA EndedFits ==
    ASSUME NEW t \in Queries, Fit(task[t]), NEW out \in SUBSET Texts,
           \A reply \in out : /\ reply.question = task[t].req.question
                              /\ task[t].kind # "h2" => reply.id = task[t].req.id
    PROVE  Fit(Ended(t, out)) /\ Ended(t, out).pc = "done" /\ Ended(t, out).stamp = 0
<1>1. task[t].req \in Texts /\ task[t].kind \in Kinds
      BY DEF Fit, TaskRecords
<1>2. Ended(t, out)
        = [pc |-> "done", req |-> task[t].req, first |-> 0, step |-> 0,
           kind |-> task[t].kind, conn |-> {}, stamp |-> 0, reused |-> FALSE,
           retried |-> FALSE, sent |-> 0, out |-> out]
      BY EndedFields, ZenonT(30) DEF Ended
<1>3. Ended(t, out) \in TaskRecords
      BY <1>1, <1>2 DEF TaskRecords, Pcs
<1> QED
    BY <1>1, <1>2, <1>3 DEF Fit, AnswerFits

LEMMA AnotherFits ==
    ASSUME NEW t \in Queries, Fit(task[t]), task[t].kind \in Shareable,
           task[t].sent = 0, ~Rests(t)
    PROVE  Fit(Another(t)) /\ Another(t).pc = "get" /\ Another(t).stamp = 0
BY DEF Another, Fit, TaskRecords, Pcs, Kinds, Shareable, AnswerFits

LEMMA FailedFits ==
    ASSUME ClientTyped, NEW t \in Queries, Fit(task[t])
    PROVE  /\ Fit(Failed(t))
           /\ Failed(t).pc \in {"udp", "take", "get", "done"}
           /\ Failed(t).stamp = 0
<1> DEFINE r == task[t]
<1>1. r.req \in Texts /\ r.first \in Nat /\ r.step \in Nat
      BY DEF Fit, TaskRecords
<1>2. CASE transport = "http3" /\ r.kind = "quic"
  <2>1. Failed(t) = [Attempt(r.req, r.first, r.step) EXCEPT !.kind = "h2"]
        BY <1>2 DEF Failed
  <2> QED
      BY <1>1, <1>2, <2>1, ZenonT(30)
      DEF Attempt, Fit, Resting, TaskRecords, Pcs, Kinds, Shareable, AnswerFits
<1>3. CASE ~(transport = "http3" /\ r.kind = "quic") /\ r.step + 1 < hosts
      BY <1>1, <1>3, AttemptFits DEF Failed
<1>4. CASE ~(transport = "http3" /\ r.kind = "quic") /\ ~(r.step + 1 < hosts)
      BY <1>4, EndedFits DEF Failed
<1> QED
    BY <1>2, <1>3, <1>4

LEMMA AfterFailureFits ==
    ASSUME ClientTyped, NEW t \in Queries, Fit(task[t]),
           task[t].pc \in {"write", "read"}
    PROVE  /\ Fit(AfterBadReply(t)) /\ Fit(AfterFailure(t))
           /\ AfterBadReply(t).pc \in {"redial", "udp", "take", "get", "done"}
           /\ AfterFailure(t).pc \in {"redial", "udp", "take", "get", "done"}
<1>1. Fit([task[t] EXCEPT !.pc = "redial", !.reused = FALSE, !.conn = {}])
        \/ task[t].kind # "pool"
      BY DEF Fit, TaskRecords, Pcs, Kinds, Shareable, AnswerFits
<1>2. [task[t] EXCEPT !.pc = "redial", !.reused = FALSE, !.conn = {}].pc = "redial"
      BY DEF Fit, TaskRecords
<1>3. /\ Fit(AfterBadReply(t))
      /\ AfterBadReply(t).pc \in {"redial", "udp", "take", "get", "done"}
      BY <1>1, <1>2, FailedFits DEF AfterBadReply
<1>4. task[t].kind # "pool" => task[t].kind \in Shareable /\ task[t].sent = 0
      BY DEF Fit, TaskRecords, Kinds
<1> QED
    BY <1>3, <1>4, AnotherFits DEF AfterFailure, Rests

-----------------------------------------------------------------------------
(***************************************************************************)
(* The steps.                                                              *)
(***************************************************************************)
LEMMA GoFits ==
    ASSUME TasksFit, NEW t \in Queries, NEW r, Fit(r), Go(t, r)
    PROVE  TasksFit'
<1>1. task' = [task EXCEPT ![t] = r] /\ r \in TaskRecords
      BY DEF Go, Fit
<1>2. task' \in [Queries -> TaskRecords]
      BY <1>1 DEF TasksFit
<1>3. \A u \in Queries : task'[u] = IF u = t THEN r ELSE task[u]
      BY <1>1 DEF TasksFit
<1>4. \A u \in Queries : Fit(task'[u])
      BY <1>3 DEF TasksFit
<1> QED
    BY <1>2, <1>4 DEF TasksFit

LEMMA HoldTyped ==
    ASSUME NEW next \in [ConnIds -> ConnRecords], Hold(next)
    PROVE  ConnsTyped'
<1>1. Closed \in ConnRecords
      BY DEF Closed, ConnRecords
<1>2. PICK live : conns' = [c \in ConnIds |-> IF c \in live THEN next[c] ELSE Closed]
      BY DEF Hold
<1> QED
    BY <1>1, <1>2 DEF ConnsTyped

LEMMA OpenedTyped ==
    ASSUME ConnsTyped, NEW c
    PROVE  [conns EXCEPT ![c] = Opened] \in [ConnIds -> ConnRecords]
<1>1. Opened \in ConnRecords
      BY DEF Opened, ConnRecords
<1> QED
    BY <1>1 DEF ConnsTyped

LEMMA PreferTyped ==
    ASSUME TypesInv, NEW t \in Queries, Prefer(t)
    PROVE  preferred' \in Nat
BY AddressTyped DEF Prefer, TypesInv, ClientTyped

\* What the steps of a task leave as it was.
LEMMA RestKeepsTypes ==
    ASSUME TypesInv, UNCHANGED clientVars,
           TasksFit', preferred' \in Nat, dials' \in Nat, ConnsTyped',
           UNCHANGED idle \/ IdleTyped', UNCHANGED slot \/ SlotsTyped'
    PROVE  TypesInv'
BY DEF TypesInv, ClientTyped, IdleTyped, SlotsTyped, Addresses, clientVars

LEMMA UdpKeepsTypes ==
    ASSUME TypesInv, NEW t \in Queries, UdpStep(t) \/ OutOfTime(t)
    PROVE  TypesInv'
<1>0. /\ TasksFit /\ ClientTyped /\ ConnsTyped /\ Fit(task[t])
      /\ preferred \in Nat /\ dials \in Nat
      BY DEF TypesInv, TasksFit, ClientTyped
<1>1. UNCHANGED <<conns, idle, slot, dials, transport, hosts>>
      BY DEF UdpStep, OutOfTime, UdpTimeout, UdpReply, clientVars, kept, counts
<1>2. TasksFit' /\ preferred' \in Nat
  <2>1. CASE OutOfTime(t)
    <3>1. Fit(Ended(t, {}))
          BY <1>0, EndedFits
    <3> QED
        BY <1>0, <2>1, <3>1, GoFits DEF OutOfTime
  <2>2. CASE UdpTimeout(t)
        BY <1>0, <2>2, FailedFits, GoFits DEF UdpTimeout
  <2>3. ASSUME NEW reply \in Requests, NEW tc \in BOOLEAN, UdpReply(t, reply, tc)
        PROVE  TasksFit' /\ preferred' \in Nat
    <3>1. CASE ~Matches(task[t].req, reply)
          BY <1>0, <2>3, <3>1, FailedFits, GoFits DEF UdpReply
    <3>2. CASE Matches(task[t].req, reply) /\ tc
      <4>1. Fit([task[t] EXCEPT !.pc = "take"])
            BY <1>0, <2>3
            DEF UdpReply, At, Fit, TaskRecords, Pcs, Kinds, Shareable, AnswerFits
      <4> QED
          BY <1>0, <2>3, <3>2, <4>1, GoFits DEF UdpReply
    <3>3. CASE Matches(task[t].req, reply) /\ ~tc
      <4>1. reply \in Texts
            BY RequestsAreTexts
      <4>2. Fit(Ended(t, {reply}))
            BY <1>0, <3>3, <4>1, EndedFits DEF Matches, SameQuestion
      <4> QED
          BY <1>0, <2>3, <3>3, <4>2, GoFits, PreferTyped DEF UdpReply, Answered
    <3> QED
        BY <3>1, <3>2, <3>3
  <2> QED
      BY <2>1, <2>2, <2>3 DEF UdpStep
<1> QED
    BY <1>0, <1>1, <1>2, RestKeepsTypes DEF clientVars, ConnsTyped

LEMMA StreamKeepsTypes ==
    ASSUME TypesInv, NEW t \in Queries, StreamStep(t)
    PROVE  TypesInv'
<1>0. /\ TasksFit /\ ClientTyped /\ ConnsTyped /\ IdleTyped /\ Fit(task[t])
      /\ preferred \in Nat /\ dials \in Nat
      /\ AddressOf(t) \in Addresses /\ idle[AddressOf(t)] \in Seq(IdleItems)
      BY AddressTyped DEF TypesInv, TasksFit, ClientTyped, IdleTyped
<1>1. CASE Take(t)
  <2> DEFINE a == AddressOf(t)
             q == idle[a]
  <2>1. Rest(q) \in Seq(IdleItems) /\ (Takes(q) => Last(Swept(q)) \in IdleItems)
        BY <1>0, SweptTyped
  <2>2. IdleTyped'
    <3>1. idle' = [idle EXCEPT ![a] = Rest(q)] /\ hosts' = hosts
          BY <1>1 DEF Take, clientVars
    <3> QED
        BY <1>0, <2>1, <3>1 DEF IdleTyped, Addresses
  <2>3. TasksFit'
    <3>1. CASE Takes(q)
      <4>1. Last(Swept(q)).conn \in ConnIds
            BY <2>1, <3>1 DEF IdleItems
      <4>2. PICK c \in ConnIds : c = Last(Swept(q)).conn
            BY <4>1
      <4>3. Fit([task[t] EXCEPT !.pc = "write", !.conn = {c}, !.reused = TRUE])
            BY <1>0, <1>1
            DEF Take, At, Fit, TaskRecords, Pcs, Kinds, Shareable, AnswerFits
      <4>4. Go(t, [task[t] EXCEPT !.pc = "write", !.conn = {c}, !.reused = TRUE])
            BY <1>1, <3>1, <4>2 DEF Take, CheckedOut
      <4> QED
          BY <1>0, <4>3, <4>4, GoFits
    <3>2. CASE ~Takes(q)
      <4>1. Fit([task[t] EXCEPT !.pc = "redial", !.reused = FALSE])
            BY <1>0, <1>1
            DEF Take, At, Fit, TaskRecords, Pcs, Kinds, Shareable, AnswerFits
      <4>2. Go(t, [task[t] EXCEPT !.pc = "redial", !.reused = FALSE])
            BY <1>1, <3>2 DEF Take
      <4> QED
          BY <1>0, <4>1, <4>2, GoFits
    <3> QED
        BY <3>1, <3>2
  <2>4. ConnsTyped'
        BY <1>0, <1>1, HoldTyped DEF Take, ConnsTyped
  <2> QED
      BY <1>0, <1>1, <2>2, <2>3, <2>4, RestKeepsTypes DEF Take, counts
<1>2. CASE Write(t)
  <2>1. ConnOf(t) \in ConnIds
        BY <1>0, <1>2, ConnOfTyped DEF Write, At
  <2>2. Fit([task[t] EXCEPT !.pc = "read"])
        BY <1>0, <1>2
        DEF Write, At, Fit, TaskRecords, Pcs, Kinds, Shareable, AnswerFits
  <2>3. TasksFit'
        BY <1>0, <1>2, <2>2, GoFits DEF Write
  <2>4. ConnsTyped'
    <3>1. conns[ConnOf(t)] \in ConnRecords /\ task[t].req \in Texts
          BY <1>0, <2>1 DEF ConnsTyped, Fit, TaskRecords
    <3>2. conns' = [conns EXCEPT ![ConnOf(t)].wire = Append(@, task[t].req)]
          BY <1>2 DEF Write
    <3>3. Append(conns[ConnOf(t)].wire, task[t].req) \in Seq(Texts)
          BY <3>1 DEF ConnRecords
    <3>4. [conns[ConnOf(t)] EXCEPT !.wire = Append(conns[ConnOf(t)].wire, task[t].req)]
            \in ConnRecords
          BY <3>1, <3>3 DEF ConnRecords
    <3> QED
        BY <1>0, <2>1, <3>2, <3>4 DEF ConnsTyped
  <2> QED
      BY <1>0, <1>2, <2>3, <2>4, RestKeepsTypes DEF Write, kept, counts
<1>3. CASE Read(t)
  <2> DEFINE c == ConnOf(t)
             a == AddressOf(t)
             reply == Head(conns[c].frames)
  <2>1. c \in ConnIds
        BY <1>0, <1>3, ConnOfTyped DEF Read, At
  <2>2. conns[c] \in ConnRecords /\ conns[c].frames \in Seq(Texts) /\ reply \in Texts
        BY <1>0, <1>3, <2>1 DEF Read, ConnsTyped, ConnRecords
  <2>3. ConnsTyped'
    <3>1. Tail(conns[c].frames) \in Seq(Texts)
          BY <1>3, <2>2 DEF Read
    <3>2. [conns[c] EXCEPT !.frames = Tail(conns[c].frames)] \in ConnRecords
          BY <2>2, <3>1 DEF ConnRecords
    <3>3. [conns EXCEPT ![c].frames = Tail(@)] \in [ConnIds -> ConnRecords]
          BY <1>0, <2>1, <3>2 DEF ConnsTyped
    <3> QED
        BY <1>3, <3>3, HoldTyped DEF Read
  <2>4. CASE Valid(t, reply)
    <3>1. /\ idle' = [idle EXCEPT ![a] = Put(a, c)] /\ Go(t, Ended(t, {reply}))
          /\ Prefer(t)
          BY <1>3, <2>4 DEF Read, Answered
    <3>2. IdleTyped'
          BY <1>0, <1>3, <2>1, <3>1, PutTyped DEF Read, IdleTyped, Addresses, clientVars
    <3>3. Fit(Ended(t, {reply}))
      <4>1. /\ reply.question = task[t].req.question
            /\ task[t].kind # "h2" => reply.id = task[t].req.id
            BY <1>0, <1>3, <2>4
            DEF Read, At, Valid, Matches, SameQuestion, Fit, TaskRecords, Kinds, Shareable
      <4> QED
          BY <1>0, <2>2, <4>1, EndedFits
    <3> QED
        BY <1>0, <1>3, <2>3, <3>1, <3>2, <3>3, GoFits, PreferTyped, RestKeepsTypes
        DEF Read, counts
  <2>5. CASE ~Valid(t, reply)
    <3>1. Go(t, AfterBadReply(t)) /\ UNCHANGED <<idle, preferred>>
          BY <1>3, <2>5 DEF Read
    <3>2. Fit(AfterBadReply(t))
          BY <1>0, <1>3, AfterFailureFits DEF Read, At
    <3> QED
        BY <1>0, <1>3, <2>3, <3>1, <3>2, GoFits, RestKeepsTypes DEF Read, counts
  <2> QED
      BY <2>4, <2>5
<1>4. CASE StreamFails(t)
  <2>1. TasksFit'
        BY <1>0, <1>4, AfterFailureFits, GoFits DEF StreamFails
  <2>2. ConnsTyped'
        BY <1>0, <1>4, HoldTyped DEF StreamFails, ConnsTyped
  <2> QED
      BY <1>0, <1>4, <2>1, <2>2, RestKeepsTypes DEF StreamFails, kept, counts
<1>5. CASE Redial(t)
  <2>1. Fit([task[t] EXCEPT !.pc = "dial"])
        BY <1>0, <1>5
        DEF Redial, At, Fit, TaskRecords, Pcs, Kinds, Shareable, AnswerFits
  <2>2. TasksFit'
        BY <1>0, <1>5, <2>1, FailedFits, GoFits DEF Redial
  <2> QED
      BY <1>0, <1>5, <2>2, RestKeepsTypes DEF Redial, ConnsTyped, kept, counts
<1>6. CASE Dialed(t)
  <2>1. Fresh \in ConnIds
        BY <1>6 DEF Dialed, CanDial, Fresh, Free
  <2>2. PICK c \in ConnIds : c = Fresh
        BY <2>1
  <2>3. Fit([task[t] EXCEPT !.pc = "write", !.conn = {c}])
        BY <1>0, <1>6
        DEF Dialed, At, Fit, TaskRecords, Pcs, Kinds, Shareable, AnswerFits
  <2>4. TasksFit'
        BY <1>0, <1>6, <2>2, <2>3, GoFits DEF Dialed
  <2>5. ConnsTyped'
        BY <1>0, <1>6, OpenedTyped DEF Dialed, ConnsTyped
  <2> QED
      BY <1>0, <1>6, <2>4, <2>5, RestKeepsTypes DEF Dialed, kept
<1>7. CASE DialFails(t)
  <2>1. TasksFit'
        BY <1>0, <1>7, FailedFits, GoFits DEF DialFails
  <2> QED
      BY <1>0, <1>7, <2>1, RestKeepsTypes DEF DialFails, ConnsTyped, kept, counts
<1> QED
    BY <1>1, <1>2, <1>3, <1>4, <1>5, <1>6, <1>7 DEF StreamStep

\* What is ready for a task.
LEMMA ReadyFits ==
    ASSUME TypesInv, NEW t \in Queries, task[t].pc \in {"get", "gate"},
           NEW r \in Ready(t)
    PROVE  /\ Fit(r.next) /\ r.next.pc \in {"send", "write"}
           /\ r.rest \in Seq(IdleItems)
<1> DEFINE a == AddressOf(t)
           k == task[t].kind
           q == idle[a]
<1>0. /\ Fit(task[t]) /\ k \in Shareable
      /\ a \in Addresses /\ q \in Seq(IdleItems)
      /\ slot[a][k] \subseteq [stamp : Nat, conn : ConnIds]
      BY AddressTyped DEF TypesInv, TasksFit, IdleTyped, SlotsTyped, Fit
<1>1. CASE Live(a, k) # {}
  <2>1. PICK s \in [stamp : Nat, conn : ConnIds] :
          r = [next |-> [task[t] EXCEPT !.pc = "send", !.conn = {s.conn},
                                        !.stamp = s.stamp, !.reused = TRUE],
               rest |-> q]
    <3>1. Live(a, k) \subseteq [stamp : Nat, conn : ConnIds]
          BY <1>0 DEF Live
    <3>2. PICK s \in Live(a, k) : s = CHOOSE x \in Live(a, k) : TRUE
          BY <1>1
    <3>3. r = [next |-> [task[t] EXCEPT !.pc = "send", !.conn = {s.conn},
                                        !.stamp = s.stamp, !.reused = TRUE],
               rest |-> q]
          BY <1>1, <3>2 DEF Ready
    <3> QED
        BY <3>1, <3>3
  <2>2. PICK c \in ConnIds, n \in Nat : c = s.conn /\ n = s.stamp
        OBVIOUS
  <2>3. LET x == [task[t] EXCEPT !.pc = "send", !.conn = {c}, !.stamp = n,
                                 !.reused = TRUE]
        IN  Fit(x) /\ x.pc = "send"
        BY <1>0 DEF Fit, TaskRecords, Pcs, Kinds, Shareable, AnswerFits
  <2> QED
      BY <1>0, <2>1, <2>2, <2>3
<1>2. CASE Live(a, k) = {}
  <2>1. Takes(q) /\ k = "h2" /\ r = [next |-> CheckedOut(t, q), rest |-> Rest(q)]
        BY <1>2 DEF Ready
  <2>2. PICK c \in ConnIds : c = Last(Swept(q)).conn
        BY <1>0, <2>1, SweptTyped DEF IdleItems
  <2>3. LET x == [task[t] EXCEPT !.pc = "write", !.conn = {c}, !.reused = TRUE]
        IN  Fit(x) /\ x.pc = "write"
        BY <1>0, <2>1 DEF Fit, TaskRecords, Pcs, Kinds, Shareable, AnswerFits
  <2> QED
      BY <1>0, <2>1, <2>2, <2>3, SweptTyped DEF CheckedOut
<1> QED
    BY <1>1, <1>2

\* Looking.
LEMMA LookedTyped ==
    ASSUME TypesInv, NEW t \in Queries, task[t].kind \in Shareable,
           NEW rest \in Seq(IdleItems), Looked(t, rest), hosts' = hosts
    PROVE  IdleTyped' /\ SlotsTyped'
<1>0. AddressOf(t) \in Addresses
      BY AddressTyped
<1>1. IdleTyped'
      BY <1>0 DEF Looked, TypesInv, IdleTyped, Addresses
<1>2. Live(AddressOf(t), task[t].kind) \in SUBSET [stamp : Nat, conn : ConnIds]
      BY <1>0 DEF Live, TypesInv, SlotsTyped
<1>3. SlotsTyped'
      BY <1>0, <1>2 DEF Looked, TypesInv, SlotsTyped, Addresses
<1> QED
    BY <1>1, <1>3

LEMMA NothingReadyTyped ==
    ASSUME TypesInv, NEW t \in Queries, task[t].kind \in Shareable,
           NothingReady(t), hosts' = hosts
    PROVE  IdleTyped' /\ SlotsTyped'
<1>1. PICK rest : /\ Looked(t, rest)
                  /\ rest \in {Swept(idle[AddressOf(t)]), idle[AddressOf(t)]}
      BY DEF NothingReady
<1>2. idle[AddressOf(t)] \in Seq(IdleItems)
      BY AddressTyped DEF TypesInv, IdleTyped
<1>3. rest \in Seq(IdleItems)
      BY <1>1, <1>2, SweptTyped
<1> QED
    BY <1>1, <1>3, LookedTyped

LEMMA SharedKeepsTypes ==
    ASSUME TypesInv, NEW t \in Queries, SharedStep(t)
    PROVE  TypesInv'
<1>0. /\ TasksFit /\ ClientTyped /\ ConnsTyped /\ IdleTyped /\ SlotsTyped
      /\ Fit(task[t]) /\ preferred \in Nat /\ dials \in Nat
      /\ AddressOf(t) \in Addresses
      /\ conns \in [ConnIds -> ConnRecords]
      BY AddressTyped DEF TypesInv, TasksFit, ClientTyped, ConnsTyped
<1>1. CASE Get(t)
  <2>0. /\ task[t].pc = "get" /\ task[t].kind \in Shareable /\ ConnsTyped'
        /\ UNCHANGED <<transport, hosts, preferred, dials>>
        BY <1>0, <1>1, HoldTyped DEF Get, At, Fit, clientVars, counts
  <2>1. ASSUME NEW r \in Ready(t), Looked(t, r.rest), Go(t, r.next)
        PROVE  TypesInv'
        BY <1>0, <2>0, <2>1, ReadyFits, LookedTyped, GoFits, RestKeepsTypes DEF clientVars
  <2>2. ASSUME NothingReady(t), Go(t, [task[t] EXCEPT !.pc = "gate"])
        PROVE  TypesInv'
    <3>1. Fit([task[t] EXCEPT !.pc = "gate"])
          BY <1>0, <2>0 DEF Fit, TaskRecords, Pcs, Kinds, Shareable, AnswerFits
    <3> QED
        BY <1>0, <2>0, <2>2, <3>1, NothingReadyTyped, GoFits, RestKeepsTypes DEF clientVars
  <2>3. ASSUME Go(t, Failed(t)), UNCHANGED kept
        PROVE  TypesInv'
        BY <1>0, <2>0, <2>3, FailedFits, GoFits, RestKeepsTypes DEF clientVars, kept
  <2> QED
      BY <1>1, <2>1, <2>2, <2>3 DEF Get, kept
<1>2. CASE EnterGate(t)
  <2>0. /\ task[t].pc = "gate" /\ task[t].kind \in Shareable /\ ConnsTyped'
        /\ UNCHANGED <<transport, hosts, preferred, dials>>
        BY <1>0, <1>2, HoldTyped DEF EnterGate, At, Fit, clientVars, counts
  <2>1. ASSUME NEW r \in Ready(t), Looked(t, r.rest), Go(t, r.next)
        PROVE  TypesInv'
        BY <1>0, <2>0, <2>1, ReadyFits, LookedTyped, GoFits, RestKeepsTypes DEF clientVars
  <2>2. ASSUME NothingReady(t), Go(t, [task[t] EXCEPT !.pc = "handshake"])
        PROVE  TypesInv'
    <3>1. Fit([task[t] EXCEPT !.pc = "handshake"])
          BY <1>0, <2>0 DEF Fit, TaskRecords, Pcs, Kinds, Shareable, AnswerFits
    <3> QED
        BY <1>0, <2>0, <2>2, <3>1, NothingReadyTyped, GoFits, RestKeepsTypes DEF clientVars
  <2>3. ASSUME NothingReady(t), Go(t, Failed(t))
        PROVE  TypesInv'
        BY <1>0, <2>0, <2>3, FailedFits, NothingReadyTyped, GoFits, RestKeepsTypes
        DEF clientVars
  <2> QED
      BY <1>2, <2>1, <2>2, <2>3 DEF EnterGate
<1>3. ASSUME NEW stage \in {"send", "write"}, Dials(t, stage), task[t].kind \in Shareable,
             stage = "write" => task[t].kind = "h2",
             Shares(t) \/ UNCHANGED slot,
             Hold([conns EXCEPT ![Fresh] = Opened])
      PROVE  TypesInv'
  <2>1. PICK c \in ConnIds : c = Fresh
        BY <1>3 DEF Dials, CanDial, Fresh, Free
  <2>2. PICK n \in Nat : n = dials + 1
        BY <1>0
  <2>3. Fit([task[t] EXCEPT !.pc = stage, !.conn = {c}, !.stamp = n, !.reused = FALSE])
        BY <1>0, <1>3 DEF Dials, At, Fit, TaskRecords, Pcs, Kinds, Shareable, AnswerFits
  <2>4. TasksFit'
        BY <1>0, <1>3, <2>1, <2>2, <2>3, GoFits DEF Dials
  <2>5. ConnsTyped'
        BY <1>0, <1>3, HoldTyped, OpenedTyped
  <2>6. UNCHANGED slot \/ SlotsTyped'
    <3>1. CASE Shares(t)
      <4>1. slot' = [slot EXCEPT ![AddressOf(t)][task[t].kind] = {[stamp |-> n, conn |-> c]}]
            BY <2>1, <2>2, <3>1 DEF Shares
      <4>2. hosts' = hosts
            BY <1>3 DEF Dials, clientVars
      <4> QED
          BY <1>0, <1>3, <4>1, <4>2 DEF SlotsTyped, Addresses
    <3> QED
        BY <1>3, <3>1
  <2> QED
      BY <1>0, <1>3, <2>2, <2>4, <2>5, <2>6, RestKeepsTypes DEF Dials
<1>4. CASE DialHttps(t, TRUE)
      BY <1>3, <1>4 DEF DialHttps, Shareable
<1>5. CASE DialHttps(t, FALSE)
      BY <1>3, <1>5 DEF DialHttps, Shareable
<1>6. CASE QuicConnect(t)
      BY <1>3, <1>6 DEF QuicConnect, Shareable
<1>7. CASE HandshakeFails(t)
      BY <1>0, <1>7, FailedFits, GoFits, RestKeepsTypes
      DEF HandshakeFails, ConnsTyped, kept, counts
<1>8. CASE H2Send(t)
  <2>1. /\ task[t] \in TaskRecords /\ task[t].pc = "send" /\ task[t].kind = "h2"
        /\ task[t].sent = 0
        BY <1>0, <1>8 DEF H2Send, At, Fit
  <2>2. Fit([task[t] EXCEPT !.pc = "sent", !.sent = 1])
    <3>1. PICK x : x = [task[t] EXCEPT !.pc = "sent", !.sent = 1]
          OBVIOUS
    <3>2. /\ x \in TaskRecords /\ x.pc = "sent" /\ x.sent = 1 /\ x.kind = "h2"
          /\ x.conn = task[t].conn /\ x.out = task[t].out /\ x.req = task[t].req
          BY <2>1, <3>1 DEF TaskRecords, Pcs
    <3>3. Fit(x)
          BY <1>0, <2>1, <3>2 DEF Fit, AnswerFits, Shareable
    <3> QED
        BY <3>1, <3>3
  <2>3. [task[t] EXCEPT !.pc = "sent", !.sent = @ + 1]
          = [task[t] EXCEPT !.pc = "sent", !.sent = 1]
        BY <2>1 DEF TaskRecords
  <2> QED
      BY <1>0, <1>8, <2>2, <2>3, GoFits, RestKeepsTypes DEF H2Send, ConnsTyped, kept, counts
<1>9. CASE QuicSend(t)
  <2>1. Fit([task[t] EXCEPT !.pc = "sent"])
        BY <1>0, <1>9 DEF QuicSend, At, Fit, TaskRecords, Pcs, Kinds, Shareable, AnswerFits
  <2> QED
      BY <1>0, <1>9, <2>1, GoFits, RestKeepsTypes DEF QuicSend, ConnsTyped, kept, counts
<1>10. ASSUME NEW again \in BOOLEAN, Gives(t, again),
              again => task[t].sent = 0 /\ task[t].kind \in Shareable,
              Forget(t) \/ UNCHANGED slot
       PROVE  TypesInv'
  <2>1. TasksFit'
    <3>1. CASE again /\ ~task[t].retried
          BY <1>0, <1>10, <3>1, AnotherFits, GoFits DEF Gives, Rests
    <3>2. CASE ~(again /\ ~task[t].retried)
          BY <1>0, <1>10, <3>2, FailedFits, GoFits DEF Gives
    <3> QED
        BY <3>1, <3>2
  <2>2. UNCHANGED slot \/ SlotsTyped'
    <3>1. CASE Forget(t)
      <4>1. task[t].kind \in Shareable /\ hosts' = hosts
            BY <1>0, <1>10 DEF Gives, Fit, clientVars
      <4>2. {s \in slot[AddressOf(t)][task[t].kind] : s.stamp # task[t].stamp}
              \in SUBSET [stamp : Nat, conn : ConnIds]
            BY <1>0, <4>1 DEF SlotsTyped
      <4> QED
          BY <1>0, <3>1, <4>1, <4>2 DEF Forget, SlotsTyped, Addresses
    <3> QED
        BY <1>10, <3>1
  <2>3. ConnsTyped'
        BY <1>0, <1>10, HoldTyped DEF Gives
  <2> QED
      BY <1>0, <1>10, <2>1, <2>2, <2>3, RestKeepsTypes DEF Gives, counts
<1>11. CASE H2Fails(t)
  <2>1. PICK again \in BOOLEAN : again = (At(t, "send") /\ ~Alive(ConnOf(t)))
        OBVIOUS
  <2>2. Gives(t, again) /\ (again => task[t].sent = 0)
        BY <1>0, <1>11, <2>1 DEF H2Fails, At, Fit
  <2> QED
      BY <1>10, <1>11, <2>2 DEF H2Fails, Shareable
<1>12. CASE QuicFails(t)
  <2>1. PICK again \in BOOLEAN : again = (task[t].reused /\ WorthRebuilding(ConnOf(t)))
        OBVIOUS
  <2>2. Gives(t, again) /\ task[t].sent = 0 /\ task[t].kind \in Shareable
        BY <1>0, <1>12, <2>1 DEF QuicFails, Fit, Shareable
  <2> QED
      BY <1>10, <1>12, <2>2 DEF QuicFails
<1>13. ASSUME NEW reply \in Requests, Respond(t, reply)
       PROVE  TypesInv'
  <2>1. TasksFit' /\ preferred' \in Nat
    <3>1. CASE SameQuestion(task[t].req, reply)
      <4>1. PICK x \in Texts : /\ x = [reply EXCEPT !.id = task[t].req.id]
                               /\ x.id = task[t].req.id
                               /\ x.question = reply.question
        <5>1. reply \in Texts /\ task[t].req \in Texts
              BY <1>0, RequestsAreTexts DEF Fit, TaskRecords
        <5>2. [reply EXCEPT !.id = task[t].req.id] \in Texts
              BY <5>1 DEF Texts
        <5>3. /\ [reply EXCEPT !.id = task[t].req.id].id = task[t].req.id
              /\ [reply EXCEPT !.id = task[t].req.id].question = reply.question
              BY <5>1 DEF Texts
        <5> QED
            BY <5>2, <5>3
      <4>2. Fit(Ended(t, {x}))
            BY <1>0, <3>1, <4>1, EndedFits DEF SameQuestion
      <4> QED
          BY <1>0, <1>13, <3>1, <4>1, <4>2, GoFits, PreferTyped DEF Respond, Answered
    <3>2. CASE ~SameQuestion(task[t].req, reply)
          BY <1>0, <1>13, <3>2, FailedFits, GoFits DEF Respond
    <3> QED
        BY <3>1, <3>2
  <2>2. ConnsTyped'
        BY <1>0, <1>13, HoldTyped DEF Respond
  <2> QED
      BY <1>0, <1>13, <2>1, <2>2, RestKeepsTypes DEF Respond, kept
<1> QED
    BY <1>1, <1>2, <1>4, <1>5, <1>6, <1>7, <1>8, <1>9, <1>11, <1>12, <1>13
    DEF SharedStep

LEMMA RequestOnWire ==
    ASSUME TypesInv, NEW c \in ConnIds, NEW replies \in Seq(Texts), replies # <<>>,
           Serve(c, replies)
    PROVE  TypesInv'
<1>1. /\ conns[c] \in ConnRecords /\ conns[c].wire \in Seq(Texts) /\ conns[c].wire # <<>>
      /\ conns[c].frames \in Seq(Texts) /\ conns[c].extra \in Nat
      BY DEF Serve, TypesInv, ConnsTyped, ConnRecords
<1>2. PICK w \in Seq(Texts), f \in Seq(Texts), n \in Nat :
        /\ w = Tail(conns[c].wire) /\ f = conns[c].frames \o replies
        /\ n = conns[c].extra + Len(replies) - 1
  <2>1. Tail(conns[c].wire) \in Seq(Texts)
        BY <1>1
  <2>2. conns[c].frames \o replies \in Seq(Texts)
        BY <1>1
  <2>3. conns[c].extra + Len(replies) - 1 \in Nat
        BY <1>1
  <2> QED
      BY <2>1, <2>2, <2>3
<1>3. [conns[c] EXCEPT !.wire = w, !.frames = f, !.extra = n] \in ConnRecords
      BY <1>1 DEF ConnRecords
<1>4. conns' = [conns EXCEPT ![c] = [conns[c] EXCEPT !.wire = w, !.frames = f, !.extra = n]]
      BY <1>1, <1>2 DEF Serve, TypesInv, ConnsTyped, ConnRecords
<1>5. ConnsTyped'
      BY <1>3, <1>4 DEF TypesInv, ConnsTyped
<1> QED
    BY <1>5, RestKeepsTypes DEF Serve, kept, TypesInv, ClientTyped, TasksFit

LEMMA OthersKeepTypes ==
    ASSUME TypesInv,
           NetworkStep \/ Hangup \/ \E t \in Queries : Abort(t) \/ \E req \in Requests : Ask(t, req)
    PROVE  TypesInv'
<1>0. /\ TasksFit /\ ClientTyped /\ ConnsTyped /\ IdleTyped /\ SlotsTyped
      /\ preferred \in Nat /\ dials \in Nat
      /\ conns \in [ConnIds -> ConnRecords]
      BY DEF TypesInv, ClientTyped, ConnsTyped
<1>1. ASSUME NEW t \in Queries, Abort(t)
      PROVE  TypesInv'
  <2>1. Fit(Ended(t, {}))
        BY <1>0, EndedFits DEF TasksFit
  <2>2. TasksFit' /\ ConnsTyped'
        BY <1>0, <1>1, <2>1, GoFits, HoldTyped DEF Abort
  <2> QED
      BY <1>0, <1>1, <2>2, RestKeepsTypes DEF Abort, kept, counts
<1>2. ASSUME NEW t \in Queries, NEW req \in Requests, Ask(t, req)
      PROVE  TypesInv'
  <2>1. Fit(Attempt(req, preferred, 0))
        BY <1>0, RequestsAreTexts, AttemptFits
  <2> QED
      BY <1>0, <1>2, <2>1, GoFits, RestKeepsTypes DEF Ask, ConnsTyped, kept, counts
<1>3. CASE Hangup
  <2>1. Closed \in ConnRecords
        BY DEF Closed, ConnRecords
  <2>2. ConnsTyped' /\ IdleTyped' /\ SlotsTyped' /\ TasksFit'
        BY <1>0, <1>3, <2>1
        DEF Hangup, ConnsTyped, IdleTyped, SlotsTyped, TasksFit, Addresses, clientVars
  <2> QED
      BY <1>0, <1>3, <2>2, RestKeepsTypes DEF Hangup, counts
<1>4. ASSUME NEW c \in ConnIds, NEW r \in Requests, Serve(c, <<r>>)
      PROVE  TypesInv'
  <2>1. <<r>> \in Seq(Texts) /\ <<r>> # <<>>
        BY RequestsAreTexts
  <2> QED
      BY <1>4, <2>1, RequestOnWire
<1>5. ASSUME NEW c \in ConnIds, conns[c].wire # <<>>,
             Serve(c, <<Head(conns[c].wire), Head(conns[c].wire)>>)
      PROVE  TypesInv'
  <2>1. conns[c].wire \in Seq(Texts)
        BY <1>0 DEF ConnRecords
  <2>2. PICK h \in Texts : h = Head(conns[c].wire)
        BY <1>5, <2>1
  <2>3. <<h, h>> \in Seq(Texts) /\ <<h, h>> # <<>>
        OBVIOUS
  <2> QED
      BY <1>5, <2>2, <2>3, RequestOnWire
<1>6. ASSUME NEW c \in ConnIds, NEW life \in {"retired", "failed", "lost"}, Break(c, life)
      PROVE  TypesInv'
  <2>1. [conns[c] EXCEPT !.life = life] \in ConnRecords
        BY <1>0 DEF ConnRecords
  <2>2. ConnsTyped'
        BY <1>0, <1>6, <2>1 DEF Break, ConnsTyped
  <2> QED
      BY <1>0, <1>6, <2>2, RestKeepsTypes DEF Break, kept, TasksFit
<1>7. ASSUME NEW a \in Addresses, Elapse(a)
      PROVE  TypesInv'
  <2>1. PICK i \in DOMAIN idle[a] : idle' = [idle EXCEPT ![a][i].age = "old"]
        BY <1>7 DEF Elapse
  <2>2. idle[a] \in Seq(IdleItems) /\ idle[a][i] \in IdleItems
        BY <1>0 DEF IdleTyped
  <2>3. [idle[a][i] EXCEPT !.age = "old"] \in IdleItems
        BY <2>2 DEF IdleItems
  <2>4. [idle[a] EXCEPT ![i].age = "old"] \in Seq(IdleItems)
        BY <2>2, <2>3
  <2>5. IdleTyped'
        BY <1>0, <1>7, <2>1, <2>4 DEF Elapse, IdleTyped, Addresses, clientVars
  <2> QED
      BY <1>0, <1>7, <2>5, RestKeepsTypes DEF Elapse, ConnsTyped, TasksFit, counts
<1>8. ASSUME NEW a \in Addresses, NEW k \in Kinds, BackoffEnds(a, k)
      PROVE  TypesInv'
      BY <1>0, <1>8, RestKeepsTypes DEF BackoffEnds, ConnsTyped, TasksFit, kept, counts
<1> QED
    BY <1>1, <1>2, <1>3, <1>4, <1>5, <1>6, <1>7, <1>8 DEF NetworkStep

LEMMA TypesInitially == ConnInit => TypesInv
<1> SUFFICES ASSUME ConnInit PROVE TypesInv
    OBVIOUS
<1>1. TasksFit
  <2>1. Resting \in TaskRecords
        BY RestingFits DEF Fit
  <2> QED
      BY <2>1, RestingFits DEF ConnInit, TasksFit
<1>2. ClientTyped
      BY ConnectionsAssumption DEF ConnInit, ClientTyped
<1>3. ConnsTyped
  <2>1. Closed \in ConnRecords
        BY DEF Closed, ConnRecords
  <2> QED
      BY <2>1 DEF ConnInit, ConnsTyped
<1>4. IdleTyped /\ SlotsTyped
      BY DEF ConnInit, IdleTyped, SlotsTyped
<1> QED
    BY <1>1, <1>2, <1>3, <1>4 DEF TypesInv

LEMMA TypesKept == TypesInv /\ [ConnNext]_connVars => TypesInv'
<1> SUFFICES ASSUME TypesInv, [ConnNext]_connVars PROVE TypesInv'
    OBVIOUS
<1>1. CASE UNCHANGED connVars
      BY <1>1
      DEF TypesInv, TasksFit, ClientTyped, ConnsTyped, IdleTyped, SlotsTyped, Addresses,
          connVars, clientVars, kept, counts
<1>2. CASE ConnNext
      BY <1>2, UdpKeepsTypes, StreamKeepsTypes, SharedKeepsTypes, OthersKeepTypes
      DEF ConnNext, ExchangeStep
<1> QED
    BY <1>1, <1>2

LEMMA TypesAlways == ConnSpec => []TypesInv
BY TypesInitially, TypesKept, PTL DEF ConnSpec

(***************************************************************************)
(* An exchange returns an answer to its own question, with its own         *)
(* identifier where the transport pairs by it: the reply is compared with  *)
(* the request it is returned for (check_reply, stream_exchange), on       *)
(* whatever connection and after however many retries it was read.         *)
(***************************************************************************)
THEOREM RepliesMatchHolds == ConnSpec => []RepliesMatch
<1>1. TypesInv => RepliesMatch
      BY DEF TypesInv, TasksFit, Fit, AnswerFits, RepliesMatch
<1> QED
    BY <1>1, TypesAlways, PTL

(***************************************************************************)
(* Over HTTP/2 a query is on the wire at most once: the request is sent    *)
(* only from where none was (Sent::Unsent), and after it the exchange ends *)
(* or starts over with another address.                                    *)
(***************************************************************************)
THEOREM SentOnceHolds == ConnSpec => []SentOnce
<1>1. TypesInv => SentOnce
      BY DEF TypesInv, TasksFit, Fit, SentOnce
<1> QED
    BY <1>1, TypesAlways, PTL

-----------------------------------------------------------------------------
(***************************************************************************)
(* The gate and the slots.                                                 *)
(***************************************************************************)
\* A task that leaves a queue leaves the others in it, and the first one first.
LEMMA RemoveFirstKeeps ==
    ASSUME NEW S, NEW q \in Seq(S), NEW u
    PROVE  /\ RemoveFirst(q, u) \in Seq(S)
           /\ \A i \in 1 .. Len(q) : q[i] # u =>
                \E j \in 1 .. Len(RemoveFirst(q, u)) : RemoveFirst(q, u)[j] = q[i]
           /\ Len(q) > 0 /\ q[1] # u =>
                Len(RemoveFirst(q, u)) > 0 /\ RemoveFirst(q, u)[1] = q[1]
<1> DEFINE I == {i \in 1 .. Len(q) : q[i] = u}
<1>1. CASE I = {}
  <2>1. RemoveFirst(q, u) = q
        BY <1>1 DEF RemoveFirst
  <2> QED
      BY <2>1
<1>2. CASE I # {}
  <2>1. PICK n : n = Min(I) /\ n \in I
    <3>1. I \subseteq Nat
          OBVIOUS
    <3> HIDE DEF I
    <3> QED
        BY <1>2, <3>1, LeastNatural
  <2>2. RemoveFirst(q, u) = SubSeq(q, 1, n - 1) \o SubSeq(q, n + 1, Len(q))
        BY <1>2, <2>1 DEF RemoveFirst, RemoveAt, SelectInSeq
  <2>3. n \in 1 .. Len(q) /\ q[n] = u
        BY <2>1
  <2> HIDE DEF I
  <2>4. PICK r : r = RemoveFirst(q, u)
        OBVIOUS
  <2>5. PICK x, y : x = SubSeq(q, 1, n - 1) /\ y = SubSeq(q, n + 1, Len(q))
        OBVIOUS
  <2>6. /\ x \in Seq(S) /\ Len(x) = n - 1
        /\ \A i \in 1 .. n - 1 : x[i] = q[i]
        BY <2>3, <2>5
  <2>7. /\ y \in Seq(S) /\ Len(y) = Len(q) - n
        /\ \A i \in 1 .. Len(q) - n : y[i] = q[n + i]
        BY <2>3, <2>5
  <2>8. r = x \o y
        BY <2>2, <2>4, <2>5
  <2>9. r \in Seq(S) /\ Len(r) = Len(q) - 1
    <3>1. x \in Seq(S) /\ y \in Seq(S)
          BY <2>6, <2>7
    <3>2. r \in Seq(S) /\ Len(r) = Len(x) + Len(y)
          BY <2>8, <3>1
    <3>3. Len(x) = n - 1 /\ Len(y) = Len(q) - n
          BY <2>6, <2>7
    <3> QED
        BY <2>3, <3>2, <3>3
  <2>10. \A i \in 1 .. Len(q) - 1 : r[i] = IF i < n THEN q[i] ELSE q[i + 1]
    <3>1. SUFFICES ASSUME NEW i \in 1 .. Len(q) - 1
                   PROVE  r[i] = IF i < n THEN q[i] ELSE q[i + 1]
          OBVIOUS
    <3>2. r[i] = IF i <= Len(x) THEN x[i] ELSE y[i - Len(x)]
          BY <2>3, <2>6, <2>7, <2>8
    <3>3. CASE i < n
          BY <2>3, <2>6, <3>2, <3>3
    <3>4. CASE ~(i < n)
      <4>1. i - (n - 1) \in 1 .. Len(q) - n /\ n + (i - (n - 1)) = i + 1
            BY <2>3, <3>4
      <4> QED
          BY <2>3, <2>6, <2>7, <3>2, <3>4, <4>1
    <3> QED
        BY <3>3, <3>4
  <2>11. ASSUME NEW i \in 1 .. Len(q), q[i] # u
        PROVE  \E j \in 1 .. Len(r) : r[j] = q[i]
    <3>1. CASE i < n
          BY <2>3, <2>9, <2>10, <3>1
    <3>2. CASE i > n
      <4>1. i - 1 \in 1 .. Len(q) - 1 /\ ~(i - 1 < n) /\ (i - 1) + 1 = i
            BY <2>3, <3>2
      <4>2. r[i - 1] = q[i]
            BY <2>10, <4>1
      <4> QED
          BY <2>9, <4>1, <4>2
    <3> QED
        BY <2>3, <2>11, <3>1, <3>2
  <2>12. ASSUME Len(q) > 0, q[1] # u
        PROVE  Len(r) > 0 /\ r[1] = q[1]
        BY <2>3, <2>9, <2>10, <2>12
  <2> QED
      BY <2>4, <2>9, <2>11, <2>12
<1> QED
    BY <1>1, <1>2

\* The steps of a task, by what they do to the gates and the slots: nothing;
\* forgetting the connection that failed; looking, with the gate or without;
\* ending a dial; leaving the gate.
Quiet(t, r) ==
    /\ UNCHANGED <<slot, gate>> /\ dials' \in {dials, dials + 1}
    /\ r.stamp = 0 \/ (r.stamp = task[t].stamp /\ r.conn = task[t].conn)
    /\ {task[t].pc, r.pc} \cap {"gate", "handshake"} = {}

Forgets(t, r) ==
    /\ Forget(t) /\ UNCHANGED <<gate, dials>>
    /\ task[t].pc \in {"send", "sent"} /\ r.pc \in {"udp", "take", "get", "done"}
    /\ r.stamp = 0

Looks(t, r) ==
    /\ slot' = [slot EXCEPT ![AddressOf(t)][task[t].kind] = Live(AddressOf(t), task[t].kind)]
    /\ UNCHANGED dials
    /\ task[t].pc \in {"get", "gate"}
    /\ \/ /\ r.pc = "gate" /\ task[t].pc = "get"
          /\ gate' = [gate EXCEPT ![AddressOf(t)][task[t].kind] = Append(@, t)]
       \/ /\ r.pc = "handshake" /\ task[t].pc = "gate" /\ Head(AtGate(t)) = t
          /\ Live(AddressOf(t), task[t].kind) = {} /\ UNCHANGED gate
       \/ /\ r.pc \notin {"gate", "handshake"}
          /\ IF task[t].pc = "gate" THEN Leaves(t) ELSE UNCHANGED gate
    /\ r.pc \in {"gate", "handshake"} => /\ r.first = task[t].first /\ r.step = task[t].step
                                         /\ r.kind = task[t].kind
    /\ \/ r.stamp = 0
       \/ \E s \in slot[AddressOf(t)][task[t].kind] : r.stamp = s.stamp /\ r.conn = {s.conn}

EndsDial(t, r) ==
    /\ task[t].pc = "handshake" /\ r.pc \in {"send", "write"}
    /\ dials' = dials + 1 /\ r.stamp = dials + 1 /\ Leaves(t)
    /\ \/ UNCHANGED slot
       \/ \E c \in r.conn :
            slot' = [slot EXCEPT ![AddressOf(t)][task[t].kind] =
                       {[stamp |-> dials + 1, conn |-> c]}]

Quits(t, r) ==
    /\ task[t].pc \in {"gate", "handshake"} /\ r.pc \notin {"gate", "handshake"}
    /\ Leaves(t) /\ r.stamp = 0 /\ UNCHANGED <<slot, dials>>

Moves(t, r) ==
    /\ Go(t, r) /\ r \in TaskRecords /\ UNCHANGED clientVars
    /\ Quiet(t, r) \/ Forgets(t, r) \/ Looks(t, r) \/ EndsDial(t, r) \/ Quits(t, r)

LEMMA UdpMoves ==
    ASSUME TypesInv, NEW t \in Queries,
           UdpStep(t) \/ OutOfTime(t) \/ \E req \in Requests : Ask(t, req)
    PROVE  \E r : Moves(t, r)
<1>0. /\ ClientTyped /\ Fit(task[t]) /\ preferred \in Nat
      /\ task[t].pc = "udp" => task[t].stamp = 0
      BY DEF TypesInv, TasksFit, ClientTyped, Fit
<1>1. ASSUME NEW r, Fit(r), Go(t, r), UNCHANGED <<slot, gate, dials>>, UNCHANGED clientVars,
             r.stamp = 0, r.pc \notin {"gate", "handshake"},
             task[t].pc \notin {"gate", "handshake"}
      PROVE  Moves(t, r)
      BY <1>1 DEF Moves, Quiet, Fit
<1>2. CASE OutOfTime(t)
  <2>1. Fit(Ended(t, {})) /\ Ended(t, {}).pc = "done" /\ Ended(t, {}).stamp = 0
        BY <1>0, EndedFits
  <2>2. task[t].pc \in {"udp", "take", "get"}
        BY <1>0, <1>2, AttemptFits DEF OutOfTime, Fit, TaskRecords
  <2>3. Go(t, Ended(t, {})) /\ UNCHANGED <<slot, gate, dials>> /\ UNCHANGED clientVars
        BY <1>2 DEF OutOfTime, kept, counts
  <2> QED
      BY <1>1, <2>1, <2>2, <2>3
<1>3. CASE UdpTimeout(t)
      BY <1>0, <1>1, <1>3, FailedFits DEF UdpTimeout, At, kept, counts
<1>4. ASSUME NEW reply \in Requests, NEW tc \in BOOLEAN, UdpReply(t, reply, tc)
      PROVE  \E r : Moves(t, r)
  <2>1. /\ UNCHANGED <<slot, gate, dials>> /\ UNCHANGED clientVars
        /\ task[t].pc = "udp"
        BY <1>4 DEF UdpReply, At, kept
  <2>2. CASE ~Matches(task[t].req, reply)
        BY <1>0, <1>1, <1>4, <2>1, <2>2, FailedFits DEF UdpReply
  <2>3. CASE Matches(task[t].req, reply) /\ tc
    <3>1. LET x == [task[t] EXCEPT !.pc = "take"]
          IN  Fit(x) /\ x.pc = "take" /\ x.stamp = 0
          BY <1>0, <2>1 DEF Fit, TaskRecords, Pcs, Kinds, Shareable, AnswerFits
    <3> QED
        BY <1>1, <1>4, <2>1, <2>3, <3>1 DEF UdpReply
  <2>4. CASE Matches(task[t].req, reply) /\ ~tc
    <3>1. reply \in Texts
          BY RequestsAreTexts
    <3>2. /\ Fit(Ended(t, {reply})) /\ Ended(t, {reply}).pc = "done"
          /\ Ended(t, {reply}).stamp = 0
          BY <1>0, <2>4, <3>1, EndedFits DEF Matches, SameQuestion
    <3> QED
        BY <1>1, <1>4, <2>1, <2>4, <3>2 DEF UdpReply, Answered
  <2> QED
      BY <2>2, <2>3, <2>4
<1>5. ASSUME NEW req \in Requests, Ask(t, req)
      PROVE  \E r : Moves(t, r)
  <2>1. LET x == Attempt(req, preferred, 0)
        IN  Fit(x) /\ x.pc \in {"udp", "take", "get"} /\ x.stamp = 0
        BY <1>0, RequestsAreTexts, AttemptFits
  <2> QED
      BY <1>1, <1>5, <2>1 DEF Ask, Rests, kept, counts
<1> QED
    BY <1>2, <1>3, <1>4, <1>5 DEF UdpStep

LEMMA StreamMoves ==
    ASSUME TypesInv, NEW t \in Queries, StreamStep(t)
    PROVE  \E r : Moves(t, r)
<1>0. /\ ClientTyped /\ Fit(task[t]) /\ task[t] \in TaskRecords
      /\ dials \in Nat /\ AddressOf(t) \in Addresses
      /\ idle[AddressOf(t)] \in Seq(IdleItems)
      BY AddressTyped DEF TypesInv, TasksFit, ClientTyped, IdleTyped
<1>1. /\ UNCHANGED <<slot, gate>> /\ UNCHANGED clientVars /\ dials' \in {dials, dials + 1}
      /\ task[t].pc \in {"take", "write", "read", "redial", "dial"}
      BY <1>0
      DEF StreamStep, Take, Write, Read, StreamFails, Redial, Dialed, DialFails, At, kept,
          counts
<1>2. ASSUME NEW r \in TaskRecords, Go(t, r), r.pc \notin {"gate", "handshake"},
             r.stamp = 0 \/ (r.stamp = task[t].stamp /\ r.conn = task[t].conn)
      PROVE  Moves(t, r)
      BY <1>1, <1>2 DEF Moves, Quiet
<1>3. CASE Take(t)
  <2> DEFINE q == idle[AddressOf(t)]
  <2>1. CASE Takes(q)
    <3>1. PICK c \in ConnIds : c = Last(Swept(q)).conn
          BY <1>0, <2>1, SweptTyped DEF IdleItems
    <3>2. LET x == [task[t] EXCEPT !.pc = "write", !.conn = {c}, !.reused = TRUE]
          IN  x \in TaskRecords /\ x.pc = "write" /\ x.stamp = 0
          BY <1>0, <1>3 DEF Take, At, Fit, TaskRecords, Pcs
    <3>3. Go(t, [task[t] EXCEPT !.pc = "write", !.conn = {c}, !.reused = TRUE])
          BY <1>3, <2>1, <3>1 DEF Take, CheckedOut
    <3> QED
        BY <1>2, <3>2, <3>3
  <2>2. CASE ~Takes(q)
    <3>1. LET x == [task[t] EXCEPT !.pc = "redial", !.reused = FALSE]
          IN  x \in TaskRecords /\ x.pc = "redial" /\ x.stamp = 0
          BY <1>0, <1>3 DEF Take, At, Fit, TaskRecords, Pcs
    <3>2. Go(t, [task[t] EXCEPT !.pc = "redial", !.reused = FALSE])
          BY <1>3, <2>2 DEF Take
    <3> QED
        BY <1>2, <3>1, <3>2
  <2> QED
      BY <2>1, <2>2
<1>4. CASE Write(t)
  <2>1. LET x == [task[t] EXCEPT !.pc = "read"]
        IN  /\ x \in TaskRecords /\ x.pc = "read" /\ x.stamp = task[t].stamp
            /\ x.conn = task[t].conn
        BY <1>0 DEF TaskRecords, Pcs
  <2> QED
      BY <1>2, <1>4, <2>1 DEF Write
<1>5. /\ Fit(Failed(t)) /\ Failed(t).pc \in {"udp", "take", "get", "done"}
      /\ Failed(t).stamp = 0
      BY <1>0, FailedFits
<1>6. ASSUME task[t].pc \in {"write", "read"}
      PROVE  /\ AfterBadReply(t) \in TaskRecords /\ AfterFailure(t) \in TaskRecords
             /\ AfterBadReply(t).pc \notin {"gate", "handshake"}
             /\ AfterFailure(t).pc \notin {"gate", "handshake"}
             /\ AfterBadReply(t).stamp = 0 /\ AfterFailure(t).stamp = 0
      BY <1>0, <1>6, AfterFailureFits DEF Fit
<1>7. CASE Read(t)
  <2> DEFINE reply == Head(conns[ConnOf(t)].frames)
  <2>0. task[t].pc = "read"
        BY <1>7 DEF Read, At
  <2>1. CASE Valid(t, reply)
    <3>1. reply \in Texts
      <4>1. ConnOf(t) \in ConnIds
            BY <1>0, <2>0, ConnOfTyped
      <4> QED
          BY <1>7, <4>1 DEF Read, TypesInv, ConnsTyped, ConnRecords
    <3>2. /\ reply.question = task[t].req.question
          /\ task[t].kind # "h2" => reply.id = task[t].req.id
          BY <1>0, <2>0, <2>1
          DEF Valid, Matches, SameQuestion, Fit, TaskRecords, Kinds, Shareable
    <3>3. /\ Fit(Ended(t, {reply})) /\ Ended(t, {reply}).pc = "done"
          /\ Ended(t, {reply}).stamp = 0
          BY <1>0, <3>1, <3>2, EndedFits
    <3> QED
        BY <1>2, <1>7, <2>1, <3>3 DEF Read, Answered, Fit
  <2>2. CASE ~Valid(t, reply)
        BY <1>2, <1>6, <1>7, <2>0, <2>2 DEF Read
  <2> QED
      BY <2>1, <2>2
<1>8. CASE StreamFails(t)
      BY <1>2, <1>6, <1>8 DEF StreamFails
<1>9. CASE Redial(t)
  <2>1. LET x == [task[t] EXCEPT !.pc = "dial"]
        IN  x \in TaskRecords /\ x.pc = "dial" /\ x.stamp = 0
        BY <1>0, <1>9 DEF Redial, At, Fit, TaskRecords, Pcs
  <2> QED
      BY <1>2, <1>5, <1>9, <2>1 DEF Redial, Fit
<1>10. CASE Dialed(t)
  <2>1. PICK c \in ConnIds : c = Fresh
        BY <1>10 DEF Dialed, CanDial, Fresh, Free
  <2>2. LET x == [task[t] EXCEPT !.pc = "write", !.conn = {c}]
        IN  x \in TaskRecords /\ x.pc = "write" /\ x.stamp = 0
        BY <1>0, <1>10 DEF Dialed, At, Fit, TaskRecords, Pcs
  <2> QED
      BY <1>2, <1>10, <2>1, <2>2 DEF Dialed
<1>11. CASE DialFails(t)
       BY <1>2, <1>5, <1>11 DEF DialFails, Fit
<1> QED
    BY <1>3, <1>4, <1>7, <1>8, <1>9, <1>10, <1>11 DEF StreamStep

\* Where a stamp comes from.
LEMMA ReadyStamp ==
    ASSUME TypesInv, NEW t \in Queries, task[t].pc \in {"get", "gate"},
           NEW r \in Ready(t)
    PROVE  \/ r.next.stamp = 0
           \/ \E s \in slot[AddressOf(t)][task[t].kind] :
                r.next.stamp = s.stamp /\ r.next.conn = {s.conn}
<1> DEFINE a == AddressOf(t)
           k == task[t].kind
           q == idle[a]
<1>0. Fit(task[t]) /\ task[t] \in TaskRecords
      BY DEF TypesInv, TasksFit
<1>1. CASE Live(a, k) # {}
  <2>1. PICK s \in Live(a, k) : s = CHOOSE x \in Live(a, k) : TRUE
        BY <1>1
  <2>2. r = [next |-> [task[t] EXCEPT !.pc = "send", !.conn = {s.conn},
                                      !.stamp = s.stamp, !.reused = TRUE],
             rest |-> q]
        BY <1>1, <2>1 DEF Ready
  <2>3. r.next.stamp = s.stamp /\ r.next.conn = {s.conn}
        BY <1>0, <2>2 DEF TaskRecords
  <2> QED
      BY <2>3 DEF Live
<1>2. CASE Live(a, k) = {}
  <2>1. r = [next |-> CheckedOut(t, q), rest |-> Rest(q)]
        BY <1>2 DEF Ready
  <2>2. r.next.stamp = task[t].stamp
        BY <1>0, <2>1 DEF CheckedOut, TaskRecords
  <2> QED
      BY <1>0, <2>2 DEF Fit
<1> QED
    BY <1>1, <1>2

LEMMA NothingReadyMeans ==
    ASSUME NEW t \in Queries, NothingReady(t)
    PROVE  /\ Live(AddressOf(t), task[t].kind) = {}
           /\ slot' = [slot EXCEPT ![AddressOf(t)][task[t].kind] =
                         Live(AddressOf(t), task[t].kind)]
<1>1. Ready(t) = {}
      BY DEF NothingReady
<1>2. Live(AddressOf(t), task[t].kind) = {}
      BY <1>1 DEF Ready
<1> QED
    BY <1>2 DEF NothingReady, Looked

LEMMA SharedMoves ==
    ASSUME TypesInv, NEW t \in Queries, SharedStep(t) \/ Abort(t)
    PROVE  \E r : Moves(t, r)
<1>0. /\ ClientTyped /\ Fit(task[t]) /\ task[t] \in TaskRecords /\ dials \in Nat
      BY DEF TypesInv, TasksFit, ClientTyped
<1>1. /\ Fit(Failed(t)) /\ Failed(t).pc \in {"udp", "take", "get", "done"}
      /\ Failed(t).stamp = 0 /\ Failed(t) \in TaskRecords
      BY <1>0, FailedFits DEF Fit
<1>2. CASE Get(t)
  <2>0. /\ task[t].pc = "get" /\ UNCHANGED clientVars /\ UNCHANGED dials
        BY <1>2 DEF Get, At, counts
  <2>1. ASSUME NEW r \in Ready(t), Looked(t, r.rest), Go(t, r.next), UNCHANGED gate
        PROVE  Moves(t, r.next)
    <3>1. r.next \in TaskRecords /\ r.next.pc \in {"send", "write"}
          BY <2>0, ReadyFits DEF Fit
    <3>2. Looks(t, r.next)
          BY <2>0, <2>1, <3>1, ReadyStamp DEF Looks, Looked
    <3> QED
        BY <2>0, <2>1, <3>1, <3>2 DEF Moves
  <2>2. ASSUME NothingReady(t), Go(t, [task[t] EXCEPT !.pc = "gate"]),
               gate' = [gate EXCEPT ![AddressOf(t)][task[t].kind] = Append(@, t)]
        PROVE  Moves(t, [task[t] EXCEPT !.pc = "gate"])
    <3>1. PICK x : x = [task[t] EXCEPT !.pc = "gate"]
          OBVIOUS
    <3>2. /\ x \in TaskRecords /\ x.pc = "gate" /\ x.stamp = 0
          /\ x.first = task[t].first /\ x.step = task[t].step /\ x.kind = task[t].kind
          BY <1>0, <2>0, <3>1 DEF Fit, TaskRecords, Pcs
    <3>3. Looks(t, x)
          BY <2>0, <2>2, <3>2, NothingReadyMeans DEF Looks
    <3> QED
        BY <2>0, <2>2, <3>1, <3>2, <3>3 DEF Moves
  <2>3. ASSUME Go(t, Failed(t)), UNCHANGED <<kept, gate>>
        PROVE  Moves(t, Failed(t))
    <3>1. Quiet(t, Failed(t))
          BY <1>1, <2>0, <2>3 DEF Quiet, kept
    <3> QED
        BY <1>1, <2>0, <2>3, <3>1 DEF Moves
  <2> QED
      BY <1>2, <2>1, <2>2, <2>3 DEF Get
<1>3. CASE EnterGate(t)
  <2>0. /\ task[t].pc = "gate" /\ UNCHANGED clientVars /\ UNCHANGED dials
        /\ Head(AtGate(t)) = t
        BY <1>3 DEF EnterGate, At, counts
  <2>1. ASSUME NEW r \in Ready(t), Looked(t, r.rest), Go(t, r.next), Leaves(t)
        PROVE  Moves(t, r.next)
    <3>1. r.next \in TaskRecords /\ r.next.pc \in {"send", "write"}
          BY <2>0, ReadyFits DEF Fit
    <3>2. Looks(t, r.next)
          BY <2>0, <2>1, <3>1, ReadyStamp DEF Looks, Looked
    <3> QED
        BY <2>0, <2>1, <3>1, <3>2 DEF Moves
  <2>2. ASSUME NothingReady(t), Go(t, [task[t] EXCEPT !.pc = "handshake"]), UNCHANGED gate
        PROVE  Moves(t, [task[t] EXCEPT !.pc = "handshake"])
    <3>1. PICK x : x = [task[t] EXCEPT !.pc = "handshake"]
          OBVIOUS
    <3>2. /\ x \in TaskRecords /\ x.pc = "handshake" /\ x.stamp = 0
          /\ x.first = task[t].first /\ x.step = task[t].step /\ x.kind = task[t].kind
          BY <1>0, <2>0, <3>1 DEF Fit, TaskRecords, Pcs
    <3>3. Looks(t, x)
          BY <2>0, <2>2, <3>2, NothingReadyMeans DEF Looks
    <3> QED
        BY <2>0, <2>2, <3>1, <3>2, <3>3 DEF Moves
  <2>3. ASSUME NothingReady(t), Leaves(t), Go(t, Failed(t))
        PROVE  Moves(t, Failed(t))
    <3>1. Looks(t, Failed(t))
          BY <1>1, <2>0, <2>3, NothingReadyMeans DEF Looks
    <3> QED
        BY <1>1, <2>0, <2>3, <3>1 DEF Moves
  <2> QED
      BY <1>3, <2>1, <2>2, <2>3 DEF EnterGate
<1>4. ASSUME NEW stage \in {"send", "write"}, Dials(t, stage), Shares(t) \/ UNCHANGED slot
      PROVE  \E r : Moves(t, r)
  <2>1. PICK c \in ConnIds : c = Fresh
        BY <1>4 DEF Dials, CanDial, Fresh, Free
  <2>2. PICK n \in Nat : n = dials + 1
        BY <1>0
  <2>3. PICK x : x = [task[t] EXCEPT !.pc = stage, !.conn = {c}, !.stamp = n,
                                     !.reused = FALSE]
        OBVIOUS
  <2>4. x \in TaskRecords /\ x.pc = stage /\ x.stamp = n /\ x.conn = {c}
        BY <1>0, <2>3 DEF TaskRecords, Pcs
  <2>5. Go(t, x)
        BY <1>4, <2>1, <2>2, <2>3 DEF Dials
  <2>6. EndsDial(t, x)
        BY <1>4, <2>1, <2>2, <2>4 DEF Dials, At, EndsDial, Shares
  <2> QED
      BY <1>4, <2>4, <2>5, <2>6 DEF Dials, Moves
<1>5. CASE DialHttps(t, TRUE) \/ DialHttps(t, FALSE) \/ QuicConnect(t)
      BY <1>4, <1>5 DEF DialHttps, QuicConnect
<1>6. CASE HandshakeFails(t)
  <2>1. Quits(t, Failed(t))
        BY <1>1, <1>6 DEF HandshakeFails, At, Quits, kept, counts
  <2> QED
      BY <1>1, <1>6, <2>1 DEF HandshakeFails, Moves
<1>7. CASE H2Send(t)
  <2>1. PICK n \in Nat : n = task[t].sent + 1
        BY <1>0 DEF TaskRecords
  <2>2. PICK x : x = [task[t] EXCEPT !.pc = "sent", !.sent = n]
        OBVIOUS
  <2>3. /\ x \in TaskRecords /\ x.pc = "sent" /\ x.stamp = task[t].stamp
        /\ x.conn = task[t].conn
        BY <1>0, <2>2 DEF TaskRecords, Pcs
  <2>4. Go(t, x)
        BY <1>0, <1>7, <2>1, <2>2 DEF H2Send, TaskRecords
  <2>5. Quiet(t, x)
        BY <1>7, <2>3 DEF H2Send, At, Quiet, kept, counts
  <2> QED
      BY <1>7, <2>3, <2>4, <2>5 DEF H2Send, Moves
<1>8. CASE QuicSend(t)
  <2>1. PICK x : x = [task[t] EXCEPT !.pc = "sent"]
        OBVIOUS
  <2>2. /\ x \in TaskRecords /\ x.pc = "sent" /\ x.stamp = task[t].stamp
        /\ x.conn = task[t].conn
        BY <1>0, <2>1 DEF TaskRecords, Pcs
  <2>3. Quiet(t, x)
        BY <1>8, <2>2 DEF QuicSend, At, Quiet, kept, counts
  <2> QED
      BY <1>8, <2>1, <2>2, <2>3 DEF QuicSend, Moves
<1>9. ASSUME NEW again \in BOOLEAN, Gives(t, again), Forget(t) \/ UNCHANGED slot,
             again => task[t].sent = 0 /\ task[t].kind \in Shareable
      PROVE  \E r : Moves(t, r)
  <2>1. PICK r : /\ Go(t, r) /\ r \in TaskRecords /\ r.stamp = 0
                 /\ r.pc \in {"udp", "take", "get", "done"}
    <3>1. CASE again /\ ~task[t].retried
          BY <1>0, <1>9, <3>1, AnotherFits DEF Gives, Rests, Fit
    <3>2. CASE ~(again /\ ~task[t].retried)
          BY <1>1, <1>9, <3>2 DEF Gives
    <3> QED
        BY <3>1, <3>2
  <2>2. Forgets(t, r) \/ Quiet(t, r)
        BY <1>9, <2>1 DEF Gives, Forgets, Quiet, counts
  <2> QED
      BY <1>9, <2>1, <2>2 DEF Gives, Moves
<1>10. CASE H2Fails(t)
  <2>1. PICK again \in BOOLEAN : again = (At(t, "send") /\ ~Alive(ConnOf(t)))
        OBVIOUS
  <2>2. Gives(t, again) /\ (again => task[t].sent = 0)
        BY <1>0, <1>10, <2>1 DEF H2Fails, At, Fit
  <2> QED
      BY <1>9, <1>10, <2>2 DEF H2Fails, Shareable
<1>11. CASE QuicFails(t)
  <2>1. PICK again \in BOOLEAN : again = (task[t].reused /\ WorthRebuilding(ConnOf(t)))
        OBVIOUS
  <2>2. Gives(t, again) /\ task[t].sent = 0 /\ task[t].kind \in Shareable
        BY <1>0, <1>11, <2>1 DEF QuicFails, Fit, Shareable
  <2> QED
      BY <1>9, <1>11, <2>2 DEF QuicFails
<1>12. ASSUME NEW reply \in Requests, Respond(t, reply)
       PROVE  \E r : Moves(t, r)
  <2>0. /\ task[t].pc = "sent" /\ UNCHANGED <<slot, gate, dials>> /\ UNCHANGED clientVars
        BY <1>12 DEF Respond, At, kept
  <2>1. PICK r : /\ Go(t, r) /\ r \in TaskRecords /\ r.stamp = 0
                 /\ r.pc \in {"udp", "take", "get", "done"}
    <3>1. CASE SameQuestion(task[t].req, reply)
      <4>1. /\ reply \in Texts /\ task[t].req \in Texts
            BY <1>0, RequestsAreTexts DEF Fit, TaskRecords
      <4>2. [reply EXCEPT !.id = task[t].req.id] \in Texts
            BY <4>1 DEF Texts
      <4>3. /\ [reply EXCEPT !.id = task[t].req.id].id = task[t].req.id
            /\ [reply EXCEPT !.id = task[t].req.id].question = reply.question
            BY <4>1 DEF Texts
      <4>4. PICK x \in Texts : /\ x = [reply EXCEPT !.id = task[t].req.id]
                               /\ x.id = task[t].req.id
                               /\ x.question = reply.question
            BY <4>2, <4>3
      <4>5. /\ Fit(Ended(t, {x})) /\ Ended(t, {x}).pc = "done" /\ Ended(t, {x}).stamp = 0
            BY <1>0, <3>1, <4>4, EndedFits DEF SameQuestion
      <4> QED
          BY <1>12, <3>1, <4>4, <4>5 DEF Respond, Answered, Fit
    <3>2. CASE ~SameQuestion(task[t].req, reply)
          BY <1>1, <1>12, <3>2 DEF Respond
    <3> QED
        BY <3>1, <3>2
  <2>2. Quiet(t, r)
        BY <2>0, <2>1 DEF Quiet
  <2> QED
      BY <2>0, <2>1, <2>2 DEF Moves
<1>13. CASE Abort(t)
  <2>1. /\ Fit(Ended(t, {})) /\ Ended(t, {}).pc = "done" /\ Ended(t, {}).stamp = 0
        /\ Ended(t, {}) \in TaskRecords
        BY <1>0, EndedFits DEF Fit
  <2>2. Quiet(t, Ended(t, {})) \/ Quits(t, Ended(t, {}))
        BY <1>13, <2>1 DEF Abort, Quiet, Quits, kept, counts
  <2> QED
      BY <1>13, <2>1, <2>2 DEF Abort, Moves
<1> QED
    BY <1>2, <1>3, <1>5, <1>6, <1>7, <1>8, <1>10, <1>11, <1>12, <1>13 DEF SharedStep

(***************************************************************************)
(* A task at the gate is in its queue; one that dials is first in it, and  *)
(* the slot it dials for stays empty.                                      *)
(***************************************************************************)
GatesTyped == gate \in [Addresses -> [Shareable -> Seq(Queries)]]

Queued(t) == \E i \in 1 .. Len(AtGate(t)) : AtGate(t)[i] = t

DialsAlone(t) ==
    Len(AtGate(t)) > 0 /\ AtGate(t)[1] = t /\ slot[AddressOf(t)][task[t].kind] = {}

GateInv ==
    /\ GatesTyped
    /\ \A t \in Queries : task[t].pc \in {"gate", "handshake"} => Queued(t)
    /\ \A t \in Queries : task[t].pc = "handshake" => DialsAlone(t)

(***************************************************************************)
(* A stamp names one connection, in the slots and with the tasks.          *)
(***************************************************************************)
StampInv ==
    /\ \A t \in Queries : task[t].stamp <= dials
    /\ \A a \in Addresses, k \in Shareable : \A s \in slot[a][k] :
         /\ s.stamp > 0 /\ s.stamp <= dials
         /\ \A b \in Addresses, j \in Shareable : \A x \in slot[b][j] :
              x.stamp = s.stamp => x.conn = s.conn
         /\ \A t \in Queries : task[t].stamp = s.stamp => s.conn \in task[t].conn

LEMMA StampsKeptByMoves ==
    ASSUME TypesInv, TypesInv', StampInv, NEW t \in Queries, NEW r, Moves(t, r)
    PROVE  StampInv'
<1>0. /\ task \in [Queries -> TaskRecords] /\ r \in TaskRecords
      /\ \A u \in Queries : task[u].stamp \in Nat
      /\ r.stamp \in Nat /\ dials \in Nat
      /\ AddressOf(t) \in Addresses /\ Addresses' = Addresses
      /\ slot \in [Addresses -> [Shareable -> SUBSET [stamp : Nat, conn : ConnIds]]]
      BY AddressTyped
      DEF TypesInv, TasksFit, TaskRecords, ClientTyped, SlotsTyped, Moves, Addresses,
          clientVars
<1>1. \A u \in Queries : task'[u] = IF u = t THEN r ELSE task[u]
      BY <1>0 DEF Moves, Go
<1>2. ASSUME \A a \in Addresses, k \in Shareable : slot'[a][k] \subseteq slot[a][k],
             dials' \in {dials, dials + 1},
             \/ r.stamp = 0
             \/ r.stamp = task[t].stamp /\ r.conn = task[t].conn
             \/ \E a \in Addresses, k \in Shareable : \E s \in slot[a][k] :
                  r.stamp = s.stamp /\ r.conn = {s.conn}
      PROVE  StampInv'
  <2>1. r.stamp <= dials
        BY <1>0, <1>2 DEF StampInv
  <2>2. \A u \in Queries : task'[u].stamp <= dials'
        BY <1>0, <1>1, <1>2, <2>1 DEF StampInv
  <2>3. ASSUME NEW a \in Addresses, NEW k \in Shareable, NEW s \in slot'[a][k]
        PROVE  /\ s.stamp > 0 /\ s.stamp <= dials'
               /\ \A b \in Addresses, j \in Shareable : \A x \in slot'[b][j] :
                    x.stamp = s.stamp => x.conn = s.conn
               /\ \A u \in Queries : task'[u].stamp = s.stamp => s.conn \in task'[u].conn
    <3>1. s \in slot[a][k] /\ s.stamp \in Nat
          BY <1>0, <1>2
    <3>2. s.stamp > 0 /\ s.stamp <= dials'
          BY <1>0, <1>2, <3>1 DEF StampInv
    <3>3. \A b \in Addresses, j \in Shareable : \A x \in slot'[b][j] :
            x.stamp = s.stamp => x.conn = s.conn
          BY <1>2, <3>1 DEF StampInv
    <3>4. r.stamp = s.stamp => s.conn \in r.conn
          BY <1>2, <3>1, <3>2 DEF StampInv
    <3> QED
        BY <1>1, <3>1, <3>2, <3>3, <3>4 DEF StampInv
  <2> QED
      BY <1>0, <2>2, <2>3 DEF StampInv
<1>3. CASE Quiet(t, r) \/ Quits(t, r)
      BY <1>2, <1>3 DEF Quiet, Quits
<1>4. CASE Forgets(t, r)
  <2>1. task[t].kind \in Shareable
        BY <1>4 DEF Forgets, TypesInv, TasksFit, Fit
  <2>2. \A a \in Addresses, k \in Shareable : slot'[a][k] \subseteq slot[a][k]
        BY <1>0, <1>4, <2>1 DEF Forgets, Forget
  <2> QED
      BY <1>2, <1>4, <2>2 DEF Forgets
<1>5. CASE Looks(t, r)
  <2>1. task[t].kind \in Shareable
        BY <1>5 DEF Looks, TypesInv, TasksFit, Fit
  <2>2. \A a \in Addresses, k \in Shareable : slot'[a][k] \subseteq slot[a][k]
        BY <1>0, <1>5, <2>1 DEF Looks, Live
  <2> QED
      BY <1>0, <1>2, <1>5, <2>1, <2>2 DEF Looks
<1>6. CASE EndsDial(t, r)
  <2>0. task[t].kind \in Shareable /\ dials' = dials + 1 /\ r.stamp = dials + 1
        BY <1>6 DEF EndsDial, TypesInv, TasksFit, Fit
  <2>1. \A u \in Queries : task'[u].stamp <= dials'
        BY <1>0, <1>1, <2>0 DEF StampInv
  <2>2. \A a \in Addresses, k \in Shareable : \A s \in slot'[a][k] :
          \/ s \in slot[a][k]
          \/ s.stamp = dials + 1 /\ r.conn # {} /\ \E c \in r.conn :
               /\ s.conn = c
               /\ slot' = [slot EXCEPT ![AddressOf(t)][task[t].kind] =
                             {[stamp |-> dials + 1, conn |-> c]}]
        BY <1>0, <1>6, <2>0 DEF EndsDial
  <2>3. ASSUME NEW a \in Addresses, NEW k \in Shareable, NEW s \in slot'[a][k]
        PROVE  /\ s.stamp > 0 /\ s.stamp <= dials'
               /\ \A b \in Addresses, j \in Shareable : \A x \in slot'[b][j] :
                    x.stamp = s.stamp => x.conn = s.conn
               /\ \A u \in Queries : task'[u].stamp = s.stamp => s.conn \in task'[u].conn
    <3>1. CASE s \in slot[a][k]
      <4>1. s.stamp \in Nat /\ s.stamp > 0 /\ s.stamp <= dials /\ s.stamp # dials + 1
            BY <1>0, <3>1 DEF StampInv
      <4>2. \A b \in Addresses, j \in Shareable : \A x \in slot'[b][j] :
              x.stamp = s.stamp => x.conn = s.conn
            BY <2>2, <3>1, <4>1 DEF StampInv
      <4>3. \A u \in Queries : task'[u].stamp = s.stamp => s.conn \in task'[u].conn
            BY <1>1, <2>0, <3>1, <4>1 DEF StampInv
      <4> QED
          BY <1>0, <2>0, <4>1, <4>2, <4>3
    <3>2. CASE s \notin slot[a][k]
      <4>1. PICK c \in r.conn :
              /\ s.stamp = dials + 1 /\ s.conn = c
              /\ slot' = [slot EXCEPT ![AddressOf(t)][task[t].kind] =
                            {[stamp |-> dials + 1, conn |-> c]}]
            BY <2>2, <3>2
      <4>2. \A b \in Addresses, j \in Shareable : \A x \in slot'[b][j] :
              x \in slot[b][j] \/ x = [stamp |-> dials + 1, conn |-> c]
            BY <1>0, <2>0, <4>1
      <4>3. \A b \in Addresses, j \in Shareable : \A x \in slot[b][j] :
              x.stamp # dials + 1
            BY <1>0 DEF StampInv
      <4>4. \A b \in Addresses, j \in Shareable : \A x \in slot'[b][j] :
              x.stamp = s.stamp => x.conn = s.conn
            BY <4>1, <4>2, <4>3
      <4>5. \A u \in Queries : u # t => task[u].stamp # dials + 1
            BY <1>0 DEF StampInv
      <4>6. \A u \in Queries : task'[u].stamp = s.stamp => s.conn \in task'[u].conn
            BY <1>1, <4>1, <4>5
      <4> QED
          BY <1>0, <2>0, <4>1, <4>4, <4>6
    <3> QED
        BY <3>1, <3>2
  <2> QED
      BY <1>0, <2>1, <2>3 DEF StampInv
<1> QED
    BY <1>3, <1>4, <1>5, <1>6 DEF Moves

\* A task comes and goes behind the one that is first.
LEMMA OthersStay ==
    ASSUME GatesTyped, hosts' = hosts, NEW t \in Queries,
           NEW a \in Addresses, NEW k \in Shareable,
           \/ gate' = gate
           \/ gate' = [gate EXCEPT ![a][k] = Append(@, t)]
           \/ gate' = [gate EXCEPT ![a][k] = RemoveFirst(@, t)]
    PROVE  /\ GatesTyped'
           /\ \A b \in Addresses, j \in Shareable, u \in Queries : u # t =>
                /\ (\E i \in 1 .. Len(gate[b][j]) : gate[b][j][i] = u)
                     => \E i \in 1 .. Len(gate'[b][j]) : gate'[b][j][i] = u
                /\ Len(gate[b][j]) > 0 /\ gate[b][j][1] = u
                     => Len(gate'[b][j]) > 0 /\ gate'[b][j][1] = u
<1>0. /\ gate \in [Addresses -> [Shareable -> Seq(Queries)]] /\ Addresses' = Addresses
      /\ gate[a][k] \in Seq(Queries)
      BY DEF GatesTyped, Addresses
<1>1. CASE gate' = gate
      BY <1>0, <1>1 DEF GatesTyped
<1>2. ASSUME NEW q \in Seq(Queries), gate' = [gate EXCEPT ![a][k] = q],
             \A u \in Queries : u # t =>
                /\ (\E i \in 1 .. Len(gate[a][k]) : gate[a][k][i] = u)
                     => \E i \in 1 .. Len(q) : q[i] = u
                /\ Len(gate[a][k]) > 0 /\ gate[a][k][1] = u
                     => Len(q) > 0 /\ q[1] = u
      PROVE  /\ GatesTyped'
             /\ \A b \in Addresses, j \in Shareable, u \in Queries : u # t =>
                  /\ (\E i \in 1 .. Len(gate[b][j]) : gate[b][j][i] = u)
                       => \E i \in 1 .. Len(gate'[b][j]) : gate'[b][j][i] = u
                  /\ Len(gate[b][j]) > 0 /\ gate[b][j][1] = u
                       => Len(gate'[b][j]) > 0 /\ gate'[b][j][1] = u
  <2>1. GatesTyped'
        BY <1>0, <1>2 DEF GatesTyped
  <2>2. \A b \in Addresses, j \in Shareable :
          gate'[b][j] = IF b = a /\ j = k THEN q ELSE gate[b][j]
        BY <1>0, <1>2
  <2> QED
      BY <1>2, <2>1, <2>2
<1>3. CASE gate' = [gate EXCEPT ![a][k] = Append(@, t)]
  <2>0. PICK g \in Seq(Queries) : g = gate[a][k]
        BY <1>0
  <2>1. PICK q : q = Append(g, t)
        OBVIOUS
  <2>2. /\ q \in Seq(Queries) /\ Len(q) = Len(g) + 1
        /\ \A i \in 1 .. Len(g) : q[i] = g[i]
        BY <2>1
  <2>3. \A u \in Queries : u # t =>
          /\ (\E i \in 1 .. Len(gate[a][k]) : gate[a][k][i] = u)
               => \E i \in 1 .. Len(q) : q[i] = u
          /\ Len(gate[a][k]) > 0 /\ gate[a][k][1] = u
               => Len(q) > 0 /\ q[1] = u
    <3>1. ASSUME NEW u, NEW i \in 1 .. Len(g), g[i] = u
          PROVE  i \in 1 .. Len(q) /\ q[i] = u
          BY <2>2, <3>1
    <3>2. ASSUME NEW u, Len(g) > 0, g[1] = u
          PROVE  Len(q) > 0 /\ q[1] = u
          BY <2>2, <3>2
    <3> QED
        BY <2>0, <3>1, <3>2
  <2>4. gate' = [gate EXCEPT ![a][k] = q]
        BY <1>3, <2>0, <2>1
  <2> QED
      BY <1>2, <2>2, <2>3, <2>4
<1>4. CASE gate' = [gate EXCEPT ![a][k] = RemoveFirst(@, t)]
  <2>1. PICK q \in Seq(Queries) : q = RemoveFirst(gate[a][k], t)
        BY <1>0, RemoveFirstKeeps
  <2>2. \A u \in Queries : u # t =>
          /\ (\E i \in 1 .. Len(gate[a][k]) : gate[a][k][i] = u)
               => \E i \in 1 .. Len(q) : q[i] = u
          /\ Len(gate[a][k]) > 0 /\ gate[a][k][1] = u
               => Len(q) > 0 /\ q[1] = u
        BY <1>0, <2>1, RemoveFirstKeeps
  <2>3. gate' = [gate EXCEPT ![a][k] = q]
        BY <1>4, <2>1
  <2> QED
      BY <1>2, <2>2, <2>3
<1> QED
    BY <1>1, <1>3, <1>4

LEMMA GatesKeptByMoves ==
    ASSUME TypesInv, TypesInv', GateInv, NEW t \in Queries, NEW r, Moves(t, r)
    PROVE  GateInv'
<1> DEFINE a == AddressOf(t)
           k == task[t].kind
<1>0. /\ task \in [Queries -> TaskRecords] /\ r \in TaskRecords
      /\ \A u \in Queries : AddressOf(u) \in Addresses
      /\ Addresses' = Addresses /\ hosts' = hosts
      /\ slot \in [Addresses -> [Shareable -> SUBSET [stamp : Nat, conn : ConnIds]]]
      /\ GatesTyped /\ gate \in [Addresses -> [Shareable -> Seq(Queries)]]
      BY AddressTyped
      DEF TypesInv, TasksFit, SlotsTyped, Moves, Addresses, clientVars, GateInv, GatesTyped
<1>1. \A u \in Queries : task'[u] = IF u = t THEN r ELSE task[u]
      BY <1>0 DEF Moves, Go
<1>2. \A u \in Queries :
        task[u].pc \in {"get", "gate", "handshake", "send", "sent"} => task[u].kind \in Shareable
      BY DEF TypesInv, TasksFit, Fit
<1>3. /\ GatesTyped'
      /\ \A b \in Addresses, j \in Shareable, u \in Queries : u # t =>
           /\ (\E i \in 1 .. Len(gate[b][j]) : gate[b][j][i] = u)
                => \E i \in 1 .. Len(gate'[b][j]) : gate'[b][j][i] = u
           /\ Len(gate[b][j]) > 0 /\ gate[b][j][1] = u
                => Len(gate'[b][j]) > 0 /\ gate'[b][j][1] = u
  <2>1. CASE gate' = gate
        BY <1>0, <2>1 DEF GatesTyped
  <2>2. CASE gate' # gate
    <3>1. /\ k \in Shareable
          /\ \/ gate' = [gate EXCEPT ![a][k] = Append(@, t)]
             \/ gate' = [gate EXCEPT ![a][k] = RemoveFirst(@, t)]
          BY <1>2, <2>2 DEF Moves, Quiet, Forgets, Looks, EndsDial, Quits, Leaves
    <3>2. PICK b \in Addresses, j \in Shareable : b = a /\ j = k
          BY <1>0, <3>1
    <3>3. \/ gate' = [gate EXCEPT ![b][j] = Append(@, t)]
          \/ gate' = [gate EXCEPT ![b][j] = RemoveFirst(@, t)]
          BY <3>1, <3>2
    <3>4. GatesTyped /\ hosts' = hosts
          BY <1>0
    <3> QED
        BY <3>3, <3>4, OthersStay
  <2> QED
      BY <2>1, <2>2
<1>4. ASSUME NEW u \in Queries, u # t
      PROVE  /\ task'[u].pc \in {"gate", "handshake"} => Queued(u)'
             /\ task'[u].pc = "handshake" => DialsAlone(u)'
  <2>1. PICK b, j : b = AddressOf(u) /\ j = task[u].kind
        OBVIOUS
  <2>2. b = AddressOf(u)' /\ j = task'[u].kind /\ task'[u] = task[u]
        BY <1>0, <1>1, <1>4, <2>1 DEF AddressOf
  <2>3. CASE task[u].pc \in {"gate", "handshake"}
    <3>1. b \in Addresses /\ j \in Shareable
          BY <1>0, <1>2, <2>1, <2>3
    <3>2. Queued(u)'
      <4>1. \E i \in 1 .. Len(gate[b][j]) : gate[b][j][i] = u
            BY <2>1, <2>3 DEF GateInv, Queued, AtGate
      <4>2. \E i \in 1 .. Len(gate'[b][j]) : gate'[b][j][i] = u
            BY <1>3, <1>4, <3>1, <4>1
      <4> QED
          BY <2>2, <4>2 DEF Queued, AtGate
    <3>3. ASSUME task[u].pc = "handshake"
          PROVE  DialsAlone(u)'
      <4>1. Len(gate[b][j]) > 0 /\ gate[b][j][1] = u /\ slot[b][j] = {}
            BY <2>1, <3>3 DEF GateInv, DialsAlone, AtGate
      <4>2. Len(gate'[b][j]) > 0 /\ gate'[b][j][1] = u
            BY <1>3, <1>4, <3>1, <4>1
      <4>3. slot'[b][j] = {}
        <5>1. CASE Quiet(t, r) \/ Quits(t, r)
              BY <4>1, <5>1 DEF Quiet, Quits
        <5>2. CASE Forgets(t, r)
              BY <1>0, <1>2, <3>1, <4>1, <5>2 DEF Forgets, Forget
        <5>3. CASE Looks(t, r)
              BY <1>0, <1>2, <3>1, <4>1, <5>3 DEF Looks, Live
        <5>4. CASE EndsDial(t, r)
          <6>1. a \in Addresses /\ k \in Shareable /\ gate[a][k][1] = t
                BY <1>0, <1>2, <5>4 DEF EndsDial, GateInv, DialsAlone, AtGate
          <6>2. ~(a = b /\ k = j)
                BY <1>4, <4>1, <6>1
          <6>3. ASSUME NEW x, slot' = [slot EXCEPT ![a][k] = x]
                PROVE  slot'[b][j] = slot[b][j]
            <7>1. CASE b = a
                  BY <1>0, <3>1, <6>1, <6>2, <6>3, <7>1
            <7>2. CASE b # a
                  BY <1>0, <3>1, <6>1, <6>3, <7>2
            <7> QED
                BY <7>1, <7>2
          <6> QED
              BY <4>1, <5>4, <6>3 DEF EndsDial
        <5> QED
            BY <5>1, <5>2, <5>3, <5>4 DEF Moves
      <4> QED
          BY <2>2, <4>2, <4>3 DEF DialsAlone, AtGate
    <3> QED
        BY <2>2, <3>2, <3>3
  <2> QED
      BY <2>2, <2>3
<1>5. /\ task'[t].pc \in {"gate", "handshake"} => Queued(t)'
      /\ task'[t].pc = "handshake" => DialsAlone(t)'
  <2>1. task'[t] = r
        BY <1>1
  <2>2. CASE r.pc \notin {"gate", "handshake"}
        BY <2>1, <2>2
  <2>3. CASE r.pc \in {"gate", "handshake"}
    <3>1. Looks(t, r)
          BY <2>3 DEF Moves, Quiet, Forgets, EndsDial, Quits
    <3>2. PICK b, j : /\ b = AddressOf(t) /\ j = task[t].kind
                      /\ b = AddressOf(t)' /\ j = task'[t].kind
          BY <1>0, <2>1, <2>3, <3>1 DEF Looks, AddressOf
    <3>3. b \in Addresses /\ j \in Shareable /\ gate[b][j] \in Seq(Queries)
          BY <1>0, <1>2, <3>1, <3>2 DEF Looks
    <3>4. CASE r.pc = "gate"
      <4>1. gate' = [gate EXCEPT ![b][j] = Append(@, t)]
            BY <3>1, <3>2, <3>4 DEF Looks
      <4>2. gate'[b][j] = Append(gate[b][j], t)
            BY <1>0, <3>3, <4>1
      <4>3. \E i \in 1 .. Len(gate'[b][j]) : gate'[b][j][i] = t
            BY <3>3, <4>2
      <4> QED
          BY <2>1, <3>2, <3>4, <4>3 DEF Queued, AtGate
    <3>5. CASE r.pc = "handshake"
      <4>1. /\ Head(gate[b][j]) = t /\ gate' = gate /\ task[t].pc = "gate"
            /\ slot' = [slot EXCEPT ![b][j] = {}]
            BY <3>1, <3>2, <3>5 DEF Looks, AtGate
      <4>2. \E i \in 1 .. Len(gate[b][j]) : gate[b][j][i] = t
            BY <3>2, <4>1, ZenonT(30) DEF GateInv, Queued, AtGate
      <4>3. Len(gate[b][j]) > 0 /\ gate[b][j][1] = t
            BY <3>3, <4>1, <4>2
      <4>4. slot'[b][j] = {}
            BY <1>0, <3>3, <4>1
      <4> QED
          BY <3>2, <4>1, <4>2, <4>3, <4>4 DEF Queued, DialsAlone, AtGate
    <3> QED
        BY <2>3, <3>4, <3>5
  <2> QED
      BY <2>2, <2>3
<1> QED
    BY <1>3, <1>4, <1>5 DEF GateInv

SharedInv == TypesInv /\ GateInv /\ StampInv

\* Every step but the network's and the hangup is one task's move.
LEMMA StepsAreMoves ==
    ASSUME TypesInv, ConnNext
    PROVE  \/ \E t \in Queries : \E r : Moves(t, r)
           \/ NetworkStep
           \/ Hangup
<1>1. ASSUME NEW t \in Queries, ExchangeStep(t) \/ Abort(t) \/ \E req \in Requests : Ask(t, req)
      PROVE  \E r : Moves(t, r)
      BY <1>1, UdpMoves, StreamMoves, SharedMoves DEF ExchangeStep
<1> QED
    BY <1>1 DEF ConnNext

LEMMA SharedInitially == ConnInit => SharedInv
<1> SUFFICES ASSUME ConnInit PROVE SharedInv
    OBVIOUS
<1>1. TypesInv
      BY TypesInitially
<1>2. \A t \in Queries : task[t].pc = "idle" /\ task[t].stamp = 0
  <2>1. Resting.pc = "idle" /\ Resting.stamp = 0
        BY DEF Resting
  <2> QED
      BY <2>1 DEF ConnInit
<1>3. /\ gate = [a \in Addresses |-> [k \in Shareable |-> <<>>]]
      /\ slot = [a \in Addresses |-> [k \in Shareable |-> {}]]
      /\ dials = 0
      BY DEF ConnInit
<1>4. GateInv
      BY <1>2, <1>3 DEF GateInv, GatesTyped
<1>5. StampInv
      BY <1>2, <1>3 DEF StampInv
<1> QED
    BY <1>1, <1>4, <1>5 DEF SharedInv

LEMMA SharedKept == SharedInv /\ [ConnNext]_connVars => SharedInv'
<1> SUFFICES ASSUME SharedInv, [ConnNext]_connVars PROVE SharedInv'
    OBVIOUS
<1>0. TypesInv /\ GateInv /\ StampInv /\ TypesInv'
      BY TypesKept DEF SharedInv
<1>1. ASSUME UNCHANGED <<transport, hosts, slot, gate, dials, task>>
      PROVE  SharedInv'
  <2>1. GateInv'
        BY <1>0, <1>1
        DEF GateInv, GatesTyped, Queued, DialsAlone, AtGate, AddressOf, Addresses
  <2>2. StampInv'
        BY <1>0, <1>1 DEF StampInv, Addresses
  <2> QED
      BY <1>0, <2>1, <2>2 DEF SharedInv
<1>2. CASE UNCHANGED connVars
      BY <1>1, <1>2 DEF connVars, clientVars, kept, counts
<1>3. CASE NetworkStep
  <2>1. UNCHANGED <<transport, hosts, slot, gate, dials, task>>
        BY <1>3
        DEF NetworkStep, Serve, Break, Elapse, BackoffEnds, clientVars, kept, counts
  <2> QED
      BY <1>1, <2>1
<1>4. CASE Hangup
  <2>1. /\ UNCHANGED <<transport, hosts, gate, dials, task>>
        /\ slot' = [a \in Addresses |-> [k \in Shareable |-> {}]]
        /\ \A t \in Queries : task[t].pc \in {"idle", "done"}
        BY <1>4 DEF Hangup, Rests, clientVars, counts
  <2>2. GateInv'
        BY <1>0, <2>1 DEF GateInv, GatesTyped, Addresses
  <2>3. StampInv'
        BY <1>0, <2>1 DEF StampInv, Addresses
  <2> QED
      BY <1>0, <2>2, <2>3 DEF SharedInv
<1>5. ASSUME NEW t \in Queries, NEW r, Moves(t, r)
      PROVE  SharedInv'
      BY <1>0, <1>5, GatesKeptByMoves, StampsKeptByMoves DEF SharedInv
<1> QED
    BY <1>0, <1>2, <1>3, <1>4, <1>5, StepsAreMoves

\* What leaves a slot: the dead, what its user forgets, and all at the end.
LEMMA RemovalsAreFair ==
    ASSUME SharedInv, [ConnNext]_connVars,
           NEW a \in Addresses, NEW k \in Shareable, NEW s \in slot[a][k] \ slot'[a][k]
    PROVE  \/ ~Alive(s.conn)
           \/ \A t \in Queries : Rests(t)
           \/ \E t \in Queries : s.conn \in task[t].conn /\ task'[t] # task[t]
<1>0. /\ TypesInv /\ GateInv /\ StampInv
      /\ slot \in [Addresses -> [Shareable -> SUBSET [stamp : Nat, conn : ConnIds]]]
      /\ task \in [Queries -> TaskRecords]
      BY DEF SharedInv, TypesInv, SlotsTyped, TasksFit
<1>1. slot' # slot
      OBVIOUS
<1>2. ~UNCHANGED connVars /\ ~NetworkStep
      BY <1>1
      DEF connVars, NetworkStep, Serve, Break, Elapse, BackoffEnds, kept
<1>3. CASE Hangup
      BY <1>3 DEF Hangup
<1>4. ASSUME NEW t \in Queries, NEW r, Moves(t, r)
      PROVE  \/ ~Alive(s.conn)
             \/ s.conn \in task[t].conn /\ task'[t] # task[t]
  <2> DEFINE b == AddressOf(t)
             j == task[t].kind
  <2>0. b \in Addresses /\ task'[t] = r
        BY <1>0, <1>4, AddressTyped DEF Moves, Go
  <2>1. CASE Forgets(t, r)
    <3>1. /\ slot' = [slot EXCEPT ![b][j] = {x \in @ : x.stamp # task[t].stamp}]
          /\ j \in Shareable
          BY <1>0, <2>1 DEF Forgets, Forget, TypesInv, TasksFit, Fit
    <3>2. s.stamp = task[t].stamp
          BY <1>0, <2>0, <3>1
    <3>3. s.conn \in task[t].conn
          BY <1>0, <3>2 DEF StampInv
    <3>4. task'[t] # task[t]
          BY <2>0, <2>1 DEF Forgets
    <3> QED
        BY <3>3, <3>4
  <2>2. CASE Looks(t, r)
    <3>1. slot' = [slot EXCEPT ![b][j] = Live(b, j)] /\ j \in Shareable
          BY <1>0, <2>2 DEF Looks, TypesInv, TasksFit, Fit
    <3>2. a = b /\ k = j /\ s \notin Live(b, j)
          BY <1>0, <2>0, <3>1
    <3> QED
        BY <3>2 DEF Live
  <2>3. CASE EndsDial(t, r)
    <3>1. slot[b][j] = {} /\ j \in Shareable
          BY <1>0, <2>3 DEF EndsDial, GateInv, DialsAlone, TypesInv, TasksFit, Fit
    <3>2. PICK x : slot' = [slot EXCEPT ![b][j] = x]
          BY <1>1, <2>3 DEF EndsDial
    <3>3. ~(a = b /\ k = j)
          BY <3>1
    <3>4. slot'[a][k] = slot[a][k]
      <4>1. CASE a = b
            BY <1>0, <2>0, <3>1, <3>2, <3>3, <4>1
      <4>2. CASE a # b
            BY <1>0, <2>0, <3>1, <3>2, <4>2
      <4> QED
          BY <4>1, <4>2
    <3> QED
        BY <3>4
  <2> QED
      BY <1>1, <1>4, <2>1, <2>2, <2>3 DEF Moves, Quiet, Quits
<1> QED
    BY <1>0, <1>2, <1>3, <1>4, StepsAreMoves

(***************************************************************************)
(* A shared connection that works is thrown away only by a query that used *)
(* it, for any number of queries: `Shared::forget` compares incarnations,  *)
(* and only the holder of the gate dials, into a slot that is empty.       *)
(***************************************************************************)
THEOREM ReplacementSurvivesHolds == ConnSpec => ReplacementSurvives
<1>1. SharedInv /\ [ConnNext]_connVars =>
        [\A a \in Addresses, k \in Shareable : \A s \in slot[a][k] \ slot'[a][k] :
           \/ ~Alive(s.conn)
           \/ \A t \in Queries : Rests(t)
           \/ \E t \in Queries : s.conn \in task[t].conn /\ task'[t] # task[t]]_connVars
      BY RemovalsAreFair
<1> QED
    BY <1>1, SharedInitially, SharedKept, PTL DEF ConnSpec, ReplacementSurvives

(***************************************************************************)
(* The rebuilds of the pools.                                              *)
(***************************************************************************)
\* A reload's number: none before it takes one, and then one of those handed
\* out so far.
Unnumbered == {"idle", "number", "same"}

NumbersHandedOut ==
    /\ upstream_generation \in Nat
    /\ mine \in [Reloads -> Nat]
    /\ pc \in [Reloads -> {"idle", "number", "build", "check", "pool", "clients",
                           "private", "installed", "discarded", "same"}]
    /\ \A r \in Reloads :
         /\ mine[r] <= upstream_generation
         /\ mine[r] = 0 <=> pc[r] \in Unnumbered

\* No two reloads have the same number.
NumbersAreUnique ==
    \A r, s \in Reloads : mine[r] = mine[s] /\ mine[r] # 0 => r = s

\* The newest number is somebody's.
NewestIsHeld ==
    upstream_generation > 0 => \E r \in Reloads : mine[r] = upstream_generation

\* Who gave way gave way to a newer reload.
GaveWay ==
    \A r \in Reloads : pc[r] = "discarded" => mine[r] < upstream_generation

ReloadInv == NumbersHandedOut /\ NumbersAreUnique /\ NewestIsHeld /\ GaveWay

LEMMA ReloadInitInv == ReloadInit => ReloadInv
BY DEF ReloadInit, ReloadInv, NumbersHandedOut, NumbersAreUnique, NewestIsHeld,
       GaveWay, Unnumbered

LEMMA ReloadStepInv == ReloadInv /\ [ReloadNext]_reloadVars => ReloadInv'
<1> SUFFICES ASSUME ReloadInv, [ReloadNext]_reloadVars PROVE ReloadInv'
    OBVIOUS
<1> USE DEF ReloadInv, NumbersHandedOut, NumbersAreUnique, NewestIsHeld,
            GaveWay, Unnumbered, Goto
<1>1. ASSUME NEW r \in Reloads, NEW u \in Upstreams, Compare(r, u)
      PROVE  ReloadInv'
      BY <1>1 DEF Compare
<1>2. ASSUME NEW r \in Reloads, Number(r)
      PROVE  ReloadInv'
      BY <1>2 DEF Number
<1>3. ASSUME NEW r \in Reloads, Built(r)
      PROVE  ReloadInv'
      BY <1>3 DEF Built
<1>4. ASSUME NEW r \in Reloads, CheckGeneration(r)
      PROVE  ReloadInv'
      BY <1>4 DEF CheckGeneration
<1>5. ASSUME NEW r \in Reloads, StorePool(r)
      PROVE  ReloadInv'
      BY <1>5 DEF StorePool
<1>6. ASSUME NEW r \in Reloads, SetClientPools(r)
      PROVE  ReloadInv'
      BY <1>6 DEF SetClientPools
<1>7. ASSUME NEW r \in Reloads, SetPrivatePool(r)
      PROVE  ReloadInv'
      BY <1>7 DEF SetPrivatePool
<1>8. CASE UNCHANGED reloadVars
      BY <1>8 DEF reloadVars
<1> QED
    BY <1>1, <1>2, <1>3, <1>4, <1>5, <1>6, <1>7, <1>8
    DEF ReloadNext, RebuildStep

\* When all is settled, the holder of the newest number did not give way.
LEMMA NewestInstalls == ReloadInv => LastRebuildInstalls
BY DEF ReloadInv, NumbersHandedOut, NewestIsHeld, GaveWay, Unnumbered, Settled,
       LastRebuildInstalls

\* A step of the pools is a step of the reloads, or leaves them alone.
LEMMA PoolsStepIsReloadStep ==
    [PoolsNext]_allPoolVars => [ReloadNext]_reloadVars
<1> SUFFICES ASSUME [PoolsNext]_allPoolVars PROVE [ReloadNext]_reloadVars
    OBVIOUS
<1>1. ASSUME NEW r \in Reloads, Rebuild(r) PROVE ReloadNext
      BY <1>1 DEF Rebuild, BuiltPools, Install, ReloadNext, RebuildStep
<1>2. ASSUME NEW r \in Reloads, NEW u \in Upstreams, Compare(r, u)
      PROVE  ReloadNext
      BY <1>2 DEF ReloadNext
<1>3. ASSUME NEW c \in Calls,
             CallStep(c) \/ DropCall(c)
               \/ \E h \in Hostnames, w \in Whiches : StartCall(c, h, w)
      PROVE  UNCHANGED reloadVars
      BY <1>3 DEF CallStep, DropCall, StartCall, OneAnswers, OneFails, Join,
                  TaskAnswers, TaskFails, Probe
<1>4. CASE UNCHANGED allPoolVars
      BY <1>4 DEF allPoolVars
<1> QED
    BY <1>1, <1>2, <1>3, <1>4 DEF PoolsNext

LEMMA ReloadInvariant == PoolsSpec => []ReloadInv
<1>1. PoolsInit => ReloadInv
      BY ReloadInitInv DEF PoolsInit
<1>2. ReloadInv /\ [PoolsNext]_allPoolVars => ReloadInv'
      BY PoolsStepIsReloadStep, ReloadStepInv
<1> QED
    BY <1>1, <1>2, PTL DEF PoolsSpec

\* Rebuilds never all discard themselves, however many saves race
\* (LiveReloader::reload_upstreams).
THEOREM LastRebuildInstallsHolds == PoolsSpec => []LastRebuildInstalls
<1>1. ReloadInv => LastRebuildInstalls
      BY NewestInstalls
<1> QED
    BY <1>1, ReloadInvariant, PTL

(***************************************************************************)
(* Sequences arranged by an order.                                         *)
(***************************************************************************)
\* `before` orders the positions `at`.
Orders(before, at) ==
    /\ \A i, j \in at : i # j => <<i, j>> \in before \/ <<j, i>> \in before
    /\ \A i \in at : <<i, i>> \notin before
    /\ \A i, j, k \in at : <<i, j>> \in before /\ <<j, k>> \in before => <<i, k>> \in before

Before(at, before, i) == {j \in at : <<j, i>> \in before}

\* The positions are numbered by how many come before them.
LEMMA Numbered ==
    ASSUME NEW at, IsFiniteSet(at), NEW before, Orders(before, at)
    PROVE  /\ \A i \in at : Cardinality(Before(at, before, i)) \in 0 .. Cardinality(at) - 1
           /\ \A k \in 0 .. Cardinality(at) - 1 :
                \E i \in at : Cardinality(Before(at, before, i)) = k
           /\ \A i, j \in at : i # j => Cardinality(Before(at, before, i)) # Cardinality(Before(at, before, j))
<1> DEFINE num == [i \in at |-> Cardinality(Before(at, before, i))]
           places == 0 .. Cardinality(at) - 1
<1>1. \A i \in at : Before(at, before, i) \subseteq at \ {i}
  BY DEF Before, Orders
<1>2. Cardinality(at) \in Nat
  BY FS_CardinalityType
<1>3. \A i \in at : num[i] \in places
  <2> SUFFICES ASSUME NEW i \in at PROVE num[i] \in places
    OBVIOUS
  <2>1. IsFiniteSet(at \ {i}) /\ Cardinality(at \ {i}) = Cardinality(at) - 1
    BY FS_RemoveElement
  <2>2. Cardinality(Before(at, before, i)) <= Cardinality(at \ {i})
        /\ IsFiniteSet(Before(at, before, i))
    BY <1>1, <2>1, FS_Subset
  <2>3. Cardinality(Before(at, before, i)) \in Nat
    BY <2>2, FS_CardinalityType
  <2> QED
    BY <1>2, <2>1, <2>2, <2>3
<1>4. ASSUME NEW i \in at, NEW j \in at, <<i, j>> \in before PROVE num[i] < num[j]
  <2>1. Before(at, before, i) \subseteq Before(at, before, j) \ {i}
    BY <1>4 DEF Before, Orders
  <2>2. i \in Before(at, before, j)
    BY <1>4 DEF Before
  <2>3. IsFiniteSet(Before(at, before, j))
    BY FS_Subset DEF Before
  <2>4. /\ IsFiniteSet(Before(at, before, j) \ {i})
        /\ Cardinality(Before(at, before, j) \ {i}) = Cardinality(Before(at, before, j)) - 1
    BY <2>2, <2>3, FS_RemoveElement
  <2>5. Cardinality(Before(at, before, i)) <= Cardinality(Before(at, before, j)) - 1
    BY <2>1, <2>4, FS_Subset
  <2>6. num[i] \in Nat /\ num[j] \in Nat
    BY <1>2, <1>3
  <2> QED
    BY <2>5, <2>6
<1>5. \A i, j \in at : i # j => num[i] # num[j]
  <2> SUFFICES ASSUME NEW i \in at, NEW j \in at, i # j PROVE num[i] # num[j]
    OBVIOUS
  <2>1. num[i] \in Int /\ num[j] \in Int
    BY <1>2, <1>3
  <2>2. num[i] < num[j] \/ num[j] < num[i]
    BY <1>4 DEF Orders
  <2> QED
    BY <2>1, <2>2
<1>6. \A k \in places : \E i \in at : num[i] = k
  <2>1. IsFiniteSet(places) /\ Cardinality(places) = Cardinality(at)
    BY <1>2, FS_Interval
  <2>2. num \in Injection(at, places)
    BY <1>3, <1>5 DEF Injection, IsInjective
  <2>3. num \in Surjection(at, places)
    BY <2>1, <2>2, FS_Injection
  <2> QED
    BY <2>3 DEF Surjection
<1> QED
  BY <1>3, <1>5, <1>6

\* The arrangement is of all the elements at these positions, and of no others.
LEMMA ArrangedElements ==
    ASSUME NEW s, NEW at, IsFiniteSet(at), NEW before, Orders(before, at)
    PROVE  /\ Cardinality(at) \in Nat
           /\ DOMAIN Arranged(s, at, before) = 1 .. Cardinality(at)
           /\ \A k \in 1 .. Cardinality(at) : \E i \in at : Arranged(s, at, before)[k] = s[i]
           /\ \A i \in at : \E k \in 1 .. Cardinality(at) : Arranged(s, at, before)[k] = s[i]
<1> DEFINE num(i) == Cardinality(Before(at, before, i))
           chosen(k) == CHOOSE i \in at : num(i) = k - 1
<1>1. Cardinality(at) \in Nat
  BY FS_CardinalityType
<1>2. Arranged(s, at, before) = [k \in 1 .. Cardinality(at) |-> s[chosen(k)]]
  BY DEF Arranged, Before
<1>3. /\ \A i \in at : num(i) \in 0 .. Cardinality(at) - 1
      /\ \A k \in 0 .. Cardinality(at) - 1 : \E i \in at : num(i) = k
      /\ \A i, j \in at : num(i) = num(j) => i = j
  BY Numbered
<1> HIDE DEF num
<1>4. \A k \in 1 .. Cardinality(at) : chosen(k) \in at /\ num(chosen(k)) = k - 1
  <2> SUFFICES ASSUME NEW k \in 1 .. Cardinality(at) PROVE chosen(k) \in at /\ num(chosen(k)) = k - 1
    OBVIOUS
  <2>1. k - 1 \in 0 .. Cardinality(at) - 1
    BY <1>1
  <2>2. \E i \in at : num(i) = k - 1
    BY <1>3, <2>1
  <2> QED
    BY <2>2
<1>5. ASSUME NEW i \in at
      PROVE  num(i) + 1 \in 1 .. Cardinality(at) /\ chosen(num(i) + 1) = i
  <2>1. num(i) \in 0 .. Cardinality(at) - 1
    BY <1>3
  <2>2. num(i) + 1 \in 1 .. Cardinality(at) /\ (num(i) + 1) - 1 = num(i)
    BY <1>1, <2>1
  <2>3. chosen(num(i) + 1) \in at /\ num(chosen(num(i) + 1)) = num(i)
    BY <1>4, <2>2
  <2> HIDE DEF chosen
  <2> QED
    BY <1>3, <2>2, <2>3
<1> HIDE DEF chosen
<1> QED
  BY <1>1, <1>2, <1>4, <1>5

\* A finite set of positions, and the order of the sequence on them.
Positions(at) == IsFiniteSet(at) /\ at \subseteq Int
Earlier(at) == {p \in at \X at : p[1] < p[2]}

LEMMA EarlierOrders ==
    ASSUME NEW at, Positions(at)
    PROVE  IsFiniteSet(at) /\ Orders(Earlier(at), at)
<1>1. \A i, j \in at : <<i, j>> \in Earlier(at) <=> i < j
  BY DEF Earlier
<1> QED
  BY <1>1 DEF Orders, Positions

LEMMA KeptElements ==
    ASSUME NEW s, NEW at, Positions(at), NEW S, \A i \in at : s[i] \in S
    PROVE  Kept(s, at) \in Seq(S) /\ DOMAIN Kept(s, at) = 1 .. Cardinality(at) /\ Cardinality(at) \in Nat
<1>1. IsFiniteSet(at) /\ Orders(Earlier(at), at)
  BY EarlierOrders
<1>2. Kept(s, at) = Arranged(s, at, Earlier(at))
  BY DEF Kept, Earlier
<1>3. /\ Cardinality(at) \in Nat
      /\ DOMAIN Kept(s, at) = 1 .. Cardinality(at)
      /\ \A k \in 1 .. Cardinality(at) : \E i \in at : Kept(s, at)[k] = s[i]
  <2>1. /\ Cardinality(at) \in Nat
        /\ DOMAIN Arranged(s, at, Earlier(at)) = 1 .. Cardinality(at)
        /\ \A k \in 1 .. Cardinality(at) : \E i \in at : Arranged(s, at, Earlier(at))[k] = s[i]
    BY <1>1, ArrangedElements
  <2> QED
    BY <1>2, <2>1
<1>4. Kept(s, at) = [k \in 1 .. Cardinality(at) |-> Kept(s, at)[k]]
  BY <1>2, <1>3 DEF Arranged
<1>5. Kept(s, at) \in [1 .. Cardinality(at) -> S]
  BY <1>3, <1>4
<1> QED
  BY <1>3, <1>5

LEMMA PartOfSequence ==
    ASSUME NEW S, NEW s \in Seq(S), NEW at, at \subseteq DOMAIN s
    PROVE  Positions(at) /\ \A i \in at : s[i] \in S
<1>1. DOMAIN s = 1 .. Len(s) /\ Len(s) \in Nat
  OBVIOUS
<1>2. IsFiniteSet(DOMAIN s)
  BY <1>1, FS_Interval
<1> QED
  BY <1>1, <1>2, FS_Subset DEF Positions

(***************************************************************************)
(* What the pools are built of.                                            *)
(***************************************************************************)
LEMMA LinesParsed ==
    ASSUME NEW L, NEW lines \in Seq(L)
    PROVE  ParseLines(lines) \in Seq(L)
BY PartOfSequence, KeptElements DEF ParseLines

LEMMA DefaultsTyped ==
    ASSUME NEW L, NEW es \in Seq(L)
    PROVE  DefaultsOf(es) \in Seq(L)
BY PartOfSequence, KeptElements DEF DefaultsOf

LEMMA ConnectedTyped ==
    ASSUME NEW L, NEW specs \in Seq(L), NEW down
    PROVE  Connected(specs, down) \in Seq({l.up : l \in L})
<1> DEFINE ups == [i \in DOMAIN specs |-> specs[i].up]
           at == {i \in DOMAIN specs : \/ specs[i].form = "literal"
                                       \/ specs[i].form = "host" /\ specs[i].up \notin down}
<1>1. ups \in Seq({l.up : l \in L}) /\ DOMAIN ups = DOMAIN specs
  OBVIOUS
<1>2. Positions(at) /\ \A i \in at : ups[i] \in {l.up : l \in L}
  BY <1>1, PartOfSequence
<1>3. Connected(specs, down) = Kept(ups, at)
  BY DEF Connected
<1> HIDE DEF ups, at
<1> QED
  BY <1>2, <1>3, KeptElements

LEMMA GroupsTyped ==
    ASSUME NEW L, NEW es \in Seq(L)
    PROVE  GroupsOf(es) \in Seq([domains : {l.domains : l \in L}, specs : Seq(L)])
<1> DEFINE alike(i) == {j \in DOMAIN es : es[j].domains = es[i].domains}
           first(i) == \A j \in alike(i) : i <= j
           opens == {i \in DOMAIN es : es[i].domains # <<>> /\ (es[i].form = "default" \/ first(i))}
           specs(i) == {j \in alike(i) : first(i) /\ es[j].form # "default"}
           all == [i \in DOMAIN es |-> [domains |-> es[i].domains, specs |-> Kept(es, specs(i))]]
           Gs == [domains : {l.domains : l \in L}, specs : Seq(L)]
<1>1. ASSUME NEW i \in DOMAIN es PROVE Kept(es, specs(i)) \in Seq(L)
  <2>1. specs(i) \subseteq DOMAIN es
    OBVIOUS
  <2> HIDE DEF specs
  <2> QED
    BY <2>1, PartOfSequence, KeptElements
<1>2. \A i \in DOMAIN es : all[i] \in Gs
  <2> HIDE DEF specs
  <2> QED
    BY <1>1
<1>3. opens \subseteq DOMAIN es
  OBVIOUS
<1>4. GroupsOf(es) = Kept(all, opens)
  BY DEF GroupsOf
<1> HIDE DEF all, opens
<1>5. Positions(opens)
  BY <1>3, PartOfSequence
<1>6. \A i \in opens : all[i] \in Gs
  BY <1>2, <1>3
<1> HIDE DEF Gs
<1>7. Kept(all, opens) \in Seq(Gs)
  BY <1>5, <1>6, KeptElements
<1> QED
  BY <1>4, <1>7 DEF Gs

LEMMA SeqOfMore ==
    ASSUME NEW A, NEW B, A \subseteq B, NEW s \in Seq(A)
    PROVE  s \in Seq(B)
<1>1. s \in [1 .. Len(s) -> A] /\ Len(s) \in Nat
  OBVIOUS
<1>2. s \in [1 .. Len(s) -> B]
  BY <1>1
<1> QED
  BY <1>1, <1>2

Modes == {"load_balance", "parallel", "fastest_addr"}

LEMMA LinesTyped ==
    ASSUME NEW u \in Upstreams, NEW lines \in LinesOf(u)
    PROVE  lines \in Seq(Range(lines)) /\ {l.up : l \in Range(lines)} \subseteq AllNames
<1>1. lines \in Seq(Range(lines))
  BY PoolsAssumption DEF LinesOf
<1>2. Range(lines) \subseteq UNION {UNION {Range(ls) : ls \in LinesOf(v)} : v \in Upstreams}
  OBVIOUS
<1> QED
  BY <1>1, <1>2 DEF AllNames

\* Every upstream of a pool is of a line.
PoolTyped(p) ==
    /\ p.mode \notin Modes => p.defaults = <<>> /\ p.groups = <<>>
    /\ p.defaults \in Seq(AllNames) /\ p.fallbacks \in Seq(AllNames)
    /\ DOMAIN p.groups \subseteq Nat
    /\ \A i \in DOMAIN p.groups : p.groups[i].members \in Seq(AllNames)

LEMMA ConnectedNames ==
    ASSUME NEW u \in Upstreams, NEW lines \in LinesOf(u), NEW specs \in Seq(Range(lines)), NEW down
    PROVE  Connected(specs, down) \in Seq(AllNames)
<1>1. Connected(specs, down) \in Seq({l.up : l \in Range(lines)})
  BY ConnectedTyped
<1>2. {l.up : l \in Range(lines)} \subseteq AllNames
  BY LinesTyped
<1> QED
  BY <1>1, <1>2, SeqOfMore

LEMMA PoolFromTyped ==
    ASSUME NEW u \in Upstreams, NEW lines \in LinesOf(u), NEW down
    PROVE  PoolTyped(BuildPoolFrom(Settings[u], lines, down))
<1> DEFINE es == ParseLines(lines)
           gs == GroupsOf(es)
           fb == Settings[u].fallback
           p == BuildPoolFrom(Settings[u], lines, down)
           Gs == [domains : {l.domains : l \in Range(lines)}, specs : Seq(Range(lines))]
<1>1. fb \in LinesOf(u)
  BY DEF LinesOf
<1>2. es \in Seq(Range(lines))
  BY LinesTyped, LinesParsed
<1>3. ParseLines(fb) \in Seq(Range(fb))
  BY <1>1, LinesTyped, LinesParsed
<1>4. gs \in Seq(Gs)
  BY <1>2, GroupsTyped
<1> HIDE DEF es, gs, fb
<1>5. Connected(DefaultsOf(es), down) \in Seq(AllNames)
  BY <1>2, DefaultsTyped, ConnectedNames
<1>6. Connected(DefaultsOf(ParseLines(fb)), down) \in Seq(AllNames)
  BY <1>1, <1>3, DefaultsTyped, ConnectedNames
<1>7. \A i \in DOMAIN gs : Connected(gs[i].specs, down) \in Seq(AllNames)
  <2> SUFFICES ASSUME NEW i \in DOMAIN gs PROVE Connected(gs[i].specs, down) \in Seq(AllNames)
    OBVIOUS
  <2>1. gs[i].specs \in Seq(Range(lines))
    <3>1. gs[i] \in Gs
      <4> HIDE DEF Gs
      <4> QED
        BY <1>4
    <3> QED
      BY <3>1
  <2> QED
    BY <2>1, ConnectedNames
<1>8. DOMAIN gs \subseteq Nat
  <2> HIDE DEF Gs
  <2> QED
    BY <1>4
<1>9. p = [mode |-> Settings[u].mode, defaults |-> Connected(DefaultsOf(es), down),
           groups |-> [i \in DOMAIN gs |-> [domains |-> gs[i].domains, members |-> Connected(gs[i].specs, down)]],
           fallbacks |-> Connected(DefaultsOf(ParseLines(fb)), down)]
  BY DEF BuildPoolFrom, es, gs, fb
<1>10. Settings[u].mode \in Modes
  BY PoolsAssumption DEF Modes
<1> HIDE DEF p
<1>11. /\ p.mode = Settings[u].mode /\ p.defaults = Connected(DefaultsOf(es), down)
       /\ p.fallbacks = Connected(DefaultsOf(ParseLines(fb)), down)
  BY <1>9
<1>12. /\ DOMAIN p.groups = DOMAIN gs
       /\ \A i \in DOMAIN gs : p.groups[i].members = Connected(gs[i].specs, down)
  BY <1>9
<1>13. /\ DOMAIN p.groups \subseteq Nat
       /\ \A i \in DOMAIN p.groups : p.groups[i].members \in Seq(AllNames)
  BY <1>7, <1>8, <1>12
<1>14. PoolTyped(p)
  <2>1. p.mode \in Modes
    BY <1>10, <1>11
  <2>2. p.defaults \in Seq(AllNames) /\ p.fallbacks \in Seq(AllNames)
    BY <1>5, <1>6, <1>11
  <2> QED
    BY <1>13, <2>1, <2>2 DEF PoolTyped
<1> QED
  BY <1>14 DEF p

LEMMA NoPoolTyped == PoolTyped(NoPool)
BY DEF PoolTyped, NoPool

LEMMA PrivateTyped ==
    ASSUME NEW u \in Upstreams, NEW down
    PROVE  PoolTyped(BuildPrivatePool(Settings[u], down))
<1> DEFINE lines == IF Settings[u].local = <<>> THEN SystemLines ELSE Settings[u].local
           members == Connected(DefaultsOf(ParseLines(lines)), down)
<1>1. lines \in LinesOf(u)
  BY DEF LinesOf
<1>2. BuildPrivatePool(Settings[u], down)
        \in {NoPool, [NoPool EXCEPT !.mode = "load_balance", !.defaults = members]}
  BY DEF BuildPrivatePool
<1> HIDE DEF lines
<1>3. members \in Seq(AllNames)
  <2>1. DefaultsOf(ParseLines(lines)) \in Seq(Range(lines))
    BY <1>1, LinesTyped, LinesParsed, DefaultsTyped
  <2> QED
    BY <1>1, <2>1, ConnectedNames
<1> HIDE DEF members
<1> DEFINE p == [NoPool EXCEPT !.mode = "load_balance", !.defaults = members]
<1>4. /\ p.mode = "load_balance" /\ p.defaults = members
      /\ p.groups = <<>> /\ p.fallbacks = <<>>
  BY DEF NoPool
<1> HIDE DEF p
<1>5. PoolTyped(p)
  BY <1>3, <1>4 DEF PoolTyped, Modes
<1> QED
  BY <1>2, <1>5, NoPoolTyped DEF p

LEMMA PoolsTyped ==
    ASSUME NEW u \in Upstreams, NEW down
    PROVE  \A w \in Whiches : PoolTyped(BuildPools(u, down)[w])
<1>1. Settings[u].lines \in LinesOf(u) /\ Settings[u].clients \in LinesOf(u)
  BY DEF LinesOf
<1>2. PoolTyped(BuildPoolFrom(Settings[u], Settings[u].lines, down))
  BY <1>1, PoolFromTyped
<1>3. PoolTyped(BuildClientPools(Settings[u], down))
  BY <1>1, PoolFromTyped, NoPoolTyped DEF BuildClientPools
<1> QED
  BY <1>2, <1>3, PrivateTyped DEF BuildPools, Whiches

(***************************************************************************)
(* Selecting and ranking.                                                  *)
(***************************************************************************)
\* Whom a name is asked of are those meant for it.
LEMMA SelectedAreMeant ==
    ASSUME NEW p, PoolTyped(p), NEW host
    PROVE  /\ Select(p, host) \in Seq(AllNames)
           /\ Range(Select(p, host)) \subseteq Meant(p, host)
<1> DEFINE hits == {i \in DOMAIN p.groups : GroupMatches(p.groups[i], host) # {}}
           longest == {i \in hits : ~\E j \in hits : Longer(p.groups[j], p.groups[i], host)}
           best == {i \in longest : \A j \in longest : i <= j}
<1>1. Select(p, host) = IF \E i \in best : p.groups[i].members # <<>>
                        THEN p.groups[CHOOSE i \in best : p.groups[i].members # <<>>].members
                        ELSE p.defaults
  BY DEF Select
<1>2. /\ \A g \in Closest(p, host) : Range(g.members) \subseteq Meant(p, host)
      /\ Closest(p, host) = {} \/ (\E g \in Closest(p, host) : g.members = <<>>) => Range(p.defaults) \subseteq Meant(p, host)
  <2> DEFINE own == UNION {Range(g.members) : g \in Closest(p, host)}
             rest == {m \in Range(p.defaults) : Closest(p, host) = {} \/ \E g \in Closest(p, host) : g.members = <<>>}
  <2>1. Meant(p, host) = own \union rest
    BY DEF Meant
  <2>2. \A g \in Closest(p, host) : Range(g.members) \subseteq own
    OBVIOUS
  <2>3. Closest(p, host) = {} \/ (\E g \in Closest(p, host) : g.members = <<>>) => Range(p.defaults) \subseteq rest
    OBVIOUS
  <2> HIDE DEF own, rest
  <2> QED
    BY <2>1, <2>2, <2>3
<1>3. \A i \in longest : p.groups[i] \in Closest(p, host)
  BY DEF Range, Closest
<1>4. \A g \in Closest(p, host) : \E i \in longest : g = p.groups[i]
  BY DEF Range, Closest
<1>5. /\ best \subseteq longest /\ longest \subseteq DOMAIN p.groups
      /\ longest # {} => \E i \in best : TRUE
  <2>1. longest \subseteq Nat
    BY DEF PoolTyped
  <2>2. ASSUME longest # {} PROVE \E i \in best : TRUE
    <3> HIDE DEF longest
    <3>1. PICK m \in longest : \A i \in longest : m <= i
      BY <2>1, <2>2, LeastNatural
    <3> QED
      BY <3>1
  <2>3. best \subseteq longest /\ longest \subseteq DOMAIN p.groups
    OBVIOUS
  <2> QED
    BY <2>2, <2>3
<1> HIDE DEF best, longest
<1>6. CASE \E i \in best : p.groups[i].members # <<>>
  <2> DEFINE i == CHOOSE i \in best : p.groups[i].members # <<>>
  <2>1. i \in best /\ Select(p, host) = p.groups[i].members
    BY <1>1, <1>6
  <2> HIDE DEF i
  <2>2. p.groups[i] \in Closest(p, host) /\ i \in DOMAIN p.groups
    BY <1>3, <1>5, <2>1
  <2>3. Range(p.groups[i].members) \subseteq Meant(p, host)
    BY <1>2, <2>2
  <2> QED
    BY <2>1, <2>2, <2>3 DEF PoolTyped
<1>7. CASE ~\E i \in best : p.groups[i].members # <<>>
  <2>1. Select(p, host) = p.defaults
    BY <1>1, <1>7
  <2>2. Closest(p, host) = {} \/ \E g \in Closest(p, host) : g.members = <<>>
    <3>1. ASSUME Closest(p, host) # {} PROVE \E g \in Closest(p, host) : g.members = <<>>
      <4>1. longest # {}
        BY <1>4, <3>1
      <4>2. PICK i \in best : TRUE
        BY <1>5, <4>1
      <4> QED
        BY <1>3, <1>5, <1>7, <4>2
    <3> QED
      BY <3>1
  <2>3. Range(p.defaults) \subseteq Meant(p, host)
    BY <1>2, <2>2
  <2> QED
    BY <2>1, <2>3 DEF PoolTyped
<1> QED
  BY <1>6, <1>7

Measures == [rtt : Nat, failures : Nat]

LEMMA ScoreTyped ==
    ASSUME NEW st \in Measures
    PROVE  Score(st) \in Nat
<1>1. st.rtt \in Nat /\ st.failures \in Nat
  BY DEF Measures
<1> DEFINE k == Min({st.failures, 8}) + 1
<1>2. k \in 1 .. 9
  BY <1>1 DEF Min
<1>3. Doubled[k] \in Nat
  <2> HIDE DEF k
  <2> QED
    BY <1>2 DEF Doubled
<1> HIDE DEF k
<1>4. Score(st) = st.rtt * Doubled[k]
  BY DEF Score, k
<1> QED
  BY <1>1, <1>3, <1>4

LEMMA RecordTyped ==
    ASSUME NEW st \in Measures
    PROVE  RecordFailure(st) \in Measures /\ \A sample \in Samples : RecordSuccess(st, sample) \in Measures
<1>1. st.rtt \in Nat /\ st.failures \in Nat
  BY DEF Measures
<1>2. RecordFailure(st) \in Measures
  BY <1>1 DEF RecordFailure, Measures
<1>3. ASSUME NEW sample \in Samples PROVE RecordSuccess(st, sample) \in Measures
  <2> DEFINE x == st.rtt - st.rtt \div 4 + sample \div 4
  <2>1. sample \in Nat
    BY PoolsAssumption
  <2>2. x \in Int
    BY <1>1, <2>1
  <2>3. Max({1, x}) \in Nat
    <3> HIDE DEF x
    <3> QED
      BY <2>2 DEF Max
  <2> HIDE DEF x
  <2>4. RecordSuccess(st, sample) = [rtt |-> Max({1, x}), failures |-> 0]
    BY DEF RecordSuccess, x
  <2> QED
    BY <2>3, <2>4 DEF Measures
<1> QED
  BY <1>2, <1>3

\* By their scores are all the members and nobody else.
LEMMA RankedMembers ==
    ASSUME NEW members \in Seq(AllNames), NEW sts \in [AllNames -> Measures]
    PROVE  /\ ByScore(members, sts) \in Seq(AllNames)
           /\ Range(ByScore(members, sts)) = Range(members)
           /\ members # <<>> => ByScore(members, sts) # <<>>
<1> DEFINE at == DOMAIN members
           score == [i \in at |-> Score(sts[members[i]])]
           before == Ranked(members, sts)
           order == ByScore(members, sts)
<1>1. at = 1 .. Len(members) /\ Len(members) \in Nat /\ \A i \in at : members[i] \in AllNames
  OBVIOUS
<1>2. \A i \in at : score[i] \in Nat
  <2> SUFFICES ASSUME NEW i \in at PROVE score[i] \in Nat
    OBVIOUS
  <2>1. sts[members[i]] \in Measures
    BY <1>1
  <2> QED
    BY <2>1, ScoreTyped
<1>3. \A i, j \in at : <<i, j>> \in before <=> score[i] < score[j] \/ (score[i] = score[j] /\ i < j)
  <2> SUFFICES ASSUME NEW i \in at, NEW j \in at
               PROVE  <<i, j>> \in before <=> score[i] < score[j] \/ (score[i] = score[j] /\ i < j)
    OBVIOUS
  <2>1. before = {p \in at \X at : score[p[1]] < score[p[2]] \/ (score[p[1]] = score[p[2]] /\ p[1] < p[2])}
    BY DEF Ranked
  <2> HIDE DEF score, before, at
  <2> QED
    BY <2>1
<1>4. order = Arranged(members, at, before)
  BY DEF ByScore
<1> HIDE DEF before, score
<1>5. Orders(before, at)
  <2>1. \A i \in at : i \in Int
    BY <1>1
  <2> HIDE DEF at
  <2>2. \A i \in at : <<i, i>> \notin before
    BY <1>2, <1>3, <2>1
  <2>3. \A i, j \in at : i # j => <<i, j>> \in before \/ <<j, i>> \in before
    <3> SUFFICES ASSUME NEW i \in at, NEW j \in at, i # j PROVE <<i, j>> \in before \/ <<j, i>> \in before
      OBVIOUS
    <3>1. score[i] \in Int /\ score[j] \in Int /\ i \in Int /\ j \in Int
      BY <1>2, <2>1
    <3>2. \/ score[i] < score[j] \/ (score[i] = score[j] /\ i < j)
          \/ score[j] < score[i] \/ (score[j] = score[i] /\ j < i)
      BY <3>1
    <3> QED
      BY <1>3, <3>2
  <2>4. \A i, j, k \in at : <<i, j>> \in before /\ <<j, k>> \in before => <<i, k>> \in before
    <3> SUFFICES ASSUME NEW i \in at, NEW j \in at, NEW k \in at, <<i, j>> \in before, <<j, k>> \in before
                 PROVE  <<i, k>> \in before
      OBVIOUS
    <3>1. /\ score[i] \in Int /\ score[j] \in Int /\ score[k] \in Int
          /\ i \in Int /\ j \in Int /\ k \in Int
      BY <1>2, <2>1
    <3>2. /\ score[i] < score[j] \/ (score[i] = score[j] /\ i < j)
          /\ score[j] < score[k] \/ (score[j] = score[k] /\ j < k)
      BY <1>3
    <3>3. score[i] < score[k] \/ (score[i] = score[k] /\ i < k)
      BY <3>1, <3>2
    <3> QED
      BY <1>3, <3>3
  <2> QED
    BY <2>2, <2>3, <2>4 DEF Orders
<1>6. IsFiniteSet(at)
  BY <1>1, FS_Interval
<1>7. /\ Cardinality(at) \in Nat
      /\ DOMAIN Arranged(members, at, before) = 1 .. Cardinality(at)
      /\ \A k \in 1 .. Cardinality(at) : \E i \in at : Arranged(members, at, before)[k] = members[i]
      /\ \A i \in at : \E k \in 1 .. Cardinality(at) : Arranged(members, at, before)[k] = members[i]
  <2> HIDE DEF at
  <2> QED
    BY <1>5, <1>6, ArrangedElements
<1>8. order = [k \in 1 .. Cardinality(at) |-> order[k]]
  BY <1>4, <1>7 DEF Arranged
<1> HIDE DEF order
<1>9. /\ DOMAIN order = 1 .. Cardinality(at)
      /\ \A k \in 1 .. Cardinality(at) : \E i \in at : order[k] = members[i]
      /\ \A i \in at : \E k \in 1 .. Cardinality(at) : order[k] = members[i]
  BY <1>4, <1>7
<1>10. order \in [1 .. Cardinality(at) -> AllNames]
  BY <1>1, <1>8, <1>9
<1>11. order \in Seq(AllNames)
  <2>1. Cardinality(at) \in Nat
    BY <1>7
  <2> HIDE DEF at
  <2> QED
    BY <1>10, <2>1
<1>12. Range(order) = Range(members)
  BY <1>9, SMTT(20) DEF Range
<1>13. ASSUME members # <<>> PROVE order # <<>>
  <2>1. 1 \in at
    BY <1>1, <1>13
  <2>2. DOMAIN order # {}
    BY <1>9, <2>1
  <2> QED
    BY <2>2
<1> QED
  BY <1>11, <1>12, <1>13 DEF order

LEMMA NothingSelected ==
    ASSUME NEW p, PoolTyped(p), p.mode \notin Modes, NEW host
    PROVE  Select(p, host) = <<>>
BY DEF PoolTyped, Select

(***************************************************************************)
(* The calls.                                                              *)
(***************************************************************************)
Ends == [by : AllNames, ok : BOOLEAN, offers : SUBSET UNION Offers]
Answers == [by : AllNames, offers : SUBSET UNION Offers]
Hosts == Hostnames \union {<<>>}
CallRecords ==
    [pc : {"idle", "one", "parallel", "fastest_addr", "fallback", "probe", "done"},
     host : Hosts, which : Whiches, gen : Generations,
     order : Seq(AllNames), out : SUBSET AllNames, ended : Seq(Ends), good : Seq(Ends),
     failed : SUBSET AllNames, answer : SUBSET Answers]

LEMMA CallFields ==
    ASSUME NEW r \in CallRecords
    PROVE  /\ r.host \in Hosts /\ r.which \in Whiches /\ r.gen \in Generations
           /\ r.order \in Seq(AllNames) /\ r.out \in SUBSET AllNames /\ r.failed \in SUBSET AllNames
           /\ r.ended \in Seq(Ends) /\ r.good \in Seq(Ends) /\ r.answer \in SUBSET Answers
           /\ r.pc \in {"idle", "one", "parallel", "fastest_addr", "fallback", "probe", "done"}
BY DEF CallRecords

LEMMA NothingYet == <<>> \in Seq(AllNames) /\ <<>> \in Seq(Ends)
OBVIOUS

\* The upstreams whose outcomes these are.
Bys(s) == {s[i].by : i \in DOMAIN s}

LEMMA BysAppend ==
    ASSUME NEW S, NEW s \in Seq(S), NEW e \in S
    PROVE  Bys(Append(s, e)) = Bys(s) \union {e.by}
<1>1. /\ DOMAIN Append(s, e) = DOMAIN s \union {Len(s) + 1}
      /\ \A i \in DOMAIN s : Append(s, e)[i] = s[i]
      /\ Append(s, e)[Len(s) + 1] = e
  OBVIOUS
<1> QED
  BY <1>1 DEF Bys

LEMMA BysHead ==
    ASSUME NEW S, NEW s \in Seq(S), s # <<>>
    PROVE  Bys(s) = {Head(s).by} \union Bys(Tail(s)) /\ Head(s) \in S /\ Tail(s) \in Seq(S)
<1>1. /\ DOMAIN s = 1 .. Len(s) /\ Len(s) \in Nat /\ Len(s) > 0
      /\ DOMAIN Tail(s) = 1 .. Len(s) - 1 /\ Head(s) = s[1]
      /\ \A i \in 1 .. Len(s) - 1 : Tail(s)[i] = s[i + 1]
  OBVIOUS
<1>2. ASSUME NEW i \in DOMAIN s PROVE s[i].by \in {Head(s).by} \union Bys(Tail(s))
  <2>1. CASE i = 1
    BY <1>1, <2>1
  <2>2. CASE i # 1
    <3>1. i - 1 \in DOMAIN Tail(s) /\ Tail(s)[i - 1] = s[i]
      BY <1>1, <2>2
    <3> QED
      BY <3>1 DEF Bys
  <2> QED
    BY <2>1, <2>2
<1>3. ASSUME NEW i \in DOMAIN Tail(s) PROVE Tail(s)[i].by \in Bys(s)
  BY <1>1 DEF Bys
<1>4. Head(s).by \in Bys(s)
  BY <1>1 DEF Bys
<1> QED
  BY <1>1, <1>2, <1>3, <1>4 DEF Bys

LEMMA RangeHead ==
    ASSUME NEW S, NEW s \in Seq(S), s # <<>>
    PROVE  Range(s) = {Head(s)} \union Range(Tail(s)) /\ Head(s) \in S /\ Tail(s) \in Seq(S)
<1>1. /\ DOMAIN s = 1 .. Len(s) /\ Len(s) \in Nat /\ Len(s) > 0
      /\ DOMAIN Tail(s) = 1 .. Len(s) - 1 /\ Head(s) = s[1]
      /\ \A i \in 1 .. Len(s) - 1 : Tail(s)[i] = s[i + 1]
  OBVIOUS
<1>2. ASSUME NEW i \in DOMAIN s PROVE s[i] \in {Head(s)} \union Range(Tail(s))
  <2>1. CASE i = 1
    BY <1>1, <2>1
  <2>2. CASE i # 1
    <3>1. i - 1 \in DOMAIN Tail(s) /\ Tail(s)[i - 1] = s[i]
      BY <1>1, <2>2
    <3> QED
      BY <3>1 DEF Range
  <2> QED
    BY <2>1, <2>2
<1>3. ASSUME NEW i \in DOMAIN Tail(s) PROVE Tail(s)[i] \in Range(s)
  BY <1>1 DEF Range
<1>4. Head(s) \in Range(s)
  BY <1>1 DEF Range
<1> QED
  BY <1>1, <1>2, <1>3, <1>4 DEF Range

\* Where the exchange is: every selected upstream has failed, is still asked or
\* has been heard of; the fallbacks are asked after all of them have failed.
CallShape(r, sel, fallbacks) ==
    /\ r.pc # "done" => r.answer = {}
    /\ r.pc \in {"idle", "one", "probe", "done"} => r.out = {} /\ r.ended = <<>>
    /\ r.pc \in {"one", "parallel", "fallback"} => r.good = <<>>
    /\ r.pc = "one" => r.order # <<>> /\ Range(r.order) \subseteq sel /\ sel \subseteq r.failed \union Range(r.order)
    /\ r.pc \in {"parallel", "fastest_addr"} =>
         /\ r.out \subseteq sel /\ Bys(r.ended) \subseteq sel /\ Bys(r.good) \subseteq sel
         /\ sel \subseteq r.failed \union r.out \union Bys(r.ended) \union Bys(r.good)
    /\ r.pc = "probe" => r.good # <<>> /\ Bys(r.good) \subseteq sel
    /\ r.pc = "fallback" => sel \subseteq r.failed /\ r.out \subseteq fallbacks /\ Bys(r.ended) \subseteq fallbacks

AnsweredBy(r, p, A) ==
    \A a \in A : \/ a.by \in Meant(p, r.host)
                 \/ a.by \in Range(p.fallbacks) /\ Range(Select(p, r.host)) \subseteq r.failed

CallOK(r, p) ==
    /\ CallShape(r, Range(Select(p, r.host)), Range(p.fallbacks))
    /\ AnsweredBy(r, p, r.answer)

\* r became n, in the same pool.
Onward(n, r, p) ==
    /\ n \in CallRecords /\ n.gen = r.gen /\ n.which = r.which
    /\ CallOK(n, p)

LEMMA WaitingOK == Waiting \in CallRecords /\ \A p : CallOK(Waiting, p)
<1>1. 0 \in Generations
  BY PoolsAssumption, FS_CardinalityType DEF Generations
<1>2. Waiting \in CallRecords
  BY <1>1, NothingYet DEF Waiting, CallRecords, Whiches, Hosts
<1> QED
  BY <1>2 DEF Waiting, CallOK, CallShape, AnsweredBy

LEMMA OverOK ==
    ASSUME NEW r \in CallRecords, NEW p, NEW A \in SUBSET Answers, AnsweredBy(r, p, A)
    PROVE  Onward(Over(r, A), r, p)
<1> DEFINE n == Over(r, A)
<1>1. /\ n.pc = "done" /\ n.host = r.host /\ n.which = r.which /\ n.gen = r.gen
      /\ n.failed = r.failed /\ n.answer = A /\ n.out = {} /\ n.ended = <<>>
  BY DEF Over, CallRecords
<1>2. n \in CallRecords
  BY CallFields, NothingYet DEF Over, CallRecords
<1> HIDE DEF n
<1>3. CallShape(n, Range(Select(p, n.host)), Range(p.fallbacks))
  BY <1>1 DEF CallShape
<1>4. AnsweredBy(n, p, n.answer)
  BY <1>1 DEF AnsweredBy
<1>5. Onward(n, r, p)
  BY <1>1, <1>2, <1>3, <1>4 DEF Onward, CallOK
<1> QED
  BY <1>5 DEF n

\* Once every selected upstream has failed.
LEMMA ExhaustedOK ==
    ASSUME NEW c \in Calls, NEW r \in CallRecords, PoolTyped(PoolOf(c)),
           r.answer = {}, r.ended = <<>>, r.good = <<>>,
           Range(Select(PoolOf(c), r.host)) \subseteq r.failed
    PROVE  Onward(Exhausted(c, r), r, PoolOf(c))
<1>1. CASE Exhausted(c, r) = Over(r, {})
  <2>1. AnsweredBy(r, PoolOf(c), {}) /\ {} \in SUBSET Answers
    BY DEF AnsweredBy
  <2> QED
    BY <1>1, <2>1, OverOK
<1>2. CASE Exhausted(c, r) = [r EXCEPT !.pc = "fallback", !.order = <<>>, !.out = Range(PoolOf(c).fallbacks)]
  <2> DEFINE n == [r EXCEPT !.pc = "fallback", !.order = <<>>, !.out = Range(PoolOf(c).fallbacks)]
  <2>1. Range(PoolOf(c).fallbacks) \subseteq AllNames
    BY DEF PoolTyped, Range
  <2>2. n \in CallRecords
    BY <2>1, NothingYet DEF CallRecords
  <2>3. /\ n.pc = "fallback" /\ n.out = Range(PoolOf(c).fallbacks) /\ n.answer = {}
        /\ n.ended = <<>> /\ n.good = <<>> /\ n.host = r.host /\ n.failed = r.failed
        /\ n.gen = r.gen /\ n.which = r.which
    BY DEF CallRecords
  <2> HIDE DEF n
  <2>4. Bys(n.ended) = {}
    BY <2>3 DEF Bys
  <2>5. CallShape(n, Range(Select(PoolOf(c), n.host)), Range(PoolOf(c).fallbacks))
    BY <2>3, <2>4 DEF CallShape
  <2>6. AnsweredBy(n, PoolOf(c), n.answer)
    BY <2>3 DEF AnsweredBy
  <2>7. Onward(n, r, PoolOf(c))
    BY <2>2, <2>3, <2>5, <2>6 DEF Onward, CallOK
  <2> QED
    BY <1>2, <2>7 DEF n
<1> QED
  BY <1>1, <1>2 DEF Exhausted

\* A call before it asks.
Starting(host, w, g) == [Waiting EXCEPT !.host = host, !.which = w, !.gen = g]

LEMMA StartingFields ==
    ASSUME NEW host \in Hostnames, NEW w \in Whiches, NEW g \in Generations, NEW r, r = Starting(host, w, g)
    PROVE  /\ r \in CallRecords
           /\ r.answer = {} /\ r.ended = <<>> /\ r.good = <<>> /\ r.out = {} /\ r.host = host
           /\ r.failed = {} /\ r.gen = g /\ r.which = w
<1>1. host \in Hosts
  BY DEF Hosts
<1> QED
  BY <1>1, NothingYet DEF Starting, Waiting, CallRecords

LEMMA AskingOK ==
    ASSUME NEW host \in Hostnames, NEW w \in Whiches, NEW g \in Generations,
           NEW p, PoolTyped(p), NEW sts \in [AllNames -> Measures],
           NEW r, r = Starting(host, w, g)
    PROVE  Onward(Asking(r, p, Select(p, host), sts), r, p)
<1> DEFINE members == Select(p, host)
<1>1. members \in Seq(AllNames)
  BY SelectedAreMeant
<1>2. r \in CallRecords
  BY StartingFields
<1>3. /\ r.answer = {} /\ r.ended = <<>> /\ r.good = <<>> /\ r.out = {} /\ r.host = host
      /\ r.failed = {} /\ r.gen = g /\ r.which = w
  BY StartingFields
<1>4. CASE members = <<>>
  <2>1. AnsweredBy(r, p, {}) /\ {} \in SUBSET Answers
    BY DEF AnsweredBy
  <2>2. Asking(r, p, members, sts) = Over(r, {})
    BY <1>4 DEF Asking
  <2> QED
    BY <1>2, <2>1, <2>2, OverOK
<1>5. CASE members # <<>> /\ p.mode = "load_balance"
  <2> DEFINE order == ByScore(members, sts)
             n == [r EXCEPT !.pc = "one", !.order = order]
  <2>1. order \in Seq(AllNames) /\ Range(order) = Range(members) /\ order # <<>>
    BY <1>1, <1>5, RankedMembers
  <2>2. Asking(r, p, members, sts) = n
    BY <1>5 DEF Asking
  <2> HIDE DEF order, members
  <2>3. n \in CallRecords
    BY <1>2, <2>1 DEF CallRecords
  <2>4. /\ n.pc = "one" /\ n.order = order /\ n.answer = {} /\ n.ended = <<>> /\ n.good = <<>>
        /\ n.out = {} /\ n.host = host /\ n.failed = {} /\ n.gen = r.gen /\ n.which = r.which
    BY <1>2, <1>3 DEF CallRecords
  <2> HIDE DEF n
  <2>5. CallShape(n, Range(members), Range(p.fallbacks)) /\ AnsweredBy(n, p, n.answer)
    BY <2>1, <2>4 DEF CallShape, AnsweredBy
  <2> QED
    BY <2>2, <2>3, <2>4, <2>5 DEF Onward, CallOK, members
<1>6. CASE members # <<>> /\ p.mode # "load_balance"
  <2> DEFINE n == [r EXCEPT !.pc = p.mode, !.out = Range(members)]
  <2>1. p.mode \in {"parallel", "fastest_addr"}
    BY <1>6, NothingSelected DEF Modes
  <2>2. Asking(r, p, members, sts) = n
    BY <1>6 DEF Asking
  <2>3. Range(members) \subseteq AllNames
    BY <1>1 DEF Range
  <2> HIDE DEF members
  <2>4. n \in CallRecords
    BY <1>2, <2>1, <2>3 DEF CallRecords
  <2>5. /\ n.pc = p.mode /\ n.out = Range(members) /\ n.answer = {} /\ n.ended = <<>> /\ n.good = <<>>
        /\ n.host = host /\ n.failed = {} /\ n.gen = r.gen /\ n.which = r.which
    BY <1>2, <1>3 DEF CallRecords
  <2> HIDE DEF n
  <2>6. Bys(n.ended) = {} /\ Bys(n.good) = {}
    BY <2>5 DEF Bys
  <2>7. CallShape(n, Range(members), Range(p.fallbacks)) /\ AnsweredBy(n, p, n.answer)
    BY <2>1, <2>5, <2>6 DEF CallShape, AnsweredBy
  <2> QED
    BY <2>2, <2>4, <2>5, <2>7 DEF Onward, CallOK, members
<1> QED
  BY <1>4, <1>5, <1>6

(***************************************************************************)
(* The invariant.                                                          *)
(***************************************************************************)
\* As many numbers were handed out as there are reloads that have one.
NumbersCounted ==
    /\ upstream_generation = Cardinality({r \in Reloads : mine[r] # 0})
    /\ cfg \in [Reloads -> Upstreams]

\* A generation whose pools may be read: it was built, and is not built again.
Finished(g) ==
    /\ g \in Generations /\ g <= upstream_generation
    /\ \A r \in Reloads : mine[r] = g => pc[r] # "build"

MadeTyped ==
    /\ DOMAIN made = Generations
    /\ \A g \in Generations, w \in Whiches : PoolTyped(made[g][w])

InForceReady == inForce \in [Whiches -> Generations] /\ \A w \in Whiches : Finished(inForce[w])

StatsTyped == stats \in [Generations -> [Whiches -> [AllNames -> Measures]]]

CallsHold ==
    /\ call \in [Calls -> CallRecords]
    /\ \A c \in Calls : Finished(call[c].gen) /\ CallOK(call[c], made[call[c].gen][call[c].which])

PoolsInv ==
    ReloadInv /\ NumbersCounted /\ MadeTyped /\ InForceReady /\ StatsTyped /\ CallsHold

LEMMA ReloadsNumbered ==
    ReloadInv /\ NumbersCounted => \A r \in Reloads : mine[r] \in Generations
<1> SUFFICES ASSUME ReloadInv, NumbersCounted, NEW r \in Reloads PROVE mine[r] \in Generations
  OBVIOUS
<1>1. {s \in Reloads : mine[s] # 0} \subseteq Reloads
  OBVIOUS
<1>2. Cardinality({s \in Reloads : mine[s] # 0}) <= Cardinality(Reloads)
  BY <1>1, PoolsAssumption, FS_Subset
<1>3. Cardinality(Reloads) \in Nat
  BY PoolsAssumption, FS_CardinalityType
<1>4. mine[r] \in Nat /\ mine[r] <= upstream_generation /\ upstream_generation \in Nat
  BY DEF ReloadInv, NumbersHandedOut
<1> QED
  BY <1>2, <1>3, <1>4 DEF NumbersCounted, Generations

LEMMA ReadyGoesOn ==
    ASSUME ReloadInv, [ReloadNext]_reloadVars, NEW g
    PROVE  Finished(g) => Finished(g)'
<1> SUFFICES ASSUME Finished(g) PROVE Finished(g)'
  OBVIOUS
<1> USE DEF Finished, ReloadInv, NumbersHandedOut, Unnumbered, Goto
<1>g. g \in Nat
  BY DEF Generations
<1>1. ASSUME NEW r \in Reloads, NEW u \in Upstreams, Compare(r, u) PROVE Finished(g)'
  BY <1>1 DEF Compare
<1>2. ASSUME NEW r \in Reloads, Number(r) PROVE Finished(g)'
  BY <1>2, <1>g DEF Number
<1>3. ASSUME NEW r \in Reloads, Built(r) PROVE Finished(g)'
  BY <1>3 DEF Built
<1>4. ASSUME NEW r \in Reloads, CheckGeneration(r) PROVE Finished(g)'
  BY <1>4 DEF CheckGeneration
<1>5. ASSUME NEW r \in Reloads, StorePool(r) PROVE Finished(g)'
  BY <1>5 DEF StorePool
<1>6. ASSUME NEW r \in Reloads, SetClientPools(r) PROVE Finished(g)'
  BY <1>6 DEF SetClientPools
<1>7. ASSUME NEW r \in Reloads, SetPrivatePool(r) PROVE Finished(g)'
  BY <1>7 DEF SetPrivatePool
<1>8. CASE UNCHANGED reloadVars
  BY <1>8 DEF reloadVars
<1> QED
  BY <1>1, <1>2, <1>3, <1>4, <1>5, <1>6, <1>7, <1>8 DEF ReloadNext, RebuildStep

LEMMA CountGoesOn ==
    ASSUME ReloadInv, NumbersCounted, [ReloadNext]_reloadVars
    PROVE  NumbersCounted'
<1> DEFINE held == {r \in Reloads : mine[r] # 0}
<1>1. ASSUME NEW r \in Reloads, NEW u \in Upstreams, Compare(r, u) PROVE NumbersCounted'
  BY <1>1 DEF Compare, NumbersCounted
<1>2. ASSUME NEW r \in Reloads, Number(r) PROVE NumbersCounted'
  <2>1. r \notin held /\ upstream_generation \in Nat
    BY <1>2 DEF Number, ReloadInv, NumbersHandedOut, Unnumbered
  <2>2. held' = held \union {r}
    BY <1>2, <2>1 DEF Number, ReloadInv, NumbersHandedOut
  <2>3. IsFiniteSet(held)
    BY PoolsAssumption, FS_Subset
  <2>4. Cardinality(held \union {r}) = Cardinality(held) + 1
    BY <2>1, <2>3, FS_AddElement
  <2> QED
    BY <1>2, <2>2, <2>4 DEF Number, NumbersCounted
<1>3. ASSUME UNCHANGED <<mine, upstream_generation, cfg>> PROVE NumbersCounted'
  BY <1>3 DEF NumbersCounted
<1> QED
  BY <1>1, <1>2, <1>3 DEF ReloadNext, RebuildStep, Built, CheckGeneration, StorePool, SetClientPools,
     SetPrivatePool, reloadVars

LEMMA PoolsInitInv == PoolsInit => PoolsInv
<1> SUFFICES ASSUME PoolsInit PROVE PoolsInv
  OBVIOUS
<1>1. ReloadInv
  BY ReloadInitInv DEF PoolsInit
<1>2. NumbersCounted
  <2>1. {r \in Reloads : mine[r] # 0} = {}
    BY DEF PoolsInit, ReloadInit
  <2> QED
    BY <2>1, FS_EmptySet, UpstreamReloadAssumption DEF PoolsInit, ReloadInit, NumbersCounted
<1>3. 0 \in Generations
  BY PoolsAssumption, FS_CardinalityType DEF Generations
<1>4. Finished(0)
  BY <1>3 DEF Finished, PoolsInit, ReloadInit
<1>5. MadeTyped
  <2>1. \A w \in Whiches : PoolTyped(BuildPools(Initial, {})[w])
    BY UpstreamReloadAssumption, PoolsTyped
  <2>2. made = [g \in Generations |-> [w \in Whiches |-> IF g = 0 THEN BuildPools(Initial, {})[w] ELSE NoPool]]
    BY DEF PoolsInit
  <2> QED
    BY <2>1, <2>2, NoPoolTyped DEF MadeTyped
<1>6. InForceReady
  BY <1>3, <1>4 DEF InForceReady, PoolsInit
<1>7. StatsTyped
  <2>1. NewMember \in Measures
    BY DEF NewMember, Measures
  <2> QED
    BY <2>1 DEF StatsTyped, PoolsInit
<1>8. CallsHold
  <2>1. call = [c \in Calls |-> Waiting] /\ Waiting.gen = 0
    BY DEF PoolsInit, Waiting
  <2> QED
    BY <1>4, <2>1, WaitingOK DEF CallsHold
<1> QED
  BY <1>1, <1>2, <1>5, <1>6, <1>7, <1>8 DEF PoolsInv

\* A reload's step, other than the one that builds its pools.
LEMMA RebuildHolds ==
    ASSUME PoolsInv, ReloadNext, UNCHANGED <<made, stats, call>>, InForceReady'
    PROVE  PoolsInv'
<1>1. ReloadInv'
  BY ReloadStepInv DEF PoolsInv
<1>2. NumbersCounted'
  BY CountGoesOn DEF PoolsInv
<1>3. MadeTyped' /\ StatsTyped'
  BY DEF PoolsInv, MadeTyped, StatsTyped
<1>4. CallsHold'
  <2> SUFFICES ASSUME NEW c \in Calls
               PROVE  Finished(call[c].gen)' /\ CallOK(call[c], made[call[c].gen][call[c].which])'
    BY DEF PoolsInv, CallsHold
  <2>1. PICK g : g = call[c].gen
    OBVIOUS
  <2>2. Finished(g)'
    BY <2>1, ReadyGoesOn DEF PoolsInv, CallsHold
  <2>3. Finished(call[c].gen)'
    BY <2>1, <2>2 DEF Finished
  <2> QED
    BY <2>3 DEF PoolsInv, CallsHold
<1> QED
  BY <1>1, <1>2, <1>3, <1>4 DEF PoolsInv

LEMMA InForceGoesOn ==
    ASSUME PoolsInv, ReloadNext, inForce' = inForce
    PROVE  InForceReady'
<1> SUFFICES ASSUME NEW w \in Whiches PROVE Finished(inForce[w])'
  BY DEF PoolsInv, InForceReady
<1>1. PICK g : g = inForce[w]
  OBVIOUS
<1>2. Finished(g)'
  BY <1>1, ReadyGoesOn DEF PoolsInv, InForceReady
<1> QED
  BY <1>1, <1>2 DEF Finished

LEMMA BuildHolds ==
    ASSUME PoolsInv, NEW r \in Reloads, NEW down, BuiltPools(r, down)
    PROVE  PoolsInv'
<1>1. ReloadNext
  BY DEF BuiltPools, ReloadNext, RebuildStep
<1>2. ReloadInv' /\ NumbersCounted'
  BY <1>1, ReloadStepInv, CountGoesOn DEF PoolsInv
<1>3. InForceReady'
  BY <1>1, InForceGoesOn DEF BuiltPools
<1>4. mine[r] \in Generations /\ cfg[r] \in Upstreams
  BY ReloadsNumbered DEF PoolsInv, NumbersCounted
<1>5. /\ DOMAIN made' = Generations
      /\ \A g \in Generations : g # mine[r] => made'[g] = made[g]
      /\ made'[mine[r]] = BuildPools(cfg[r], down)
  BY <1>4 DEF BuiltPools, PoolsInv, MadeTyped
<1>6. MadeTyped'
  <2>1. \A w \in Whiches : PoolTyped(BuildPools(cfg[r], down)[w])
    BY <1>4, PoolsTyped
  <2>2. ASSUME NEW g \in Generations, NEW w \in Whiches PROVE PoolTyped(made'[g][w])
    <3>1. CASE g = mine[r]
      BY <1>5, <2>1, <3>1
    <3>2. CASE g # mine[r]
      BY <1>5, <3>2 DEF PoolsInv, MadeTyped
    <3> QED
      BY <3>1, <3>2
  <2> QED
    BY <1>5, <2>2 DEF MadeTyped, PoolTyped
<1>7. StatsTyped'
  BY DEF BuiltPools, PoolsInv, StatsTyped
<1>8. CallsHold'
  <2> SUFFICES ASSUME NEW c \in Calls
               PROVE  Finished(call[c].gen)' /\ CallOK(call[c], made[call[c].gen][call[c].which])'
    BY DEF PoolsInv, CallsHold, BuiltPools
  <2>1. PICK g : g = call[c].gen
    OBVIOUS
  <2>2. Finished(g) /\ call' = call
    BY <2>1 DEF PoolsInv, CallsHold, BuiltPools
  <2>3. Finished(g)'
    BY <1>1, <2>2, ReadyGoesOn DEF PoolsInv
  <2>4. Finished(call[c].gen)'
    BY <2>1, <2>2, <2>3 DEF Finished
  <2>5. g # mine[r]
    BY <2>2 DEF BuiltPools, Built, Finished
  <2>6. made'[g] = made[g]
    BY <1>5, <2>2, <2>5 DEF Finished
  <2> QED
    BY <2>1, <2>2, <2>4, <2>6 DEF PoolsInv, CallsHold
<1> QED
  BY <1>2, <1>3, <1>6, <1>7, <1>8 DEF PoolsInv

LEMMA InstallHolds ==
    ASSUME PoolsInv, NEW r \in Reloads, NEW w \in Whiches, Install(r, w)
    PROVE  PoolsInv'
<1>1. ReloadNext
  BY DEF Install, ReloadNext, RebuildStep
<1>2. mine[r] \in Generations
  BY ReloadsNumbered DEF PoolsInv
<1>3. Finished(mine[r])
  <2>1. pc[r] # "build" /\ mine[r] # 0
    BY DEF Install, StorePool, SetClientPools, SetPrivatePool, PoolsInv, ReloadInv, NumbersHandedOut, Unnumbered
  <2>2. \A s \in Reloads : mine[s] = mine[r] => s = r
    BY <2>1 DEF PoolsInv, ReloadInv, NumbersAreUnique
  <2>3. mine[r] <= upstream_generation
    BY DEF PoolsInv, ReloadInv, NumbersHandedOut
  <2> QED
    BY <1>2, <2>1, <2>2, <2>3 DEF Finished
<1>4. InForceReady'
  <2>1. inForce' \in [Whiches -> Generations]
    BY <1>2 DEF Install, PoolsInv, InForceReady
  <2>2. ASSUME NEW v \in Whiches PROVE Finished(inForce[v])'
    <3>1. PICK g : g = inForce'[v]
      OBVIOUS
    <3>2. Finished(g)
      BY <1>3, <3>1 DEF Install, PoolsInv, InForceReady
    <3>3. Finished(g)'
      BY <1>1, <3>2, ReadyGoesOn DEF PoolsInv
    <3> QED
      BY <3>1, <3>3 DEF Finished
  <2> QED
    BY <2>1, <2>2 DEF InForceReady
<1> QED
  BY <1>1, <1>4, RebuildHolds DEF Install

\* A call's step, to a record that holds.
LEMMA CallHolds ==
    ASSUME PoolsInv, NEW c \in Calls, UNCHANGED <<reloadVars, made, inForce>>, StatsTyped',
           NEW n \in CallRecords, Finished(n.gen), CallOK(n, made[n.gen][n.which]), Becomes(c, n)
    PROVE  PoolsInv'
<1>1. ReloadInv'
  BY ReloadStepInv DEF PoolsInv
<1>2. NumbersCounted'
  BY DEF PoolsInv, NumbersCounted, reloadVars
<1>3. MadeTyped'
  BY DEF PoolsInv, MadeTyped
<1>4. InForceReady'
  BY DEF PoolsInv, InForceReady, Finished, reloadVars
<1>5. call' \in [Calls -> CallRecords] /\ call'[c] = n /\ \A d \in Calls : d # c => call'[d] = call[d]
  BY DEF Becomes, PoolsInv, CallsHold
<1>6. ASSUME NEW d \in Calls
      PROVE  Finished(call[d].gen)' /\ CallOK(call[d], made[call[d].gen][call[d].which])'
  <2>1. Finished(call'[d].gen) /\ CallOK(call'[d], made[call'[d].gen][call'[d].which])
    <3>1. CASE d = c
      BY <1>5, <3>1
    <3>2. CASE d # c
      BY <1>5, <3>2 DEF PoolsInv, CallsHold
    <3> QED
      BY <3>1, <3>2
  <2> QED
    BY <2>1 DEF Finished, reloadVars
<1>7. CallsHold'
  BY <1>5, <1>6 DEF CallsHold
<1> QED
  BY <1>1, <1>2, <1>3, <1>4, <1>7 DEF PoolsInv

\* ... that goes on from where the call was.
LEMMA CallGoesOn ==
    ASSUME PoolsInv, NEW c \in Calls, UNCHANGED <<reloadVars, made, inForce>>, StatsTyped',
           NEW n, Onward(n, call[c], PoolOf(c)), Becomes(c, n)
    PROVE  PoolsInv'
<1>1. n \in CallRecords /\ n.gen = call[c].gen /\ n.which = call[c].which /\ CallOK(n, PoolOf(c))
  BY DEF Onward
<1>2. Finished(n.gen)
  BY <1>1 DEF PoolsInv, CallsHold
<1>3. CallOK(n, made[n.gen][n.which])
  BY <1>1 DEF PoolOf
<1> QED
  BY <1>1, <1>2, <1>3, CallHolds

LEMMA StatsSet ==
    ASSUME PoolsInv, NEW c \in Calls, NEW m \in AllNames, NEW st \in Measures, SetStat(c, m, st)
    PROVE  StatsTyped'
<1>1. call[c].gen \in Generations /\ call[c].which \in Whiches
  BY CallFields DEF PoolsInv, CallsHold
<1> QED
  BY <1>1 DEF SetStat, StatsTyped, PoolsInv

LEMMA CallFacts ==
    ASSUME PoolsInv, NEW c \in Calls
    PROVE  /\ call[c] \in CallRecords /\ PoolTyped(PoolOf(c)) /\ CallOK(call[c], PoolOf(c))
           /\ \A m \in AllNames : StatOf(c, m) \in Measures
<1>1. call[c] \in CallRecords /\ CallOK(call[c], PoolOf(c))
  BY DEF PoolsInv, CallsHold, PoolOf
<1>2. call[c].gen \in Generations /\ call[c].which \in Whiches
  BY <1>1, CallFields
<1> QED
  BY <1>1, <1>2 DEF PoolsInv, MadeTyped, StatsTyped, StatOf, PoolOf

LEMMA StartCallHolds ==
    ASSUME PoolsInv, NEW c \in Calls, NEW host \in Hostnames, NEW which \in Whiches, StartCall(c, host, which)
    PROVE  PoolsInv'
<1> DEFINE w == IF made[inForce[which]][which] = NoPool THEN "global" ELSE which
           g == inForce[w]
           p == made[g][w]
           r == Starting(host, w, g)
           n == Asking(r, p, Select(p, host), stats[g][w])
<1>1. Becomes(c, n) /\ UNCHANGED <<reloadVars, made, inForce, stats>>
  BY DEF StartCall, Starting
<1>2. w \in Whiches
  BY DEF Whiches
<1> HIDE DEF w
<1>3. g \in Generations /\ Finished(g)
  BY <1>2 DEF PoolsInv, InForceReady
<1> HIDE DEF g
<1>4. PoolTyped(p) /\ stats[g][w] \in [AllNames -> Measures]
  BY <1>2, <1>3 DEF PoolsInv, MadeTyped, StatsTyped
<1>5. r.gen = g /\ r.which = w
  BY <1>2, <1>3, StartingFields
<1> HIDE DEF r
<1>6. Onward(n, r, p)
  <2> HIDE DEF p
  <2> QED
    BY <1>2, <1>3, <1>4, AskingOK DEF r
<1> HIDE DEF n
<1>7. n \in CallRecords /\ n.gen = g /\ n.which = w /\ CallOK(n, made[n.gen][n.which])
  BY <1>5, <1>6 DEF Onward
<1>8. Finished(n.gen)
  BY <1>3, <1>7
<1>9. StatsTyped'
  BY <1>1 DEF PoolsInv, StatsTyped
<1> QED
  BY <1>1, <1>7, <1>8, <1>9, CallHolds

LEMMA DropCallHolds ==
    ASSUME PoolsInv, NEW c \in Calls, DropCall(c)
    PROVE  PoolsInv'
<1>1. StatsTyped' /\ UNCHANGED <<reloadVars, made, inForce>> /\ Becomes(c, Waiting)
  BY DEF PoolsInv, StatsTyped, DropCall
<1>2. Finished(0)
  <2>1. 0 \in Generations
    BY PoolsAssumption, FS_CardinalityType DEF Generations
  <2> QED
    BY <2>1 DEF Finished, PoolsInv, ReloadInv, NumbersHandedOut, Unnumbered
<1>3. Waiting.gen = 0
  BY DEF Waiting
<1> QED
  BY <1>1, <1>2, <1>3, WaitingOK, CallHolds

\* Load balancing asks the one whose turn it is, which was selected.
LEMMA OneInTurn ==
    ASSUME PoolsInv, NEW c \in Calls, call[c].pc = "one"
    PROVE  /\ Head(call[c].order) \in AllNames /\ Tail(call[c].order) \in Seq(AllNames)
           /\ Range(call[c].order) = {Head(call[c].order)} \union Range(Tail(call[c].order))
           /\ Range(call[c].order) \subseteq Range(Select(PoolOf(c), call[c].host))
           /\ Range(Select(PoolOf(c), call[c].host)) \subseteq call[c].failed \union Range(call[c].order)
           /\ call[c].out = {} /\ call[c].ended = <<>> /\ call[c].good = <<>> /\ call[c].answer = {}
<1>1. call[c] \in CallRecords /\ CallOK(call[c], PoolOf(c))
  BY CallFacts
<1>2. call[c].order \in Seq(AllNames)
  BY <1>1, CallFields
<1>3. /\ call[c].order # <<>>
      /\ Range(call[c].order) \subseteq Range(Select(PoolOf(c), call[c].host))
      /\ Range(Select(PoolOf(c), call[c].host)) \subseteq call[c].failed \union Range(call[c].order)
      /\ call[c].out = {} /\ call[c].ended = <<>> /\ call[c].good = <<>> /\ call[c].answer = {}
  BY <1>1 DEF CallOK, CallShape
<1> QED
  BY <1>2, <1>3, RangeHead

LEMMA OneAnswersHolds ==
    ASSUME PoolsInv, NEW c \in Calls, NEW sample \in Samples, NEW offers \in Offers,
           OneAnswers(c, sample, offers)
    PROVE  PoolsInv'
<1> DEFINE m == Head(call[c].order)
           A == {[by |-> m, offers |-> offers]}
<1>1. /\ call[c].pc = "one" /\ SetStat(c, m, RecordSuccess(StatOf(c, m), sample))
      /\ Becomes(c, Over(call[c], A)) /\ UNCHANGED <<reloadVars, made, inForce>>
  BY DEF OneAnswers
<1>2. m \in AllNames /\ m \in Range(Select(PoolOf(c), call[c].host))
  BY <1>1, OneInTurn
<1> HIDE DEF m
<1>3. StatsTyped'
  BY <1>1, <1>2, CallFacts, RecordTyped, StatsSet
<1>4. A \in SUBSET Answers
  BY <1>2 DEF Answers
<1>5. AnsweredBy(call[c], PoolOf(c), A)
  <2>1. m \in Meant(PoolOf(c), call[c].host)
    BY <1>2, CallFacts, SelectedAreMeant
  <2>2. \A a \in A : a.by = m
    OBVIOUS
  <2> HIDE DEF A
  <2> QED
    BY <2>1, <2>2 DEF AnsweredBy
<1> HIDE DEF A
<1>6. Onward(Over(call[c], A), call[c], PoolOf(c))
  BY <1>4, <1>5, CallFacts, OverOK
<1> QED
  BY <1>1, <1>3, <1>6, CallGoesOn

LEMMA OneFailsHolds ==
    ASSUME PoolsInv, NEW c \in Calls, OneFails(c)
    PROVE  PoolsInv'
<1> DEFINE m == Head(call[c].order)
           r == [call[c] EXCEPT !.order = Tail(@), !.failed = @ \union {m}]
           n == IF r.order = <<>> THEN Exhausted(c, r) ELSE r
           sel == Range(Select(PoolOf(c), call[c].host))
<1>1. /\ call[c].pc = "one" /\ SetStat(c, m, RecordFailure(StatOf(c, m)))
      /\ Becomes(c, n) /\ UNCHANGED <<reloadVars, made, inForce>>
  BY DEF OneFails
<1>2. /\ m \in AllNames /\ Tail(call[c].order) \in Seq(AllNames)
      /\ Range(call[c].order) = {m} \union Range(Tail(call[c].order))
      /\ Range(call[c].order) \subseteq sel /\ sel \subseteq call[c].failed \union Range(call[c].order)
      /\ call[c].out = {} /\ call[c].ended = <<>> /\ call[c].good = <<>> /\ call[c].answer = {}
  BY <1>1, OneInTurn
<1> HIDE DEF m
<1>3. StatsTyped'
  BY <1>1, <1>2, CallFacts, RecordTyped, StatsSet
<1>4. call[c] \in CallRecords /\ PoolTyped(PoolOf(c))
  BY CallFacts
<1>5. /\ r.pc = "one" /\ r.order = Tail(call[c].order) /\ r.failed = call[c].failed \union {m}
      /\ r.out = {} /\ r.ended = <<>> /\ r.good = <<>> /\ r.answer = {}
      /\ r.host = call[c].host /\ r.gen = call[c].gen /\ r.which = call[c].which
  BY <1>1, <1>2, <1>4 DEF CallRecords
<1>6. r \in CallRecords
  BY <1>2, <1>4 DEF CallRecords
<1> HIDE DEF r
<1>7. Range(r.order) \subseteq sel /\ sel \subseteq r.failed \union Range(r.order)
  BY <1>2, <1>5
<1>8. CASE r.order = <<>>
  <2>1. Range(r.order) = {}
    BY <1>8 DEF Range
  <2>2. Range(Select(PoolOf(c), r.host)) \subseteq r.failed
    BY <1>5, <1>7, <2>1
  <2>3. Onward(Exhausted(c, r), r, PoolOf(c))
    BY <1>4, <1>5, <1>6, <2>2, ExhaustedOK
  <2>4. Onward(n, call[c], PoolOf(c))
    BY <1>5, <1>8, <2>3 DEF Onward
  <2> QED
    BY <1>1, <1>3, <2>4, CallGoesOn
<1>9. CASE r.order # <<>>
  <2>1. CallShape(r, sel, Range(PoolOf(c).fallbacks)) /\ AnsweredBy(r, PoolOf(c), r.answer)
    BY <1>5, <1>7, <1>9 DEF CallShape, AnsweredBy
  <2>2. Onward(r, call[c], PoolOf(c))
    BY <1>5, <1>6, <2>1 DEF Onward, CallOK
  <2>3. Becomes(c, r)
    BY <1>1, <1>9
  <2> QED
    BY <1>1, <1>3, <2>2, <2>3, CallGoesOn
<1> QED
  BY <1>8, <1>9

\* A task ends: from those asked to those heard of.
LEMMA TaskEnds ==
    ASSUME PoolsInv, NEW c \in Calls, NEW m \in call[c].out, NEW e \in Ends, e.by = m,
           UNCHANGED <<reloadVars, made, inForce>>, StatsTyped',
           Becomes(c, [call[c] EXCEPT !.out = @ \ {m}, !.ended = Append(@, e)])
    PROVE  PoolsInv'
<1> DEFINE r == call[c]
           n == [r EXCEPT !.out = @ \ {m}, !.ended = Append(@, e)]
           sel == Range(Select(PoolOf(c), r.host))
           fb == Range(PoolOf(c).fallbacks)
<1>1. r \in CallRecords /\ CallOK(r, PoolOf(c))
  BY CallFacts
<1>2. r.out \subseteq AllNames /\ r.ended \in Seq(Ends)
  BY <1>1, CallFields
<1> HIDE DEF r
<1>3. /\ n.out = r.out \ {m} /\ n.ended = Append(r.ended, e) /\ n.pc = r.pc /\ n.host = r.host
      /\ n.which = r.which /\ n.gen = r.gen /\ n.order = r.order /\ n.good = r.good /\ n.failed = r.failed
      /\ n.answer = r.answer
  BY <1>1 DEF CallRecords
<1>4. n \in CallRecords
  <2>1. Append(r.ended, e) \in Seq(Ends) /\ r.out \ {m} \in SUBSET AllNames
    BY <1>2
  <2> QED
    BY <1>1, <2>1 DEF CallRecords
<1> HIDE DEF n
<1>5. Bys(n.ended) = Bys(r.ended) \union {m}
  BY <1>2, <1>3, BysAppend
<1>6. CallShape(r, sel, fb) /\ AnsweredBy(r, PoolOf(c), r.answer) /\ m \in r.out
  BY <1>1 DEF CallOK, r
<1>7. CallShape(n, sel, fb)
  <2>1. r.pc \in {"parallel", "fastest_addr", "fallback"}
    BY <1>1, <1>6, CallFields DEF CallShape
  <2> QED
    BY <1>3, <1>5, <1>6, <2>1 DEF CallShape
<1>8. AnsweredBy(n, PoolOf(c), n.answer)
  BY <1>3, <1>6 DEF AnsweredBy
<1>9. Onward(n, r, PoolOf(c))
  BY <1>3, <1>4, <1>7, <1>8 DEF Onward, CallOK
<1> QED
  BY <1>9, CallGoesOn DEF n, r

LEMMA TaskAnswersHolds ==
    ASSUME PoolsInv, NEW c \in Calls, NEW m \in call[c].out, NEW sample \in Samples, NEW offers \in Offers,
           TaskAnswers(c, m, sample, offers)
    PROVE  PoolsInv'
<1> DEFINE e == [by |-> m, ok |-> TRUE, offers |-> offers]
<1>1. m \in AllNames
  BY CallFacts, CallFields
<1>2. e \in Ends /\ e.by = m
  BY <1>1 DEF Ends
<1>3. /\ UNCHANGED <<reloadVars, made, inForce>>
      /\ SetStat(c, m, RecordSuccess(StatOf(c, m), sample))
      /\ Becomes(c, [call[c] EXCEPT !.out = @ \ {m}, !.ended = Append(@, e)])
  BY DEF TaskAnswers
<1> HIDE DEF e
<1>4. StatsTyped'
  BY <1>1, <1>3, CallFacts, RecordTyped, StatsSet
<1> QED
  BY <1>2, <1>3, <1>4, TaskEnds

LEMMA TaskFailsHolds ==
    ASSUME PoolsInv, NEW c \in Calls, NEW m \in call[c].out, TaskFails(c, m)
    PROVE  PoolsInv'
<1> DEFINE e == [by |-> m, ok |-> FALSE, offers |-> {}]
<1>1. m \in AllNames
  BY CallFacts, CallFields
<1>2. e \in Ends /\ e.by = m
  BY <1>1 DEF Ends
<1>3. /\ UNCHANGED <<reloadVars, made, inForce>>
      /\ SetStat(c, m, RecordFailure(StatOf(c, m)))
      /\ Becomes(c, [call[c] EXCEPT !.out = @ \ {m}, !.ended = Append(@, e)])
  BY DEF TaskFails
<1> HIDE DEF e
<1>4. StatsTyped'
  BY <1>1, <1>3, CallFacts, RecordTyped, StatsSet
<1> QED
  BY <1>2, <1>3, <1>4, TaskEnds

LEMMA ProbeHolds ==
    ASSUME PoolsInv, NEW c \in Calls, NEW best, Probe(c, best)
    PROVE  PoolsInv'
<1> DEFINE first == Head(call[c].good)
           offers == IF best = {} THEN first.offers ELSE best
           A == {[by |-> first.by, offers |-> offers]}
<1>1. /\ call[c].pc = "probe" /\ best \subseteq UNION {e.offers : e \in Range(call[c].good)}
      /\ Becomes(c, Over(call[c], A)) /\ UNCHANGED <<reloadVars, made, inForce, stats>>
  BY DEF Probe
<1>2. call[c] \in CallRecords /\ CallOK(call[c], PoolOf(c)) /\ PoolTyped(PoolOf(c))
  BY CallFacts
<1>3. call[c].good \in Seq(Ends)
  BY <1>2, CallFields
<1>4. call[c].good # <<>> /\ Bys(call[c].good) \subseteq Range(Select(PoolOf(c), call[c].host))
  BY <1>1, <1>2 DEF CallOK, CallShape
<1>5. first \in Ends /\ first.by \in Range(Select(PoolOf(c), call[c].host))
  BY <1>3, <1>4, BysHead
<1> HIDE DEF first
<1>6. offers \in SUBSET UNION Offers
  <2>1. first.offers \in SUBSET UNION Offers
    BY <1>5 DEF Ends
  <2>2. \A e \in Range(call[c].good) : e.offers \in SUBSET UNION Offers
    <3>1. Range(call[c].good) \subseteq Ends
      BY <1>3 DEF Range
    <3> QED
      BY <3>1 DEF Ends
  <2>3. best \in SUBSET UNION Offers
    BY <1>1, <2>2
  <2> QED
    BY <2>1, <2>3
<1> HIDE DEF offers
<1>7. A \in SUBSET Answers
  BY <1>5, <1>6 DEF Answers, Ends
<1>8. AnsweredBy(call[c], PoolOf(c), A)
  <2>1. first.by \in Meant(PoolOf(c), call[c].host)
    BY <1>2, <1>5, SelectedAreMeant
  <2>2. \A a \in A : a.by = first.by
    OBVIOUS
  <2> HIDE DEF A
  <2> QED
    BY <2>1, <2>2 DEF AnsweredBy
<1> HIDE DEF A
<1>9. Onward(Over(call[c], A), call[c], PoolOf(c))
  BY <1>2, <1>7, <1>8, OverOK
<1>10. StatsTyped'
  BY <1>1 DEF PoolsInv, StatsTyped
<1> QED
  BY <1>1, <1>9, <1>10, CallGoesOn

LEMMA JoinHolds ==
    ASSUME PoolsInv, NEW c \in Calls, Join(c)
    PROVE  PoolsInv'
<1> DEFINE q == call[c]
           e == Head(q.ended)
           r == [q EXCEPT !.ended = Tail(@), !.failed = IF e.ok THEN @ ELSE @ \union {e.by},
                          !.good = IF e.ok THEN Append(@, e) ELSE @]
           all == ~(r.out # {} \/ r.ended # <<>>)
           A == {[by |-> e.by, offers |-> e.offers]}
           n == IF r.pc # "fastest_addr" /\ e.ok THEN Over(r, A)
                ELSE IF r.out # {} \/ r.ended # <<>> THEN r
                ELSE IF r.good = <<>> THEN Exhausted(c, r) ELSE [r EXCEPT !.pc = "probe"]
           sel == Range(Select(PoolOf(c), q.host))
           fb == Range(PoolOf(c).fallbacks)
<1>1. q.ended # <<>> /\ Becomes(c, n) /\ UNCHANGED <<reloadVars, made, inForce, stats>>
  BY DEF Join
<1>2. q \in CallRecords /\ CallOK(q, PoolOf(c)) /\ PoolTyped(PoolOf(c))
  BY CallFacts
<1>3. /\ q.ended \in Seq(Ends) /\ q.good \in Seq(Ends)
      /\ q.pc \in {"idle", "one", "parallel", "fastest_addr", "fallback", "probe", "done"}
  BY <1>2, CallFields
<1>4. e \in Ends /\ Tail(q.ended) \in Seq(Ends) /\ Bys(q.ended) = {e.by} \union Bys(Tail(q.ended))
  BY <1>1, <1>3, BysHead
<1>5. e.by \in AllNames /\ e.ok \in BOOLEAN /\ e.offers \in SUBSET UNION Offers
  BY <1>4 DEF Ends
<1>6. StatsTyped'
  BY <1>1 DEF PoolsInv, StatsTyped
<1>7. Onward(n, q, PoolOf(c)) => PoolsInv'
  <2> HIDE DEF n
  <2> QED
    BY <1>1, <1>6, CallGoesOn
<1> HIDE DEF e
<1>8. CallShape(q, sel, fb) /\ q.pc \in {"parallel", "fastest_addr", "fallback"}
  BY <1>1, <1>2, <1>3 DEF CallOK, CallShape
<1> HIDE DEF q
<1>9. /\ r.pc = q.pc /\ r.host = q.host /\ r.gen = q.gen /\ r.which = q.which /\ r.out = q.out
      /\ r.answer = q.answer /\ r.ended = Tail(q.ended)
      /\ r.failed = (IF e.ok THEN q.failed ELSE q.failed \union {e.by})
      /\ r.good = (IF e.ok THEN Append(q.good, e) ELSE q.good)
  BY <1>2 DEF CallRecords
<1>10. r \in CallRecords
  <2>1. (IF e.ok THEN Append(q.good, e) ELSE q.good) \in Seq(Ends)
    BY <1>3, <1>4
  <2>2. (IF e.ok THEN q.failed ELSE q.failed \union {e.by}) \in SUBSET AllNames
    BY <1>2, <1>5, CallFields
  <2> QED
    BY <1>2, <1>4, <2>1, <2>2 DEF CallRecords
<1> HIDE DEF r
<1>11. q.answer = {} /\ r.answer = {}
  BY <1>8, <1>9 DEF CallShape
<1>12. Bys(r.good) = (IF e.ok THEN Bys(q.good) \union {e.by} ELSE Bys(q.good))
  <2>1. CASE e.ok
    <3>1. r.good = Append(q.good, e)
      BY <1>9, <2>1
    <3> QED
      BY <1>3, <1>4, <2>1, <3>1, BysAppend
  <2>2. CASE ~e.ok
    BY <1>9, <2>2
  <2> QED
    BY <2>1, <2>2
<1>13. CASE r.pc # "fastest_addr" /\ e.ok
  <2>1. n = Over(r, A)
    BY <1>13
  <2>2. A \in SUBSET Answers
    BY <1>5 DEF Answers
  <2>3. \A a \in A : a.by = e.by
    OBVIOUS
  <2> HIDE DEF A, n
  <2>4. AnsweredBy(r, PoolOf(c), A)
    <3>1. CASE r.pc = "parallel"
      <4>1. e.by \in sel
        BY <1>4, <1>8, <1>9, <3>1 DEF CallShape
      <4>2. e.by \in Meant(PoolOf(c), r.host)
        BY <1>2, <1>9, <4>1, SelectedAreMeant
      <4> QED
        BY <2>3, <4>2 DEF AnsweredBy
    <3>2. CASE r.pc = "fallback"
      <4>1. e.by \in fb /\ sel \subseteq r.failed
        BY <1>4, <1>8, <1>9, <3>2 DEF CallShape
      <4> QED
        BY <1>9, <2>3, <4>1 DEF AnsweredBy
    <3> QED
      BY <1>8, <1>9, <1>13, <3>1, <3>2
  <2>5. Onward(Over(r, A), r, PoolOf(c))
    BY <1>10, <2>2, <2>4, OverOK
  <2>6. Onward(n, q, PoolOf(c))
    BY <1>9, <2>1, <2>5 DEF Onward
  <2> QED
    BY <1>7, <2>6
<1>14. CASE ~(r.pc # "fastest_addr" /\ e.ok) /\ all /\ r.good = <<>>
  <2>1. n = Exhausted(c, r)
    BY <1>14
  <2> HIDE DEF n
  <2>2. Bys(r.good) = {} /\ Bys(r.ended) = {}
    BY <1>14 DEF Bys
  <2>3. Bys(Tail(q.ended)) = {} /\ r.out = {} /\ r.ended = <<>>
    BY <1>9, <1>14, <2>2
  <2>4. ~e.ok
    BY <1>12, <2>2
  <2>5. sel \subseteq r.failed
    BY <1>4, <1>8, <1>9, <1>12, <2>2, <2>3, <2>4 DEF CallShape
  <2>6. Onward(Exhausted(c, r), r, PoolOf(c))
    BY <1>2, <1>9, <1>10, <1>11, <1>14, <2>3, <2>5, ExhaustedOK
  <2>7. Onward(n, q, PoolOf(c))
    BY <1>9, <2>1, <2>6 DEF Onward
  <2> QED
    BY <1>7, <2>7
<1>15. CASE ~(r.pc # "fastest_addr" /\ e.ok) /\ all /\ r.good # <<>>
  <2> DEFINE m == [r EXCEPT !.pc = "probe"]
  <2>1. n = m
    BY <1>15
  <2> HIDE DEF n
  <2>2. /\ m.pc = "probe" /\ m.good = r.good /\ m.out = {} /\ m.ended = <<>> /\ m.answer = {}
        /\ m.host = r.host /\ m.gen = r.gen /\ m.which = r.which
    BY <1>10, <1>11, <1>15 DEF CallRecords
  <2>3. m \in CallRecords
    BY <1>10 DEF CallRecords
  <2> HIDE DEF m
  <2>4. r.pc = "fastest_addr"
    BY <1>8, <1>9, <1>15 DEF CallShape
  <2>5. Bys(r.good) \subseteq sel
    BY <1>4, <1>8, <1>9, <1>12, <2>4 DEF CallShape
  <2>6. CallShape(m, sel, fb) /\ AnsweredBy(m, PoolOf(c), m.answer)
    BY <1>15, <2>2, <2>5 DEF CallShape, AnsweredBy
  <2>7. Onward(n, q, PoolOf(c))
    BY <1>9, <2>1, <2>2, <2>3, <2>6 DEF Onward, CallOK
  <2> QED
    BY <1>7, <2>7
<1>16. CASE ~(r.pc # "fastest_addr" /\ e.ok) /\ ~all
  <2>1. n = r
    BY <1>16
  <2> HIDE DEF n
  <2>2. CallShape(r, sel, fb)
    BY <1>4, <1>8, <1>9, <1>11, <1>12, <1>16 DEF CallShape
  <2>3. AnsweredBy(r, PoolOf(c), r.answer)
    BY <1>11 DEF AnsweredBy
  <2>4. Onward(n, q, PoolOf(c))
    BY <1>9, <1>10, <2>1, <2>2, <2>3 DEF Onward, CallOK
  <2> QED
    BY <1>7, <2>4
<1> QED
  BY <1>13, <1>14, <1>15, <1>16

LEMMA PoolsStepInv == PoolsInv /\ [PoolsNext]_allPoolVars => PoolsInv'
<1> SUFFICES ASSUME PoolsInv, [PoolsNext]_allPoolVars PROVE PoolsInv'
  OBVIOUS
<1>1. ASSUME NEW r \in Reloads, Rebuild(r) PROVE PoolsInv'
  <2>1. ASSUME Number(r) \/ CheckGeneration(r), UNCHANGED poolVars PROVE PoolsInv'
    <3>1. ReloadNext
      BY <2>1 DEF ReloadNext, RebuildStep
    <3>2. UNCHANGED <<made, inForce, stats, call>>
      BY <2>1 DEF poolVars
    <3> QED
      BY <3>1, <3>2, InForceGoesOn, RebuildHolds
  <2> QED
    BY <1>1, <2>1, BuildHolds, InstallHolds DEF Rebuild
<1>2. ASSUME NEW r \in Reloads, NEW u \in Upstreams, Compare(r, u), UNCHANGED poolVars PROVE PoolsInv'
  <2>1. ReloadNext
    BY <1>2 DEF ReloadNext
  <2>2. UNCHANGED <<made, inForce, stats, call>>
    BY <1>2 DEF poolVars
  <2> QED
    BY <2>1, <2>2, InForceGoesOn, RebuildHolds
<1>3. ASSUME NEW c \in Calls, CallStep(c) PROVE PoolsInv'
  <2>1. ASSUME NEW s \in Samples, NEW o \in Offers, OneAnswers(c, s, o) PROVE PoolsInv'
    BY <2>1, OneAnswersHolds
  <2>2. ASSUME NEW s \in Samples, NEW o \in Offers, NEW m \in call[c].out, TaskAnswers(c, m, s, o)
        PROVE  PoolsInv'
    BY <2>2, TaskAnswersHolds
  <2>3. ASSUME NEW m \in call[c].out, TaskFails(c, m) PROVE PoolsInv'
    BY <2>3, TaskFailsHolds
  <2>4. ASSUME NEW best, Probe(c, best) PROVE PoolsInv'
    BY <2>4, ProbeHolds
  <2> QED
    BY <1>3, <2>1, <2>2, <2>3, <2>4, OneFailsHolds, JoinHolds DEF CallStep
<1>4. ASSUME NEW c \in Calls, NEW h \in Hostnames, NEW w \in Whiches, StartCall(c, h, w) PROVE PoolsInv'
  BY <1>4, StartCallHolds
<1>5. CASE UNCHANGED allPoolVars
  <2>1. UNCHANGED <<reloadVars, made, inForce, stats, call>>
    BY <1>5 DEF allPoolVars, poolVars
  <2>2. ReloadInv'
    BY <2>1, ReloadStepInv DEF PoolsInv
  <2> QED
    BY <2>1, <2>2 DEF PoolsInv, NumbersCounted, MadeTyped, InForceReady, StatsTyped, CallsHold, Finished, reloadVars
<1> QED
  BY <1>1, <1>2, <1>3, <1>4, <1>5, DropCallHolds DEF PoolsNext

\* Pool::exchange, for any settings, names, samples and number of queries, and
\* any reloads meanwhile: an answer is from an upstream that was meant for the
\* name in the pool the query loaded, or from a fallback after each upstream
\* selected for it has failed.
THEOREM FallbacksComeLastHolds == PoolsSpec => []FallbacksComeLast
<1>1. PoolsInit => PoolsInv
  BY PoolsInitInv
<1>2. PoolsInv /\ [PoolsNext]_allPoolVars => PoolsInv'
  BY PoolsStepInv
<1>3. PoolsInv => FallbacksComeLast
  BY DEF PoolsInv, CallsHold, CallOK, AnsweredBy, FallbacksComeLast, PoolOf
<1> QED
  BY <1>1, <1>2, <1>3, PTL DEF PoolsSpec
=============================================================================
