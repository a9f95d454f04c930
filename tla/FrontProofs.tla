----------------------------- MODULE FrontProofs -----------------------------
(***************************************************************************)
(* Proofs about the DNS front end and the log of what it answered: for any *)
(* slots, settings, addresses and bounds, the rate limit through a change  *)
(* of the settings and the strikes for which the guard shuts a source out; *)
(* for any threads and buffer, the entries of the query log.               *)
(***************************************************************************)
EXTENDS Listeners, QueryLog, FiniteSetTheorems, TLAPS

(***************************************************************************)
(* Arithmetic of the buckets.                                              *)
(***************************************************************************)
LEMMA MinOfTwo ==
    ASSUME NEW a \in Int, NEW b \in Int
    PROVE  Min({a, b}) = IF a <= b THEN a ELSE b
<1>1. \E x \in {a, b} : \A y \in {a, b} : x <= y
      OBVIOUS
<1>2. Min({a, b}) \in {a, b} /\ \A y \in {a, b} : Min({a, b}) <= y
      BY <1>1 DEF Min
<1> QED
    BY <1>2

LEMMA Products ==
    ASSUME NEW a \in Nat, NEW b \in Nat, NEW p \in Nat, a <= b
    PROVE  a * p \in Nat /\ a * p <= b * p /\ (a + 1) * p = a * p + p /\ a * p = p * a
<1>1. PICK d \in Nat : b = a + d
  <2>1. b - a \in Nat /\ b = a + (b - a)
        OBVIOUS
  <2> QED
      BY <2>1
<1>2. a * p \in Nat /\ d * p \in Nat /\ (a + 1) * p = a * p + p /\ a * p = p * a
      BY SMT
<1>3. b * p = a * p + d * p
      BY <1>1, SMT
<1> QED
    BY <1>2, <1>3

\* A bucket that can be charged.
BucketOK(b) == b.tokens \in Nat /\ b.last \in Nat /\ b.last <= ticks

LimitOK(conf) == conf.per_second \in Nat

LEMMA RefilledBounds ==
    ASSUME NEW map, NEW key, NEW conf, LimitOK(conf), ticks \in Nat,
           key \in DOMAIN map => BucketOK(map[key]),
           NEW now \in Nat, now <= ticks
    PROVE  /\ Capacity(conf) \in Nat
           /\ Refilled(map, key, conf, now) \in Nat
           /\ Refilled(map, key, conf, now) <= Capacity(conf)
           /\ Refilled(map, key, conf, now) <= Refilled(map, key, conf, ticks)
<1>0. TicksPerSecond \in Nat /\ Capacity(conf) \in Nat
      BY ServerBounds, Products DEF Capacity, LimitOK
<1>1. CASE key \notin DOMAIN map
      BY <1>0, <1>1 DEF Refilled
<1>2. CASE key \in DOMAIN map
  <2>1. PICK tokens \in Nat, last \in Nat :
            tokens = map[key].tokens /\ last = map[key].last /\ last <= ticks
        BY <1>2 DEF BucketOK
  <2>2. PICK p \in Nat : p = conf.per_second
        BY DEF LimitOK
  <2>3. PICK d \in Nat, e \in Nat : d = Since(now, last) /\ e = Since(ticks, last) /\ d <= e
        BY <2>1 DEF Since
  <2>4. d * p \in Nat /\ e * p \in Nat /\ d * p <= e * p
        BY <2>3, Products
  <2>5. /\ Refilled(map, key, conf, now) = Min({tokens + d * p, Capacity(conf)})
        /\ Refilled(map, key, conf, ticks) = Min({tokens + e * p, Capacity(conf)})
        BY <1>2, <2>1, <2>2, <2>3 DEF Refilled
  <2> QED
      BY <1>0, <2>4, <2>5, MinOfTwo
<1> QED
    BY <1>1, <1>2

\* Forgetting a bucket that has been idle takes nothing from it: by then it
\* would be full.
LEMMA SweepKeepsTokens ==
    ASSUME NEW map, NEW now \in Nat, now <= ticks, ticks \in Nat,
           \A k \in DOMAIN map : BucketOK(map[k]),
           NEW conf, LimitOK(conf), NEW key
    PROVE  /\ \A k \in DOMAIN Sweep(map, now) :
                 k \in DOMAIN map /\ Sweep(map, now)[k] = map[k]
           /\ Refilled(Sweep(map, now), key, conf, ticks) = Refilled(map, key, conf, ticks)
<1>1. \A k \in DOMAIN Sweep(map, now) : k \in DOMAIN map /\ Sweep(map, now)[k] = map[k]
      BY DEF Sweep
<1>2. CASE key \in DOMAIN Sweep(map, now) \/ key \notin DOMAIN map
      BY <1>1, <1>2 DEF Refilled
<1>3. CASE key \notin DOMAIN Sweep(map, now) /\ key \in DOMAIN map
  <2>1. Since(now, map[key].last) >= IdleTtl
        BY <1>3, ServerBounds DEF Sweep, BucketOK, Since
  <2>2. PICK tokens \in Nat, last \in Nat :
            tokens = map[key].tokens /\ last = map[key].last /\ last <= ticks
        BY <1>3 DEF BucketOK
  <2>3. PICK p \in Nat : p = conf.per_second
        BY DEF LimitOK
  <2>4. PICK e \in Nat : e = Since(ticks, last) /\ e >= TicksPerSecond
        BY <2>1, <2>2, ServerBounds DEF Since
  <2>5. /\ TicksPerSecond \in Nat
        /\ e * p \in Nat /\ TicksPerSecond * p \in Nat /\ TicksPerSecond * p <= e * p
        /\ TicksPerSecond * p = p * TicksPerSecond
        BY <2>4, ServerBounds, Products
  <2>6. Capacity(conf) = p * TicksPerSecond
        BY <2>3 DEF Capacity
  <2>7. Refilled(map, key, conf, ticks) = Min({tokens + e * p, Capacity(conf)})
        BY <1>3, <2>2, <2>3, <2>4 DEF Refilled
  <2>8. Refilled(map, key, conf, ticks) = Capacity(conf)
        BY <2>5, <2>6, <2>7, MinOfTwo
  <2> QED
      BY <1>1, <1>3, <2>8 DEF Refilled
<1> QED
    BY <1>1, <1>2, <1>3

(***************************************************************************)
(* The queries under way: one that is about to charge a bucket carries the *)
(* settings and the time it read.                                          *)
(***************************************************************************)
QueryOK(q) ==
    /\ "pc" \in DOMAIN q
    /\ q.pc # "none" => {"conf", "at"} \subseteq DOMAIN q
    /\ q.pc = "charge" => q.at \in Nat /\ \E c : q.conf = {c} /\ LimitOK(c)

QueriesOK == DOMAIN queries = Slots /\ \A s \in Slots : QueryOK(queries[s])

LEMMA QueriesStep ==
    ASSUME QueriesOK, LimitOK(limit), ticks \in Nat, [FrontNext]_frontVars
    PROVE  QueriesOK'
<1>1. ASSUME NEW s \in Slots, NEW q, QueryOK(q), queries' = [queries EXCEPT ![s] = q]
      PROVE  QueriesOK'
      BY <1>1 DEF QueriesOK
<1>2. CASE queries' = queries
      BY <1>2 DEF QueriesOK
<1>3. QueryOK(NoQuery)
      BY DEF QueryOK, NoQuery
<1>4. ASSUME NEW s \in Slots, NEW next, queries[s].pc # "none", next # "charge", Moved(s, next)
      PROVE  QueriesOK'
  <2>1. PICK q : q = [queries[s] EXCEPT !.pc = next]
        OBVIOUS
  <2>2. QueryOK(q)
        BY <1>4, <2>1 DEF QueriesOK, QueryOK
  <2>3. queries' = [queries EXCEPT ![s] = q]
        BY <1>4, <2>1 DEF Moved
  <2> QED
      BY <1>1, <2>2, <2>3
<1>5. ASSUME NEW s \in Slots, CheckAccess(s)
      PROVE  QueriesOK'
  <2>1. PICK next : Moved(s, next) /\ next \in {"limit", "bound", "silent", "refused"}
        BY <1>5 DEF CheckAccess
  <2> QED
      BY <1>4, <1>5, <2>1 DEF CheckAccess
<1>6. ASSUME NEW s \in Slots, ReadLimit(s)
      PROVE  QueriesOK'
  <2>1. CASE Moved(s, "bound")
        BY <1>4, <1>6, <2>1 DEF ReadLimit
  <2>2. CASE ~Moved(s, "bound")
    <3>1. PICK q : q = [queries[s] EXCEPT !.pc = "charge", !.conf = {limit}, !.at = ticks]
          OBVIOUS
    <3>2. queries[s].pc # "none" /\ QueryOK(queries[s])
          BY <1>6 DEF ReadLimit, QueriesOK
    <3>3. q.pc = "charge" /\ q.conf = {limit} /\ q.at = ticks /\ DOMAIN q = DOMAIN queries[s]
          BY <3>1, <3>2 DEF QueryOK
    <3>4. QueryOK(q)
          BY <3>2, <3>3 DEF QueryOK
    <3>5. queries' = [queries EXCEPT ![s] = q]
          BY <1>6, <2>2, <3>1 DEF ReadLimit
    <3> QED
        BY <1>1, <3>4, <3>5
  <2> QED
      BY <2>1, <2>2
<1>7. ASSUME NEW s \in Slots, Charge(s)
      PROVE  QueriesOK'
  <2>1. PICK next : /\ next \in {"bound", "silent"}
                    /\ queries' = [queries EXCEPT ![s].pc = next, ![s].conf = {}, ![s].at = 0]
        BY <1>7, ZenonT(30) DEF Charge
  <2>2. PICK q : q = [queries[s] EXCEPT !.pc = next, !.conf = {}, !.at = 0]
        OBVIOUS
  <2>3. queries[s].pc # "none" /\ QueryOK(queries[s])
        BY <1>7 DEF Charge, QueriesOK
  <2>4. q.pc = next /\ DOMAIN q = DOMAIN queries[s]
        BY <2>2, <2>3 DEF QueryOK
  <2>5. QueryOK(q)
        BY <2>1, <2>3, <2>4 DEF QueryOK
  <2>6. queries' = [queries EXCEPT ![s] = q]
        BY <2>1, <2>2
  <2> QED
      BY <1>1, <2>5, <2>6
<1>8. ASSUME NEW s \in Slots, ReadBound(s)
      PROVE  QueriesOK'
  <2>1. PICK g : g = Cardinality(DOMAIN semaphores)
        OBVIOUS
  <2>2. PICK q : q = [queries[s] EXCEPT !.pc = "wait", !.sem = g]
        OBVIOUS
  <2>3. queries[s].pc # "none" /\ QueryOK(queries[s])
        BY <1>8 DEF ReadBound, QueriesOK
  <2>4. q.pc = "wait" /\ DOMAIN q = DOMAIN queries[s]
        BY <2>2, <2>3 DEF QueryOK
  <2>5. QueryOK(q)
        BY <2>3, <2>4 DEF QueryOK
  <2>6. queries' = [queries EXCEPT ![s] = q]
        BY <1>8, <2>1, <2>2 DEF ReadBound
  <2> QED
      BY <1>1, <2>5, <2>6
<1>9. ASSUME NEW s \in Slots, AcquirePermit(s)
      PROVE  QueriesOK'
      BY <1>4, <1>9 DEF AcquirePermit
<1>10. ASSUME NEW s \in Slots, NEW outcome \in {"answered", "silent"}, ResolveQuery(s, outcome)
       PROVE  QueriesOK'
       BY <1>4, <1>10 DEF ResolveQuery
<1>11. ASSUME NEW s \in Slots, NEW proto, NEW ip, NEW id, NEW parses,
              queries' = [queries EXCEPT ![s] = NewQuery(proto, ip, id, parses)]
       PROVE  QueriesOK'
  <2>1. PICK q : q = NewQuery(proto, ip, id, parses)
        OBVIOUS
  <2>2. q.pc = "access" /\ DOMAIN q = {"pc", "proto", "ip", "id", "parses", "conf", "at", "sem"}
        BY <2>1 DEF NewQuery
  <2>3. QueryOK(q)
        BY <2>2 DEF QueryOK
  <2> QED
      BY <1>1, <1>11, <2>1, <2>3
<1>12. ASSUME NEW s \in Slots, Visit(s)
       PROVE  QueriesOK'
  <2>1. ASSUME NEW ip, NEW parses, Datagram(s, ip, parses)
        PROVE  QueriesOK'
        BY <1>11, <2>1 DEF Datagram
  <2>2. ASSUME NEW proto, NEW ip, NEW id, Accept(s, proto, ip, id)
        PROVE  queries' = queries
        BY <2>2 DEF Accept, serverVars
  <2>3. ASSUME NEW parses, NEW forwarded, Ask(s, parses, forwarded)
        PROVE  QueriesOK'
    <3>1. PICK ip : queries' = [queries EXCEPT ![s] = NewQuery(conns[s].proto, ip, conns[s].id, parses)]
          BY <2>3 DEF Ask
    <3> QED
        BY <1>11, <3>1
  <2> QED
      BY <1>2, <1>12, <2>1, <2>2, <2>3 DEF Visit
<1>13. ASSUME NEW s \in Slots, Reply(s)
       PROVE  QueriesOK'
  <2>1. CASE conns[s].proto = "quic"
    <3>1. Moved(s, "written") /\ queries[s].pc # "none"
          BY <1>13, <2>1 DEF Reply, Moved
    <3> QED
        BY <1>4, <3>1
  <2>2. CASE conns[s].proto # "quic"
        BY <1>1, <1>3, <1>13, <2>2 DEF Reply
  <2> QED
      BY <2>1, <2>2
<1>14. ASSUME NEW s \in Slots, CountServed(s) \/ EndTask(s) \/ EndConn(s)
       PROVE  QueriesOK'
  <2>1. queries' = queries \/ queries' = [queries EXCEPT ![s] = NoQuery]
        BY <1>14 DEF CountServed, EndTask, EndConn
  <2> QED
      BY <1>1, <1>2, <1>3, <2>1
<1>15. ASSUME NEW s \in Slots, HandshakeDone(s) \/ HandshakeFails(s) \/ OtherRequest(s)
       PROVE  queries' = queries
       BY <1>15 DEF HandshakeDone, HandshakeFails, OtherRequest, serverVars
<1>16. ASSUME SaveServer \/ Tick \/ \E save \in saving : SetGuard(save)
       PROVE  queries' = queries
       BY <1>16 DEF SaveServer, StartSave, SetMaxConcurrent, SetAccess, SetLimit, ClearBuckets,
                    Tick, SetGuard
<1>17. ASSUME UNCHANGED frontVars
       PROVE  queries' = queries
       BY <1>17 DEF frontVars, serverVars
<1> QED
    BY <1>2, <1>5, <1>6, <1>7, <1>8, <1>9, <1>10, <1>12, <1>13, <1>14, <1>15, <1>16, <1>17
       DEF FrontNext, Handling, HandleAs

(***************************************************************************)
(* A save under way.                                                       *)
(***************************************************************************)
SaveSteps == {"max", "access", "limit", "clear", "guard"}

SavingOK ==
    /\ saving = {} \/ \E to \in ServerSettings, st \in SaveSteps : saving = {[to |-> to, step |-> st]}
    /\ saves \in Nat
    /\ saving # {} => saves > 0

LEMMA SavingStep ==
    ASSUME SavingOK, [FrontNext]_frontVars
    PROVE  SavingOK'
<1>1. CASE UNCHANGED <<saving, saves>>
      BY <1>1 DEF SavingOK
<1>2. ASSUME NEW to \in ServerSettings, StartSave(to)
      PROVE  SavingOK'
  <2>1. saving' = {[to |-> to, step |-> "max"]} /\ saves' = saves + 1
        BY <1>2 DEF StartSave
  <2>2. saving' # {} /\ \E st \in SaveSteps : saving' = {[to |-> to, step |-> st]}
        BY <2>1 DEF SaveSteps
  <2>3. saves' \in Nat /\ saves' > 0
        BY <2>1 DEF SavingOK
  <2> QED
      BY <2>2, <2>3 DEF SavingOK
<1>3. ASSUME NEW save \in saving, NEW st \in SaveSteps,
             saving' = {[save EXCEPT !.step = st]}, saves' = saves
      PROVE  SavingOK'
  <2>1. PICK to \in ServerSettings, was \in SaveSteps : save = [to |-> to, step |-> was]
        BY <1>3 DEF SavingOK
  <2>2. [save EXCEPT !.step = st] = [to |-> to, step |-> st]
        BY <2>1
  <2> QED
      BY <1>3, <2>2 DEF SavingOK
<1>4. ASSUME NEW save \in saving,
             SetMaxConcurrent(save) \/ SetAccess(save) \/ SetLimit(save) \/ ClearBuckets(save)
      PROVE  SavingOK'
      BY <1>3, <1>4 DEF SetMaxConcurrent, SetAccess, SetLimit, ClearBuckets, SaveSteps
<1>5. ASSUME NEW save \in saving, SetGuard(save)
      PROVE  SavingOK'
      BY <1>5 DEF SetGuard, SavingOK
<1>6. ASSUME NEW s \in Slots, HandleAs(s)
      PROVE  UNCHANGED <<saving, saves>>
      BY <1>6 DEF HandleAs, CheckAccess, ReadLimit, Charge, ReadBound, AcquirePermit, ResolveQuery
<1>7. ASSUME NEW s \in Slots,
             \/ Visit(s) \/ HandshakeDone(s) \/ HandshakeFails(s) \/ OtherRequest(s)
             \/ Reply(s) \/ CountServed(s) \/ EndTask(s) \/ EndConn(s)
      PROVE  UNCHANGED <<saving, saves>>
      BY <1>7 DEF Visit, Datagram, Accept, Ask, HandshakeDone, HandshakeFails, OtherRequest,
                  Reply, CountServed, EndTask, EndConn, serverVars
<1>8. ASSUME Tick \/ UNCHANGED frontVars
      PROVE  UNCHANGED <<saving, saves>>
      BY <1>8 DEF Tick, frontVars, serverVars
<1> QED
    BY <1>1, <1>2, <1>4, <1>5, <1>6, <1>7, <1>8 DEF FrontNext, Handling, SaveServer

(***************************************************************************)
(* The rate limit.  What a subnet has spent and what its bucket holds now  *)
(* stay, together, within what the limit grants it: the token that a       *)
(* charge counts as spent leaves the bucket, a refill is cut to the        *)
(* capacity, and a bucket that is made or forgotten was a full one.        *)
(***************************************************************************)
Granted(k) ==
    Capacity(limit) + spent.late[k] + (ticks - spent.since) * limit.per_second

Balanced ==
    \A k \in Addresses : spent.of[k] + Refilled(buckets, k, limit, ticks) <= Granted(k)

LimiterInv ==
    /\ ticks \in Nat
    /\ LimitOK(limit)
    /\ QueriesOK
    /\ SavingOK
    /\ \A k \in DOMAIN buckets : BucketOK(buckets[k])
    /\ spent \in [of : [Addresses -> Nat], late : [Addresses -> Nat], since : Nat]
    /\ spent.since <= ticks
    /\ (\A save \in saving : save.step # "clear") => Balanced

\* What a step of the front end does to the limiter.
LimiterIdle ==
    /\ UNCHANGED <<buckets, limit, spent, ticks>>
    /\ saving' = saving \/ \A save \in saving : save.step # "clear"

LEMMA LimiterEffects ==
    ASSUME SavingOK, [FrontNext]_frontVars
    PROVE  \/ LimiterIdle
           \/ \E s \in Slots : Charge(s)
           \/ \E save \in saving : SetLimit(save) \/ ClearBuckets(save)
           \/ Tick
<1>1. ASSUME NEW s \in Slots, HandleAs(s)
      PROVE  LimiterIdle \/ Charge(s)
      BY <1>1 DEF HandleAs, CheckAccess, ReadLimit, ReadBound, AcquirePermit, ResolveQuery,
                  LimiterIdle
<1>2. ASSUME NEW s \in Slots,
             \/ Visit(s) \/ HandshakeDone(s) \/ HandshakeFails(s) \/ OtherRequest(s)
             \/ Reply(s) \/ CountServed(s) \/ EndTask(s) \/ EndConn(s)
      PROVE  LimiterIdle
      BY <1>2 DEF Visit, Datagram, Accept, Ask, HandshakeDone, HandshakeFails, OtherRequest,
                  Reply, CountServed, EndTask, EndConn, serverVars, LimiterIdle
<1>3. ASSUME NEW to, StartSave(to)
      PROVE  LimiterIdle
      BY <1>3 DEF StartSave, LimiterIdle
<1>4. ASSUME NEW save \in saving, SetMaxConcurrent(save) \/ SetAccess(save) \/ SetGuard(save)
      PROVE  LimiterIdle
  <2>1. save.step # "clear" /\ saving = {save}
        BY <1>4 DEF SetMaxConcurrent, SetAccess, SetGuard, SavingOK
  <2> QED
      BY <1>4, <2>1 DEF SetMaxConcurrent, SetAccess, SetGuard, LimiterIdle
<1>5. ASSUME UNCHANGED frontVars
      PROVE  LimiterIdle
      BY <1>5 DEF frontVars, serverVars, LimiterIdle
<1> QED
    BY <1>1, <1>2, <1>3, <1>4, <1>5 DEF FrontNext, Handling, SaveServer

LEMMA ChargeKeepsBalance ==
    ASSUME LimiterInv, NEW s \in Slots, Charge(s)
    PROVE  /\ \A k \in DOMAIN buckets' : BucketOK(buckets'[k])
           /\ spent' \in [of : [Addresses -> Nat], late : [Addresses -> Nat], since : Nat]
           /\ spent'.since = spent.since
           /\ Balanced => Balanced'
<1>0. TicksPerSecond \in Nat /\ ticks \in Nat /\ LimitOK(limit)
      /\ limit' = limit /\ ticks' = ticks
      BY ServerBounds DEF LimiterInv, Charge
<1>1. PICK conf \in queries[s].conf, now \in queries[s].at..ticks :
         LET key == SubnetKey(queries[s].ip, conf.lens)
             map == Sweep(buckets, now)
             tokens == Refilled(map, key, conf, now)
             allowed == tokens >= TicksPerSecond
             left == IF allowed THEN tokens - TicksPerSecond ELSE tokens
             cost == IF allowed /\ conf = limit THEN TicksPerSecond ELSE 0
             extra == IF now # ticks \/ (conf # limit /\ key \in DOMAIN map)
                      THEN Capacity(limit) ELSE 0
         IN  /\ buckets' = [k \in DOMAIN map \cup {key} |->
                               IF k = key THEN [tokens |-> left, last |-> now] ELSE map[k]]
             /\ spent' = [spent EXCEPT !.of[key] = @ + cost, !.late[key] = @ + extra]
      BY ZenonT(30) DEF Charge
<1>2. LimitOK(conf) /\ queries[s].at \in Nat
      BY <1>1 DEF LimiterInv, QueriesOK, QueryOK, Charge
<1>3. PICK key : key = SubnetKey(queries[s].ip, conf.lens)
      OBVIOUS
<1>4. now \in Nat /\ now <= ticks
      BY <1>0, <1>1, <1>2
<1>5. PICK map : map = Sweep(buckets, now)
      OBVIOUS
<1>6. /\ \A k \in DOMAIN map : k \in DOMAIN buckets /\ map[k] = buckets[k]
      /\ \A k \in DOMAIN map : BucketOK(map[k])
      /\ \A k : Refilled(map, k, limit, ticks) = Refilled(buckets, k, limit, ticks)
      BY <1>0, <1>4, <1>5, SweepKeepsTokens DEF LimiterInv
<1>7. PICK tokens \in Nat : tokens = Refilled(map, key, conf, now)
      BY <1>0, <1>2, <1>4, <1>6, RefilledBounds
<1>8. PICK left \in Nat : left = IF tokens >= TicksPerSecond THEN tokens - TicksPerSecond ELSE tokens
      BY <1>0, <1>7
<1>9. PICK cost \in Nat : cost = IF tokens >= TicksPerSecond /\ conf = limit THEN TicksPerSecond ELSE 0
       BY <1>0
<1>10. Capacity(limit) \in Nat
       BY <1>0, <1>4, <1>6, RefilledBounds
<1>11. PICK extra \in Nat : extra = IF now # ticks \/ (conf # limit /\ key \in DOMAIN map)
                                    THEN Capacity(limit) ELSE 0
       BY <1>10
<1>12. /\ buckets' = [k \in DOMAIN map \cup {key} |->
                         IF k = key THEN [tokens |-> left, last |-> now] ELSE map[k]]
       /\ spent' = [spent EXCEPT !.of[key] = @ + cost, !.late[key] = @ + extra]
       BY <1>1, <1>3, <1>5, <1>7, <1>8, <1>9, <1>11
<1>13. \A k \in DOMAIN buckets' : BucketOK(buckets'[k])
       BY <1>0, <1>4, <1>6, <1>12 DEF BucketOK
<1>14. /\ spent' \in [of : [Addresses -> Nat], late : [Addresses -> Nat], since : Nat]
       /\ spent'.since = spent.since
       /\ \A k \in Addresses :
             /\ spent'.of[k] = IF k = key THEN spent.of[k] + cost ELSE spent.of[k]
             /\ spent'.late[k] = IF k = key THEN spent.late[k] + extra ELSE spent.late[k]
  <2>1. PICK of : of = [spent.of EXCEPT ![key] = @ + cost]
        OBVIOUS
  <2>2. PICK late : late = [spent.late EXCEPT ![key] = @ + extra]
        OBVIOUS
  <2>3. spent' = [spent EXCEPT !.of = of, !.late = late]
        BY <1>12, <2>1, <2>2
  <2>4. spent'.of = of /\ spent'.late = late /\ spent'.since = spent.since
        BY <2>3 DEF LimiterInv
  <2>5. spent.of \in [Addresses -> Nat] /\ spent.late \in [Addresses -> Nat]
        BY DEF LimiterInv
  <2>6. of \in [Addresses -> Nat] /\ late \in [Addresses -> Nat]
    <3>1. CASE key \in Addresses
          BY <1>9, <1>11, <2>1, <2>2, <2>5, <3>1
    <3>2. CASE key \notin Addresses
          BY <2>1, <2>2, <2>5, <3>2
    <3> QED
        BY <3>1, <3>2
  <2>7. spent' \in [of : [Addresses -> Nat], late : [Addresses -> Nat], since : Nat]
        BY <2>3, <2>6 DEF LimiterInv
  <2> QED
      BY <2>1, <2>2, <2>4, <2>5, <2>7
<1>15. ASSUME Balanced, NEW k \in Addresses
       PROVE  (spent.of[k] + Refilled(buckets, k, limit, ticks) <= Granted(k))'
  <2>1. PICK of \in Nat, late \in Nat, due \in Int :
            of = spent.of[k] /\ late = spent.late[k] /\ due = (ticks - spent.since) * limit.per_second
        BY <1>0 DEF LimiterInv, LimitOK
  <2>2. PICK before \in Nat : before = Refilled(map, k, limit, ticks) /\ before <= Capacity(limit)
        BY <1>0, <1>6, RefilledBounds
  <2>3. of + before <= Capacity(limit) + late + due
        BY <1>6, <1>15, <2>1, <2>2 DEF Balanced, Granted
  <2>4. Granted(k)' = Capacity(limit) + spent'.late[k] + due
        BY <1>0, <1>14, <2>1 DEF Granted, Capacity
  <2>5. PICK held : held = Refilled(buckets', k, limit, ticks)
        OBVIOUS
  <2>6. (spent.of[k] + Refilled(buckets, k, limit, ticks))' = spent'.of[k] + held
        BY <1>0, <2>5 DEF Refilled, Capacity
  <2>7. held \in Nat /\ held <= Capacity(limit)
        BY <1>0, <1>13, <2>5, RefilledBounds
  <2>8. CASE k # key
    <3>1. held = before
          BY <1>12, <2>2, <2>5, <2>8 DEF Refilled
    <3> QED
        BY <1>14, <2>1, <2>3, <2>4, <2>6, <2>8, <3>1
  <2>9. CASE k = key /\ extra = Capacity(limit) /\ (now # ticks \/ conf # limit)
    <3>1. cost <= before
      <4>1. CASE conf = limit
            BY <1>0, <1>4, <1>6, <1>7, <1>9, <2>2, <2>9, <4>1, RefilledBounds
      <4>2. CASE conf # limit
            BY <1>9, <4>2
      <4> QED
          BY <4>1, <4>2
    <3> QED
        BY <1>10, <1>14, <2>1, <2>2, <2>3, <2>4, <2>6, <2>7, <2>9, <3>1
  <2>10. CASE k = key /\ now = ticks /\ conf = limit
    <3>1. tokens = before
          BY <1>7, <2>2, <2>10
    <3>2. left + cost = before /\ extra = 0
          BY <1>0, <1>8, <1>9, <1>11, <2>10, <3>1
    <3>3. buckets'[k] = [tokens |-> left, last |-> ticks] /\ k \in DOMAIN buckets'
          BY <1>12, <2>10
    <3>4. buckets'[k].tokens = left /\ Since(ticks, buckets'[k].last) = 0
          BY <1>0, <3>3 DEF Since
    <3>5. held = Min({left + 0 * limit.per_second, Capacity(limit)})
          BY <2>5, <3>3, <3>4 DEF Refilled
    <3>6. left + 0 * limit.per_second = left
          BY <1>0 DEF LimitOK
    <3>7. held <= left
          BY <1>10, <3>5, <3>6, MinOfTwo
    <3> QED
        BY <1>8, <1>9, <1>10, <1>14, <2>1, <2>2, <2>3, <2>4, <2>6, <2>7, <2>10, <3>2, <3>7
  <2>11. CASE k = key /\ now = ticks /\ conf # limit /\ key \notin DOMAIN map
    <3>1. before = Capacity(limit)
          BY <2>2, <2>11 DEF Refilled
    <3>2. cost = 0 /\ extra = 0
          BY <1>9, <1>11, <2>11
    <3> QED
        BY <1>10, <1>14, <2>1, <2>3, <2>4, <2>6, <2>7, <2>11, <3>1, <3>2
  <2>12. \/ k # key
         \/ k = key /\ extra = Capacity(limit) /\ (now # ticks \/ conf # limit)
         \/ k = key /\ now = ticks /\ conf = limit
         \/ k = key /\ now = ticks /\ conf # limit /\ key \notin DOMAIN map
         BY <1>11
  <2> QED
      BY <2>8, <2>9, <2>10, <2>11, <2>12
<1>16. Balanced => Balanced'
       BY <1>15 DEF Balanced
<1> QED
    BY <1>13, <1>14, <1>16

LEMMA TickKeepsBalance ==
    ASSUME LimiterInv, Tick, Balanced
    PROVE  Balanced'
<1>0. /\ ticks \in Nat /\ ticks' = ticks + 1 /\ LimitOK(limit) /\ TicksPerSecond \in Nat
      /\ UNCHANGED <<buckets, limit, spent>>
      BY ServerBounds DEF LimiterInv, Tick
<1>1. PICK p \in Nat : p = limit.per_second
      BY <1>0 DEF LimitOK
<1>2. ASSUME NEW k \in Addresses
      PROVE  (spent.of[k] + Refilled(buckets, k, limit, ticks) <= Granted(k))'
  <2>1. PICK of \in Nat, late \in Nat, since \in Nat :
            of = spent.of[k] /\ late = spent.late[k] /\ since = spent.since /\ since <= ticks
        BY DEF LimiterInv
  <2>2. PICK due \in Nat : due = (ticks - since) * p /\ (ticks + 1 - since) * p = due + p
    <3>1. PICK d \in Nat : d = ticks - since
          BY <1>0, <2>1
    <3>2. d * p \in Nat /\ (d + 1) * p = d * p + p
          BY Products
    <3>3. ticks + 1 - since = d + 1
          BY <1>0, <2>1, <3>1
    <3> QED
        BY <3>1, <3>2, <3>3
  <2>3. PICK cap \in Nat : cap = Capacity(limit)
        BY <1>0, <1>1, Products DEF Capacity
  <2>4. Granted(k) = cap + late + due /\ Granted(k)' = cap + late + (due + p)
        BY <1>0, <1>1, <2>1, <2>2, <2>3 DEF Granted, Capacity
  <2>5. PICK before \in Nat : before = Refilled(buckets, k, limit, ticks)
        BY <1>0, RefilledBounds DEF LimiterInv
  <2>6. of + before <= cap + late + due
        BY <2>1, <2>4, <2>5 DEF Balanced
  <2>7. PICK held : held = Refilled(buckets, k, limit, ticks + 1)
        OBVIOUS
  <2>8. held \in Nat /\ held <= before + p
    <3>1. CASE k \notin DOMAIN buckets
          BY <1>1, <2>3, <2>5, <2>7, <3>1 DEF Refilled
    <3>2. CASE k \in DOMAIN buckets
      <4>1. PICK tokens \in Nat, last \in Nat :
                tokens = buckets[k].tokens /\ last = buckets[k].last /\ last <= ticks
            BY <3>2 DEF LimiterInv, BucketOK
      <4>2. PICK d \in Nat : d = Since(ticks, last) /\ Since(ticks + 1, last) = d + 1
            BY <1>0, <4>1 DEF Since
      <4>3. PICK e \in Nat : e = d * p /\ (d + 1) * p = e + p
            BY Products
      <4>4. before = Min({tokens + e, cap}) /\ held = Min({tokens + (e + p), cap})
            BY <1>1, <2>3, <2>5, <2>7, <3>2, <4>1, <4>2, <4>3 DEF Refilled
      <4> QED
          BY <4>4, MinOfTwo
    <3> QED
        BY <3>1, <3>2
  <2>9. (spent.of[k] + Refilled(buckets, k, limit, ticks))' = of + held
        BY <1>0, <2>1, <2>7 DEF Refilled, Capacity
  <2> QED
      BY <2>4, <2>6, <2>8, <2>9
<1> QED
    BY <1>2 DEF Balanced

LEMMA LimiterInit == FrontInit => LimiterInv
<1> SUFFICES ASSUME FrontInit
             PROVE  LimiterInv
    OBVIOUS
<1>1. ticks = 0 /\ saving = {} /\ saves = 0 /\ buckets = NoBuckets /\ spent = NothingSpent(0)
      BY DEF FrontInit, ServerInit
<1>2. LimitOK(limit)
      BY ServerBounds DEF FrontInit, ServerInit, LimitOK
<1>3. QueriesOK
  <2>1. QueryOK(NoQuery)
        BY DEF QueryOK, NoQuery
  <2> QED
      BY <2>1 DEF FrontInit, ServerInit, QueriesOK
<1>4. DOMAIN buckets = {}
      BY <1>1 DEF NoBuckets
<1>5. /\ spent \in [of : [Addresses -> Nat], late : [Addresses -> Nat], since : Nat]
      /\ spent.since = 0
      /\ \A k \in Addresses : spent.of[k] = 0 /\ spent.late[k] = 0
      BY <1>1 DEF NothingSpent
<1>6. PICK cap \in Nat : cap = Capacity(limit)
      BY <1>2, ServerBounds, Products DEF Capacity, LimitOK
<1>7. \A k \in Addresses : Refilled(buckets, k, limit, ticks) = cap
      BY <1>4, <1>6 DEF Refilled
<1>8. (ticks - spent.since) * limit.per_second = 0
      BY <1>1, <1>2, <1>5 DEF LimitOK
<1>9. Balanced
      BY <1>5, <1>6, <1>7, <1>8 DEF Balanced, Granted
<1> QED
    BY <1>1, <1>2, <1>3, <1>4, <1>5, <1>9 DEF LimiterInv, SavingOK

LEMMA LimiterStep ==
    ASSUME LimiterInv, [FrontNext]_frontVars
    PROVE  LimiterInv'
<1>0. /\ ticks \in Nat /\ LimitOK(limit) /\ QueriesOK /\ SavingOK
      /\ QueriesOK' /\ SavingOK'
      BY QueriesStep, SavingStep DEF LimiterInv
<1>1. CASE LimiterIdle
  <2>1. UNCHANGED <<buckets, limit, spent, ticks>>
        BY <1>1 DEF LimiterIdle
  <2>2. Balanced' <=> Balanced
        BY <2>1 DEF Balanced, Granted, Refilled, Capacity
  <2>3. (\A save \in saving' : save.step # "clear") => Balanced'
        BY <1>1, <2>2 DEF LimiterIdle, LimiterInv
  <2> QED
      BY <1>0, <2>1, <2>3 DEF LimiterInv, LimitOK, BucketOK
<1>2. ASSUME NEW s \in Slots, Charge(s)
      PROVE  LimiterInv'
  <2>1. UNCHANGED <<limit, ticks, saving>>
        BY <1>2 DEF Charge
  <2>2. /\ \A k \in DOMAIN buckets' : BucketOK(buckets[k])'
        /\ spent' \in [of : [Addresses -> Nat], late : [Addresses -> Nat], since : Nat]
        /\ spent'.since <= ticks'
        /\ Balanced => Balanced'
        BY <1>2, <2>1, ChargeKeepsBalance DEF LimiterInv, BucketOK
  <2> QED
      BY <1>0, <2>1, <2>2 DEF LimiterInv, LimitOK
<1>3. ASSUME NEW save \in saving, SetLimit(save)
      PROVE  LimiterInv'
  <2>1. PICK to \in ServerSettings : saving = {[to |-> to, step |-> "limit"]}
        BY <1>3 DEF SetLimit, LimiterInv, SavingOK
  <2>2. limit' = to.limit /\ saving' = {[to |-> to, step |-> "clear"]}
        BY <1>3, <2>1 DEF SetLimit
  <2>3. LimitOK(limit)'
        BY <2>2, ServerBounds DEF LimitOK
  <2>4. ~ \A r \in saving' : r.step # "clear"
        BY <2>2
  <2>5. UNCHANGED <<buckets, spent, ticks>>
        BY <1>3 DEF SetLimit
  <2> QED
      BY <1>0, <2>3, <2>4, <2>5 DEF LimiterInv, BucketOK
<1>4. ASSUME NEW save \in saving, ClearBuckets(save)
      PROVE  LimiterInv'
  <2>1. UNCHANGED <<limit, ticks>> /\ buckets' = NoBuckets /\ spent' = NothingSpent(ticks)
        BY <1>4 DEF ClearBuckets
  <2>2. DOMAIN buckets' = {}
        BY <2>1 DEF NoBuckets
  <2>3. /\ spent' \in [of : [Addresses -> Nat], late : [Addresses -> Nat], since : Nat]
        /\ spent'.since = ticks
        /\ \A k \in Addresses : spent'.of[k] = 0 /\ spent'.late[k] = 0
        BY <1>0, <2>1 DEF NothingSpent
  <2>4. PICK cap \in Nat : cap = Capacity(limit)
        BY <1>0, ServerBounds, Products DEF Capacity, LimitOK
  <2>5. \A k \in Addresses : Refilled(buckets, k, limit, ticks)' = cap
        BY <2>1, <2>2, <2>4 DEF Refilled, Capacity
  <2>6. (ticks' - spent'.since) * limit'.per_second = 0
        BY <1>0, <2>1, <2>3 DEF LimitOK
  <2>7. \A k \in Addresses : Granted(k)' = cap
        BY <2>1, <2>3, <2>4, <2>6 DEF Granted, Capacity
  <2>8. Balanced'
        BY <2>3, <2>5, <2>7 DEF Balanced
  <2> QED
      BY <1>0, <2>1, <2>2, <2>3, <2>8 DEF LimiterInv, LimitOK
<1>5. CASE Tick
  <2>1. ticks' = ticks + 1 /\ UNCHANGED <<buckets, limit, spent, saving>>
        BY <1>5 DEF Tick
  <2>2. Balanced => Balanced'
        BY <1>5, TickKeepsBalance
  <2>3. \A k \in DOMAIN buckets' : BucketOK(buckets[k])'
        BY <1>0, <2>1 DEF LimiterInv, BucketOK
  <2>4. spent'.since \in Nat /\ spent'.since <= ticks'
        BY <1>0, <2>1 DEF LimiterInv
  <2> QED
      BY <1>0, <2>1, <2>2, <2>3, <2>4 DEF LimiterInv, LimitOK
<1> QED
    BY <1>0, <1>1, <1>2, <1>3, <1>4, <1>5, LimiterEffects

LEMMA LimiterAlways == FrontSpec => []LimiterInv
BY LimiterInit, LimiterStep, PTL DEF FrontSpec

\* The rate limit holds through any number of saves, sweeps and overtaken
\* queries: Limiter::allow lets a subnet spend one burst and the refill, and a
\* burst more for each query that the clock or a change of the limit overtook.
THEOREM LimitHoldsAlways == FrontSpec => []LimitHolds
<1>1. LimiterInv => LimitHolds
  <2> SUFFICES ASSUME LimiterInv, \A save \in saving : save.step # "clear",
                      NEW k \in DOMAIN spent.of
               PROVE  spent.of[k] <= Granted(k)
      BY DEF LimitHolds, Granted
  <2>1. k \in Addresses /\ spent.of[k] \in Nat /\ spent.late[k] \in Nat
        BY DEF LimiterInv
  <2>2. Refilled(buckets, k, limit, ticks) \in Nat /\ Capacity(limit) \in Nat
        BY RefilledBounds DEF LimiterInv
  <2>3. spent.of[k] + Refilled(buckets, k, limit, ticks) <= Granted(k)
        BY <2>1 DEF LimiterInv, Balanced
  <2>4. (ticks - spent.since) * limit.per_second \in Int
        BY DEF LimiterInv, LimitOK
  <2>5. Granted(k) \in Int
        BY <2>1, <2>2, <2>4 DEF Granted
  <2> QED
      BY <2>1, <2>2, <2>3, <2>5
<1> QED
    BY <1>1, LimiterAlways, PTL

(***************************************************************************)
(* The guard.  A mark's strikes are the latest entries of its address in   *)
(* the ghost `wasted', all of them since the mark's first; while a penalty *)
(* lasts they are in the window before it began.                           *)
(***************************************************************************)
Peers == Scenes[scene].peers

Counted(m, w) == (Len(w) - m.strikes + 1)..Len(w)

MarkOK(m, w) ==
    /\ m \in [strikes : Nat, first : Nat, until : SUBSET Nat]
    /\ m.strikes <= Len(w)
    /\ m.first <= ticks
    /\ \A i \in Counted(m, w) : m.first <= w[i] /\ w[i] <= ticks
    /\ \A t \in m.until : ticks < t =>
          /\ \A i \in Counted(m, w) : w[i] \in (t - Penalty - Window)..(t - Penalty)
          /\ saves = 0 => m.strikes >= guard.strikes

ConnOK(c) ==
    /\ "phase" \in DOMAIN c
    /\ c.phase # "free" => c.ip \in Peers

GuardInv ==
    /\ LimiterInv
    /\ guard.strikes \in Nat
    /\ DOMAIN wasted = Peers
    /\ \A ip \in Peers : wasted[ip] \in Seq(Nat)
    /\ \A ip \in Peers : ip \in DOMAIN marks => MarkOK(marks[ip], wasted[ip])
    /\ DOMAIN conns = Slots
    /\ \A s \in Slots : ConnOK(conns[s])

LEMMA SceneStays ==
    ASSUME [FrontNext]_frontVars
    PROVE  scene' = scene /\ Peers' = Peers
<1>1. ASSUME NEW s \in Slots, HandleAs(s)
      PROVE  scene' = scene
      BY <1>1 DEF HandleAs, CheckAccess, ReadLimit, Charge, ReadBound, AcquirePermit, ResolveQuery
<1>2. ASSUME NEW s \in Slots,
             \/ Visit(s) \/ HandshakeDone(s) \/ HandshakeFails(s) \/ OtherRequest(s)
             \/ Reply(s) \/ CountServed(s) \/ EndTask(s) \/ EndConn(s)
      PROVE  scene' = scene
      BY <1>2 DEF Visit, Datagram, Accept, Ask, HandshakeDone, HandshakeFails, OtherRequest,
                  Reply, CountServed, EndTask, EndConn, serverVars
<1>3. ASSUME SaveServer \/ \E save \in saving : SetGuard(save)
      PROVE  scene' = scene
      BY <1>3 DEF SaveServer, StartSave, SetMaxConcurrent, SetAccess, SetLimit, ClearBuckets,
                  SetGuard
<1>4. ASSUME Tick \/ UNCHANGED frontVars
      PROVE  scene' = scene
      BY <1>4 DEF Tick, frontVars, serverVars
<1> QED
    BY <1>1, <1>2, <1>3, <1>4 DEF FrontNext, Handling, Peers

LEMMA ConnsStep ==
    ASSUME GuardInv, [FrontNext]_frontVars
    PROVE  DOMAIN conns' = Slots /\ \A s \in Slots : ConnOK(conns[s])'
<1> DEFINE Kept == DOMAIN conns' = Slots /\ \A s \in Slots : ConnOK(conns[s])'
<1>0. Peers' = Peers /\ DOMAIN conns = Slots /\ \A s \in Slots : ConnOK(conns[s])
      BY SceneStays DEF GuardInv
<1>1. ASSUME NEW s \in Slots, NEW c, ConnOK(c), conns' = [conns EXCEPT ![s] = c]
      PROVE  Kept
      BY <1>0, <1>1 DEF ConnOK
<1>2. CASE conns' = conns
      BY <1>0, <1>2 DEF ConnOK
<1>3. ConnOK(NoConn)
      BY DEF ConnOK, NoConn
\* A connection in service moves on or is counted as served.
<1>4. ASSUME NEW s \in Slots, conns[s].phase # "free", NEW c,
             conns' = [conns EXCEPT ![s] = c],
             DOMAIN c = DOMAIN conns[s], c.ip = conns[s].ip
      PROVE  Kept
      BY <1>0, <1>1, <1>4 DEF ConnOK
<1>5. ASSUME NEW s \in Slots, NEW proto, NEW ip \in Peers, NEW id, Accept(s, proto, ip, id)
      PROVE  Kept
  <2>1. CASE conns' = conns
        BY <1>2, <2>1
  <2>2. CASE conns' # conns
    <3>1. PICK phase : phase = IF proto \in Handshakes THEN "shake" ELSE "open"
          OBVIOUS
    <3>2. PICK c : c = [phase |-> phase, proto |-> proto, ip |-> ip, id |-> id, served |-> FALSE]
          OBVIOUS
    <3>3. c.ip = ip /\ "phase" \in DOMAIN c
          BY <3>2
    <3>4. conns' = [conns EXCEPT ![s] = c]
          BY <1>5, <2>2, <3>1, <3>2 DEF Accept
    <3> QED
        BY <1>1, <3>3, <3>4 DEF ConnOK
  <2> QED
      BY <2>1, <2>2
<1>6. ASSUME NEW s \in Slots, HandshakeDone(s)
      PROVE  Kept
  <2>1. PICK c : c = [conns[s] EXCEPT !.phase = "open"]
        OBVIOUS
  <2>2. DOMAIN c = DOMAIN conns[s] /\ c.ip = conns[s].ip
        BY <2>1
  <2> QED
      BY <1>4, <1>6, <2>1, <2>2 DEF HandshakeDone
<1>7. ASSUME NEW s \in Slots, NEW served, conns[s].phase # "free",
             conns' = [conns EXCEPT ![s].served = served]
      PROVE  Kept
  <2>1. PICK c : c = [conns[s] EXCEPT !.served = served]
        OBVIOUS
  <2>2. DOMAIN c = DOMAIN conns[s] /\ c.ip = conns[s].ip
        BY <2>1
  <2> QED
      BY <1>4, <1>7, <2>1, <2>2
<1>8. ASSUME NEW s \in Slots, NEW parses, NEW forwarded, Ask(s, parses, forwarded)
      PROVE  Kept
  <2>1. PICK served : served = (conns[s].served \/ conns[s].proto \in CountsRequests)
        OBVIOUS
  <2> QED
      BY <1>7, <1>8, <2>1 DEF Ask
<1>9. ASSUME NEW s \in Slots, OtherRequest(s)
      PROVE  Kept
  <2>1. PICK served \in BOOLEAN : served = TRUE
        OBVIOUS
  <2> QED
      BY <1>7, <1>9, <2>1 DEF OtherRequest
<1>10. ASSUME NEW s \in Slots, Reply(s)
       PROVE  Kept
  <2>1. PICK served : served = (conns[s].served \/ conns[s].proto # "quic")
        OBVIOUS
  <2> QED
      BY <1>7, <1>10, <2>1 DEF Reply
<1>11. ASSUME NEW s \in Slots, CountServed(s)
       PROVE  Kept
  <2>1. PICK served \in BOOLEAN : served = TRUE
        OBVIOUS
  <2> QED
      BY <1>2, <1>7, <1>11, <2>1 DEF CountServed
<1>12. ASSUME NEW s \in Slots, HandshakeFails(s) \/ EndConn(s)
       PROVE  Kept
       BY <1>1, <1>3, <1>12 DEF HandshakeFails, EndConn
<1>13. ASSUME NEW s \in Slots, NEW ip, NEW parses, Datagram(s, ip, parses)
       PROVE  conns' = conns
       BY <1>13 DEF Datagram
<1>14. ASSUME NEW s \in Slots, EndTask(s) \/ UNCHANGED listenerVars
       PROVE  conns' = conns
       BY <1>14 DEF EndTask, listenerVars
<1>15. ASSUME (\E save \in saving : SetGuard(save)) \/ Tick \/ UNCHANGED frontVars
              \/ UNCHANGED listenerVars
       PROVE  conns' = conns
       BY <1>15 DEF SetGuard, Tick, frontVars, listenerVars
<1> QED
    BY <1>2, <1>5, <1>6, <1>8, <1>9, <1>10, <1>11, <1>12, <1>13, <1>14, <1>15
       DEF FrontNext, Handling, Visit, Peers

\* One more strike, in the window that the mark counts over.
LEMMA StruckIsCounted ==
    ASSUME ticks \in Nat, guard.strikes \in Nat,
           NEW m, NEW w \in Seq(Nat), MarkOK(m, w),
           ticks - m.first <= Window,
           \A t \in m.until : ~(ticks < t)
    PROVE  MarkOK(Struck(m), Append(w, ticks))
<1>1. PICK x : x = Struck(m)
      OBVIOUS
<1>2. PICK v : v = Append(w, ticks)
      OBVIOUS
<1>3. m.strikes \in Nat /\ m.first \in Nat /\ m.until \in SUBSET Nat
      BY DEF MarkOK
<1>4. ticks + Penalty \in Nat /\ Window \in Nat /\ Penalty \in Nat
      BY ListenersAssumption
<1>5. PICK until \in SUBSET Nat :
          until = IF m.strikes + 1 >= guard.strikes THEN {ticks + Penalty} ELSE m.until
      BY <1>3, <1>4
<1>6. /\ x \in [strikes : Nat, first : Nat, until : SUBSET Nat]
      /\ x.strikes = m.strikes + 1 /\ x.first = m.first /\ x.until = until
  <2>1. x = [m EXCEPT !.strikes = m.strikes + 1, !.until = until]
        BY <1>1, <1>5 DEF Struck
  <2>2. m \in [strikes : Nat, first : Nat, until : SUBSET Nat] /\ m.strikes + 1 \in Nat
        BY <1>3 DEF MarkOK
  <2> QED
      BY <1>5, <2>1, <2>2
<1>7. /\ v \in Seq(Nat) /\ Len(v) = Len(w) + 1 /\ v[Len(v)] = ticks
      /\ \A i \in 1..Len(w) : v[i] = w[i]
      BY <1>2
<1>8. Len(w) \in Nat /\ m.strikes <= Len(w)
      BY DEF MarkOK
<1>9. \A i \in Counted(x, v) : (i \in Counted(m, w) /\ i \in 1..Len(w)) \/ i = Len(v)
  <2>1. PICK n \in Nat, l \in Nat : n = m.strikes /\ l = Len(w) /\ n <= l
        BY <1>3, <1>8
  <2>2. x.strikes = n + 1 /\ Len(v) = l + 1
        BY <1>6, <1>7, <2>1
  <2>3. Counted(x, v) = (l + 1 - (n + 1) + 1)..(l + 1)
        BY <2>2 DEF Counted
  <2>4. Counted(m, w) = (l - n + 1)..l /\ 1..Len(w) = 1..l
        BY <2>1 DEF Counted
  <2>5. ASSUME NEW i \in (l + 1 - (n + 1) + 1)..(l + 1)
        PROVE  (i \in (l - n + 1)..l /\ i \in 1..l) \/ i = l + 1
    <3>1. l \in Nat /\ n \in Nat /\ n <= l
          BY <2>1
    <3>2. i \in Int /\ i >= l - n + 1 /\ i <= l + 1
          BY <3>1
    <3> QED
        BY <3>1, <3>2
  <2> QED
      BY <2>2, <2>3, <2>4, <2>5
<1>10. ASSUME NEW i \in Counted(x, v)
       PROVE  v[i] \in Nat /\ m.first <= v[i] /\ v[i] <= ticks
  <2>1. CASE i = Len(v)
        BY <1>3, <1>7, <2>1 DEF MarkOK
  <2>2. CASE i \in Counted(m, w) /\ i \in 1..Len(w)
    <3>1. v[i] = w[i] /\ w[i] \in Nat
          BY <1>7, <2>2
    <3>2. m.first <= w[i] /\ w[i] <= ticks
          BY <2>2 DEF MarkOK
    <3> QED
        BY <3>1, <3>2
  <2> QED
      BY <1>9, <2>1, <2>2
<1>11. ASSUME NEW t \in until, ticks < t
       PROVE  /\ \A i \in Counted(x, v) : v[i] \in (t - Penalty - Window)..(t - Penalty)
              /\ x.strikes >= guard.strikes
  <2>1. t = ticks + Penalty /\ m.strikes + 1 >= guard.strikes
        BY <1>5, <1>11
  <2> QED
      BY <1>3, <1>4, <1>6, <1>10, <2>1
<1>12. MarkOK(x, v)
       BY <1>3, <1>6, <1>7, <1>8, <1>10, <1>11 DEF MarkOK
<1> QED
    BY <1>1, <1>2, <1>12

LEMMA NewMarkIsCounted ==
    ASSUME ticks \in Nat, NEW w \in Seq(Nat)
    PROVE  MarkOK(NewMark, w) /\ NewMark.first = ticks /\ NewMark.until = {}
<1>1. PICK m : m = NewMark
      OBVIOUS
<1>2. /\ m \in [strikes : Nat, first : Nat, until : SUBSET Nat]
      /\ m.strikes = 0 /\ m.first = ticks /\ m.until = {}
      BY <1>1 DEF NewMark
<1>3. Counted(m, w) = {}
      BY <1>2 DEF Counted
<1>4. MarkOK(m, w)
      BY <1>2, <1>3 DEF MarkOK
<1> QED
    BY <1>1, <1>2, <1>4

Earned == \A ip \in Peers : ip \in DOMAIN marks => MarkOK(marks[ip], wasted[ip])

GhostOK == DOMAIN wasted = Peers /\ \A ip \in Peers : wasted[ip] \in Seq(Nat)

LEMMA RecordKeepsMarks ==
    ASSUME GuardInv, NEW ip \in Peers, NEW served, Record(ip, served),
           UNCHANGED <<ticks, guard, saves, scene>>
    PROVE  Earned' /\ GhostOK'
<1>0. /\ ticks \in Nat /\ guard.strikes \in Nat /\ GhostOK /\ Earned /\ Peers' = Peers
      /\ Window \in Nat
      BY ListenersAssumption DEF GuardInv, LimiterInv, GhostOK, Earned, Peers
<1>1. ASSUME NEW m, NEW w
      PROVE  MarkOK(m, w)' <=> MarkOK(m, w)
      BY DEF MarkOK
<1>2. CASE Exempt(ip)
  <2>1. UNCHANGED <<marks, wasted>>
        BY <1>2 DEF Record
  <2> QED
      BY <1>0, <2>1 DEF Earned, GhostOK, MarkOK
<1>3. CASE ~Exempt(ip) /\ served
  <2>1. marks' = Unmarked(ip) /\ wasted' = [wasted EXCEPT ![ip] = <<>>]
        BY <1>3 DEF Record
  <2>2. /\ \A x \in DOMAIN marks' : x # ip /\ x \in DOMAIN marks /\ marks'[x] = marks[x]
        /\ \A x \in Peers : x # ip => wasted'[x] = wasted[x]
        BY <1>0, <2>1 DEF Unmarked, GhostOK
  <2>3. GhostOK'
        BY <1>0, <2>1 DEF GhostOK
  <2> QED
      BY <1>0, <2>2, <2>3 DEF Earned, MarkOK
<1>4. CASE ~Exempt(ip) /\ ~served
  <2>1. PICK held : held = SweptMarks
        OBVIOUS
  <2>2. \A k \in DOMAIN held : k \in DOMAIN marks /\ held[k] = marks[k]
        BY <2>1 DEF SweptMarks
  <2>3. marks' = Strike(ip)
        BY <1>4 DEF Record
  <2>4. CASE ShutOut(ip)
    <3>1. marks' = held /\ wasted' = wasted
          BY <1>4, <2>1, <2>3, <2>4 DEF Record, Strike
    <3> QED
        BY <1>0, <2>2, <3>1 DEF Earned, GhostOK, MarkOK
  <2>5. CASE ~ShutOut(ip)
    <3>1. PICK seen : seen = IF ip \in DOMAIN held THEN held[ip] ELSE NewMark
          OBVIOUS
    <3>2. PICK mark : mark = IF ticks - seen.first > Window THEN NewMark ELSE seen
          OBVIOUS
    <3>3. PICK w \in Seq(Nat) : w = wasted[ip]
          BY <1>0 DEF GhostOK
    <3>4. MarkOK(NewMark, w) /\ NewMark.first = ticks /\ NewMark.until = {}
          BY <1>0, NewMarkIsCounted
    <3>5. MarkOK(seen, w) /\ \A t \in seen.until : ~(ticks < t)
      <4>1. CASE ip \in DOMAIN held
            BY <1>0, <2>2, <2>5, <3>1, <3>3, <4>1 DEF Earned, ShutOut
      <4>2. CASE ip \notin DOMAIN held
            BY <3>1, <3>4, <4>2
      <4> QED
          BY <4>1, <4>2
    <3>6. MarkOK(mark, w) /\ ticks - mark.first <= Window /\ \A t \in mark.until : ~(ticks < t)
      <4>1. seen.first \in Nat
            BY <3>5 DEF MarkOK
      <4>2. CASE ticks - seen.first > Window
            BY <1>0, <3>2, <3>4, <4>2
      <4>3. CASE ~(ticks - seen.first > Window)
            BY <1>0, <3>2, <3>5, <4>1, <4>3
      <4> QED
          BY <4>2, <4>3
    <3>7. MarkOK(Struck(mark), Append(w, ticks))
          BY <1>0, <3>3, <3>6, StruckIsCounted
    <3>8. marks' = [k \in DOMAIN held \cup {ip} |-> IF k = ip THEN Struck(mark) ELSE held[k]]
          BY <2>1, <2>3, <2>5, <3>1, <3>2 DEF Strike
    <3>9. wasted' = [wasted EXCEPT ![ip] = Append(w, ticks)]
          BY <1>4, <2>5, <3>3 DEF Record
    <3>10. Append(w, ticks) \in Seq(Nat)
           BY <1>0, <3>3
    <3>11. GhostOK'
           BY <1>0, <3>9, <3>10 DEF GhostOK
    <3>12. /\ marks'[ip] = Struck(mark) /\ wasted'[ip] = Append(w, ticks)
           /\ \A x \in Peers : x # ip /\ x \in DOMAIN marks' =>
                 x \in DOMAIN marks /\ marks'[x] = marks[x] /\ wasted'[x] = wasted[x]
           BY <1>0, <2>2, <3>8, <3>9 DEF GhostOK
    <3>13. ASSUME NEW x \in Peers, x \in DOMAIN marks'
           PROVE  MarkOK(marks'[x], wasted'[x])
           BY <1>0, <3>7, <3>12, <3>13 DEF Earned
    <3>14. Earned'
           BY <1>0, <3>13 DEF Earned, MarkOK
    <3> QED
        BY <3>11, <3>14
  <2> QED
      BY <2>4, <2>5
<1> QED
    BY <1>2, <1>3, <1>4

\* What a step of the front end does to the guard.
GuardIdle ==
    /\ UNCHANGED <<marks, wasted, guard, ticks, scene>>
    /\ saves' = 0 => saves = 0

LEMMA GuardEffects ==
    ASSUME GuardInv, [FrontNext]_frontVars
    PROVE  \/ GuardIdle
           \/ \E ip : marks' = MarksAfterAdmit(ip) /\ UNCHANGED <<wasted, guard, ticks, saves, scene>>
           \/ \E ip \in Peers, served \in {FALSE} \cup {conns[s].served : s \in Slots} :
                 Record(ip, served) /\ UNCHANGED <<ticks, guard, saves, scene>>
           \/ \E save \in saving : SetGuard(save)
           \/ Tick
<1>1. ASSUME NEW s \in Slots, HandleAs(s), UNCHANGED listenerVars
      PROVE  GuardIdle
      BY <1>1 DEF HandleAs, CheckAccess, ReadLimit, Charge, ReadBound, AcquirePermit,
                  ResolveQuery, listenerVars, GuardIdle
<1>2. ASSUME NEW s \in Slots, NEW ip, NEW parses, Datagram(s, ip, parses)
      PROVE  GuardIdle
      BY <1>2 DEF Datagram, GuardIdle
<1>3. ASSUME NEW s \in Slots, NEW parses, NEW forwarded, Ask(s, parses, forwarded)
      PROVE  GuardIdle
      BY <1>3 DEF Ask, GuardIdle
<1>4. ASSUME NEW s \in Slots, NEW proto, NEW ip, NEW id, Accept(s, proto, ip, id)
      PROVE  marks' = MarksAfterAdmit(ip) /\ UNCHANGED <<wasted, guard, ticks, saves, scene>>
      BY <1>4 DEF Accept, serverVars
<1>5. ASSUME NEW s \in Slots,
             HandshakeDone(s) \/ OtherRequest(s) \/ Reply(s) \/ CountServed(s) \/ EndTask(s)
      PROVE  GuardIdle
      BY <1>5 DEF HandshakeDone, OtherRequest, Reply, CountServed, EndTask, serverVars,
                  listenerVars, GuardIdle
<1>6. ASSUME NEW s \in Slots, HandshakeFails(s)
      PROVE  \/ GuardIdle
             \/ /\ conns[s].ip \in Peers
                /\ Record(conns[s].ip, FALSE) /\ UNCHANGED <<ticks, guard, saves, scene>>
  <2>1. conns[s].ip \in Peers /\ UNCHANGED <<ticks, guard, saves, scene>>
        BY <1>6 DEF HandshakeFails, GuardInv, ConnOK, serverVars
  <2> QED
      BY <1>6, <2>1 DEF HandshakeFails, GuardIdle
<1>7. ASSUME NEW s \in Slots, EndConn(s)
      PROVE  /\ conns[s].ip \in Peers
             /\ Record(conns[s].ip, conns[s].served) /\ UNCHANGED <<ticks, guard, saves, scene>>
      BY <1>7 DEF EndConn, GuardInv, ConnOK
<1>8. ASSUME SaveServer, UNCHANGED listenerVars
      PROVE  GuardIdle
  <2>1. saves' \in {saves, saves + 1} /\ UNCHANGED <<ticks, scene>>
        BY <1>8 DEF SaveServer, StartSave, SetMaxConcurrent, SetAccess, SetLimit, ClearBuckets
  <2> QED
      BY <1>8, <2>1 DEF listenerVars, GuardIdle, GuardInv, LimiterInv, SavingOK
<1>9. ASSUME UNCHANGED frontVars
      PROVE  GuardIdle
      BY <1>9 DEF frontVars, serverVars, listenerVars, GuardIdle
<1>10. ASSUME NEW s \in Slots, Visit(s)
       PROVE  \/ GuardIdle
              \/ \E ip : /\ marks' = MarksAfterAdmit(ip)
                         /\ UNCHANGED <<wasted, guard, ticks, saves, scene>>
       BY <1>2, <1>3, <1>4, <1>10 DEF Visit
<1> QED
    BY <1>1, <1>5, <1>6, <1>7, <1>8, <1>9, <1>10 DEF FrontNext, Handling

LEMMA GuardStep ==
    ASSUME GuardInv, [FrontNext]_frontVars
    PROVE  GuardInv'
<1>0. /\ ticks \in Nat /\ saves \in Nat /\ guard.strikes \in Nat /\ GhostOK /\ Earned
      /\ LimiterInv' /\ Peers' = Peers
      /\ DOMAIN conns' = Slots /\ \A s \in Slots : ConnOK(conns[s])'
      BY LimiterStep, SceneStays, ConnsStep
         DEF GuardInv, LimiterInv, SavingOK, GhostOK, Earned
<1>1. ASSUME guard'.strikes \in Nat, GhostOK', Earned'
      PROVE  GuardInv'
      BY <1>0, <1>1 DEF GuardInv, GhostOK, Earned
<1>2. CASE GuardIdle
  <2>1. UNCHANGED <<marks, wasted, guard, ticks>> /\ (saves' = 0 => saves = 0)
        BY <1>2 DEF GuardIdle
  <2>2. ASSUME NEW ip \in Peers, ip \in DOMAIN marks
        PROVE  MarkOK(marks[ip], wasted[ip])'
        BY <1>0, <2>1, <2>2 DEF Earned, MarkOK
  <2> QED
      BY <1>0, <1>1, <2>1, <2>2 DEF Earned, GhostOK
<1>3. ASSUME NEW ip, marks' = MarksAfterAdmit(ip), UNCHANGED <<wasted, guard, ticks, saves, scene>>
      PROVE  GuardInv'
  <2>1. \A x \in DOMAIN marks' : x \in DOMAIN marks /\ marks'[x] = marks[x]
        BY <1>3 DEF MarksAfterAdmit, Unmarked
  <2>2. ASSUME NEW x \in Peers, x \in DOMAIN marks'
        PROVE  MarkOK(marks[x], wasted[x])'
        BY <1>0, <1>3, <2>1, <2>2 DEF Earned, MarkOK
  <2> QED
      BY <1>0, <1>1, <1>3, <2>2 DEF Earned, GhostOK
<1>4. ASSUME NEW ip \in Peers, NEW served, Record(ip, served),
             UNCHANGED <<ticks, guard, saves, scene>>
      PROVE  GuardInv'
      BY <1>0, <1>1, <1>4, RecordKeepsMarks
<1>5. ASSUME NEW save \in saving, SetGuard(save)
      PROVE  GuardInv'
  <2>1. saves > 0 /\ UNCHANGED <<marks, wasted, ticks, saves>>
        BY <1>5 DEF SetGuard, GuardInv, LimiterInv, SavingOK
  <2>2. guard'.strikes \in Nat
        BY <1>5, ServerBounds DEF SetGuard, GuardInv, LimiterInv, SavingOK
  <2>3. ASSUME NEW ip \in Peers, ip \in DOMAIN marks
        PROVE  MarkOK(marks[ip], wasted[ip])'
        BY <1>0, <2>1, <2>3 DEF Earned, MarkOK
  <2> QED
      BY <1>0, <1>1, <2>1, <2>2, <2>3 DEF Earned, GhostOK
<1>6. CASE Tick
  <2>1. ticks' = ticks + 1 /\ UNCHANGED <<marks, wasted, guard, saves>>
        BY <1>6 DEF Tick, listenerVars
  <2>2. ASSUME NEW ip \in Peers, ip \in DOMAIN marks
        PROVE  MarkOK(marks[ip], wasted[ip])'
    <3>1. PICK m : m = marks[ip]
          OBVIOUS
    <3>2. PICK w \in Seq(Nat) : w = wasted[ip]
          BY <1>0 DEF GhostOK
    <3>3. MarkOK(m, w)
          BY <1>0, <2>2, <3>1, <3>2 DEF Earned
    <3>4. m.strikes \in Nat /\ m.first \in Nat /\ m.until \in SUBSET Nat /\ Len(w) \in Nat
          BY <3>3 DEF MarkOK
    <3>5. \A i \in Counted(m, w) : w[i] \in Nat
      <4>1. \A i \in Counted(m, w) : i \in 1..Len(w)
            BY <3>3, <3>4 DEF Counted, MarkOK
      <4> QED
          BY <4>1
    <3>6. m.first <= ticks' /\ \A i \in Counted(m, w) : w[i] <= ticks'
          BY <1>0, <2>1, <3>3, <3>4, <3>5 DEF MarkOK
    <3>7. \A t \in m.until : ticks' < t => ticks < t
          BY <1>0, <2>1, <3>4
    <3> QED
        BY <2>1, <3>1, <3>2, <3>3, <3>6, <3>7 DEF MarkOK
  <2> QED
      BY <1>0, <1>1, <2>1, <2>2 DEF Earned, GhostOK
<1> QED
    BY <1>2, <1>3, <1>4, <1>5, <1>6, GuardEffects

LEMMA GuardInit == FrontInit => GuardInv
<1> SUFFICES ASSUME FrontInit
             PROVE  GuardInv
    OBVIOUS
<1>1. LimiterInv
      BY LimiterInit
<1>2. guard.strikes \in Nat
      BY ServerBounds DEF FrontInit, ServerInit
<1>3. wasted = [ip \in Peers |-> <<>>] /\ DOMAIN marks = {} /\ conns = [s \in Slots |-> NoConn]
      BY DEF FrontInit, Peers
<1>4. ConnOK(NoConn)
      BY DEF ConnOK, NoConn
<1> QED
    BY <1>1, <1>2, <1>3, <1>4 DEF GuardInv

LEMMA GuardAlways == FrontSpec => []GuardInv
BY GuardInit, GuardStep, PTL DEF FrontSpec

\* A source that the guard refuses has earned it: as many of its connections
\* as its mark counts ended without being served within one window before the
\* penalty, with nothing served in between, however connections end, marks
\* are swept and settings are saved.
THEOREM StrikesAreEarnedHolds == FrontSpec => []StrikesAreEarned
<1>1. GuardInv => StrikesAreEarned
  <2> SUFFICES ASSUME GuardInv, NEW ip \in Peers, ShutOut(ip)
               PROVE  \E t \in marks[ip].until :
                         LET struck == {i \in DOMAIN wasted[ip] :
                                 wasted[ip][i] \in (t - Penalty - Window)..(t - Penalty)}
                         IN  /\ Cardinality(struck) >= marks[ip].strikes
                             /\ saves = 0 => Cardinality(struck) >= guard.strikes
      BY DEF StrikesAreEarned, Peers
  <2>1. PICK m, w : m = marks[ip] /\ w = wasted[ip]
        OBVIOUS
  <2>2. MarkOK(m, w) /\ w \in Seq(Nat) /\ guard.strikes \in Nat
        BY <2>1 DEF GuardInv, ShutOut
  <2>3. PICK t \in m.until : ticks < t
        BY <2>1 DEF ShutOut
  <2>4. /\ \A i \in Counted(m, w) : w[i] \in (t - Penalty - Window)..(t - Penalty)
        /\ saves = 0 => m.strikes >= guard.strikes
        BY <2>2, <2>3 DEF MarkOK
  <2>5. PICK n \in Nat, l \in Nat : n = m.strikes /\ l = Len(w) /\ n <= l
        BY <2>2 DEF MarkOK
  <2>6. Counted(m, w) = (l - n + 1)..l /\ DOMAIN w = 1..l
        BY <2>2, <2>5 DEF Counted
  <2>7. PICK struck : struck = {i \in DOMAIN w : w[i] \in (t - Penalty - Window)..(t - Penalty)}
        OBVIOUS
  <2>8. (l - n + 1)..l \subseteq 1..l
        BY <2>5
  <2>9. (l - n + 1)..l \in SUBSET struck /\ struck \in SUBSET (1..l)
        BY <2>4, <2>6, <2>7, <2>8
  <2>10. IsFiniteSet(1..l)
         BY <2>5, FS_Interval
  <2>11. IsFiniteSet(struck)
         BY <2>9, <2>10, FS_Subset
  <2>12. Cardinality((l - n + 1)..l) <= Cardinality(struck)
         BY <2>9, <2>11, FS_Subset
  <2>13. Cardinality((l - n + 1)..l) = n
    <3>1. l - n + 1 \in Int /\ l \in Int
          BY <2>5
    <3>2. Cardinality((l - n + 1)..l) = IF l - n + 1 > l THEN 0 ELSE l - (l - n + 1) + 1
          BY <3>1, FS_Interval
    <3> QED
        BY <2>5, <3>2
  <2>14. Cardinality(struck) \in Nat
         BY <2>11, FS_CardinalityType
  <2>15. Cardinality(struck) >= m.strikes /\ (saves = 0 => Cardinality(struck) >= guard.strikes)
         BY <2>2, <2>4, <2>5, <2>12, <2>13, <2>14
  <2> QED
      BY <2>1, <2>3, <2>7, <2>15
<1> QED
    BY <1>1, GuardAlways, PTL

(***************************************************************************)
(* The query log, however many entries, rotations, clears and faults there *)
(* are.                                                                    *)
(***************************************************************************)
\* e is in s; no entry twice in s; no entry both in s and in r.
In(s, e) == \E i \in DOMAIN s : s[i] = e
Distinct(s) == \A i, j \in DOMAIN s : s[i] = s[j] => i = j
Apart(s, r) == \A i \in DOMAIN s, j \in DOMAIN r : s[i] # r[j]

\* Only entries offered so far are under way.
OfferedOnly ==
    /\ offered \in Nat
    /\ pending \in Seq(1..offered)
    /\ file \in Seq(1..offered)
    /\ rotated \in Seq(1..offered)
    /\ batch \in [Threads -> Seq(1..offered)]

\* A thread carries entries only between taking and writing them.
Carries ==
    /\ pc \in [Threads -> {"idle", "pending", "take", "open", "write", "rename",
                           "recent", "file", "rotated"}]
    /\ after \in [Threads -> {"idle", "rename"}]
    /\ fd \in [Threads -> {"file", "rotated", "gone"}]
    /\ \A t \in Threads :
         pc[t] \notin {"pending", "open", "write"} => batch[t] = <<>>

NoneTwice ==
    /\ Distinct(pending) /\ Distinct(file) /\ Distinct(rotated)
    /\ \A t \in Threads : Distinct(batch[t])

NoneShared ==
    /\ Apart(pending, file) /\ Apart(pending, rotated) /\ Apart(file, rotated)
    /\ \A t \in Threads : /\ Apart(batch[t], pending)
                          /\ Apart(batch[t], file)
                          /\ Apart(batch[t], rotated)
    /\ \A t, u \in Threads : t # u => Apart(batch[t], batch[u])

\* The stages of a clear come after its count.
ClearsAreCounted ==
    /\ clears \in Nat
    /\ \A t \in Threads : pc[t] \in {"recent", "file", "rotated"} => clears > 0

\* e is somewhere on its way.
Somewhere(e) ==
    \/ In(pending, e) \/ In(file, e) \/ In(rotated, e)
    \/ \E t \in Threads : In(batch[t], e)

NoneLost ==
    FileEnabled /\ clears = 0 =>
        \A e \in 1..offered : Somewhere(e) \/ e \in dropped

LogInv ==
    /\ OfferedOnly
    /\ Carries
    /\ NoneTwice
    /\ NoneShared
    /\ ClearsAreCounted
    /\ NoneLost

-----------------------------------------------------------------------------
(***************************************************************************)
(* Sequences.                                                              *)
(***************************************************************************)
LEMMA ConcatParts ==
    ASSUME NEW S, NEW s \in Seq(S), NEW r \in Seq(S)
    PROVE  /\ s \o r \in Seq(S)
           /\ DOMAIN s = 1..Len(s) /\ DOMAIN r = 1..Len(r)
           /\ DOMAIN (s \o r) = 1..(Len(s) + Len(r))
           /\ Len(s) \in Nat /\ Len(r) \in Nat
           /\ \A i \in 1..Len(s) : (s \o r)[i] = s[i]
           /\ \A j \in 1..Len(r) : (s \o r)[Len(s) + j] = r[j]
           /\ \A i \in DOMAIN (s \o r) :
                i \in 1..Len(s) \/ i - Len(s) \in 1..Len(r)
OBVIOUS

\* An element of s \o r is one of s or one of r.
LEMMA ConcatElements ==
    ASSUME NEW S, NEW s \in Seq(S), NEW r \in Seq(S), NEW i \in DOMAIN (s \o r)
    PROVE  \/ i \in DOMAIN s /\ (s \o r)[i] = s[i]
           \/ i - Len(s) \in DOMAIN r /\ (s \o r)[i] = r[i - Len(s)]
OBVIOUS

LEMMA ConcatDistinct ==
    ASSUME NEW S, NEW s \in Seq(S), NEW r \in Seq(S),
           Distinct(s), Distinct(r), Apart(s, r)
    PROVE  Distinct(s \o r)
<1>1. SUFFICES ASSUME NEW i \in DOMAIN (s \o r), NEW j \in DOMAIN (s \o r),
                      (s \o r)[i] = (s \o r)[j]
               PROVE  i = j
      BY DEF Distinct
<1>2. i \in Nat /\ j \in Nat /\ Len(s) \in Nat
      OBVIOUS
<1>3. \/ i \in DOMAIN s /\ (s \o r)[i] = s[i]
      \/ i - Len(s) \in DOMAIN r /\ (s \o r)[i] = r[i - Len(s)]
      BY ConcatElements
<1>4. \/ j \in DOMAIN s /\ (s \o r)[j] = s[j]
      \/ j - Len(s) \in DOMAIN r /\ (s \o r)[j] = r[j - Len(s)]
      BY ConcatElements
<1> HIDE DEF Distinct
<1> QED
    BY <1>1, <1>2, <1>3, <1>4 DEF Distinct, Apart

LEMMA ConcatApart ==
    ASSUME NEW S, NEW s \in Seq(S), NEW r \in Seq(S), NEW x,
           Apart(s, x), Apart(r, x)
    PROVE  Apart(s \o r, x) /\ Apart(x, s \o r)
<1>1. SUFFICES ASSUME NEW i \in DOMAIN (s \o r), NEW j \in DOMAIN x
               PROVE  (s \o r)[i] # x[j]
      BY DEF Apart
<1> QED
    BY ConcatElements DEF Apart

LEMMA ApartSymmetric ==
    ASSUME NEW s, NEW r, Apart(s, r) PROVE Apart(r, s)
BY DEF Apart

\* What was in s or in r is in s \o r.
LEMMA ConcatKeeps ==
    ASSUME NEW S, NEW s \in Seq(S), NEW r \in Seq(S), NEW e,
           In(s, e) \/ In(r, e)
    PROVE  In(s \o r, e)
<1>1. CASE In(s, e)
      BY <1>1, ConcatParts DEF In
<1>2. CASE In(r, e)
  <2>1. PICK j \in DOMAIN r : r[j] = e
        BY <1>2 DEF In
  <2>2. Len(s) + j \in DOMAIN (s \o r) /\ (s \o r)[Len(s) + j] = e
        BY <2>1, ConcatParts
  <2> QED
      BY <2>2 DEF In
<1> QED
    BY <1>1, <1>2

LEMMA SingleParts ==
    ASSUME NEW e
    PROVE  /\ Distinct(<<e>>) /\ In(<<e>>, e)
           /\ DOMAIN <<e>> = {1} /\ <<e>>[1] = e
BY DEF Distinct, In

LEMMA EmptyParts ==
    ASSUME NEW s
    PROVE  /\ Distinct(<<>>) /\ Apart(<<>>, s) /\ Apart(s, <<>>)
           /\ DOMAIN <<>> = {}
           /\ \A e : ~In(<<>>, e)
BY DEF Distinct, Apart, In

\* What is offered stays offered.
LEMMA OfferedGrows ==
    ASSUME NEW n \in Nat
    PROVE  Seq(1..n) \subseteq Seq(1..(n + 1))
OBVIOUS

-----------------------------------------------------------------------------
(***************************************************************************)
(* The invariant is inductive.                                             *)
(***************************************************************************)
LEMMA LogInitInv == LogInit => LogInv
BY EmptyParts
DEF LogInit, LogInv, OfferedOnly, Carries, NoneTwice, NoneShared,
    ClearsAreCounted, NoneLost

\* An entry that is offered is new to every store.
LEMMA PushRecentInv ==
    ASSUME LogInv, NEW t \in Threads, PushRecent(t) PROVE LogInv'
<1> USE DEF LogInv
<1>0. PICK e \in Nat : e = offered + 1
      BY DEF OfferedOnly
<1>1. OfferedOnly'
      BY OfferedGrows DEF OfferedOnly, PushRecent
<1>2. Carries'
      BY DEF Carries, PushRecent, Goto
<1>3. UNCHANGED <<pending, file, rotated, dropped, clears>>
      BY DEF PushRecent
<1>4. CASE FileEnabled
  <2>1. /\ batch' = [batch EXCEPT ![t] = <<e>>]
        /\ offered' = e
        BY <1>0, <1>4 DEF PushRecent
  <2>2. /\ DOMAIN batch = Threads
        /\ \A i \in DOMAIN pending : pending[i] # e
        /\ \A i \in DOMAIN file : file[i] # e
        /\ \A i \in DOMAIN rotated : rotated[i] # e
        /\ \A u \in Threads : \A i \in DOMAIN batch[u] : batch[u][i] # e
        BY <1>0 DEF OfferedOnly
  <2>3. NoneTwice'
        BY <1>3, <2>1, <2>2, SingleParts DEF NoneTwice
  <2>4. NoneShared'
        BY <1>3, <2>1, <2>2, SingleParts DEF NoneShared, Apart
  <2>5. batch[t] = <<>>
        BY DEF PushRecent, Carries
  <2>6. NoneLost'
    <3>1. \A x : Somewhere(x) => Somewhere(x)'
          BY <1>3, <2>1, <2>2, <2>5, EmptyParts DEF Somewhere
    <3>2. Somewhere(e)'
          BY <2>1, <2>2, SingleParts DEF Somewhere
    <3>3. ASSUME NEW x \in 1..offered' PROVE x \in 1..offered \/ x = e
          BY <1>0, <2>1 DEF OfferedOnly
    <3> QED
        BY <1>3, <3>1, <3>2, <3>3 DEF NoneLost
  <2>7. ClearsAreCounted'
        BY <1>3 DEF ClearsAreCounted, Carries, PushRecent, Goto
  <2> QED
      BY <1>1, <1>2, <2>3, <2>4, <2>6, <2>7
<1>5. CASE ~FileEnabled
  <2>1. UNCHANGED batch
        BY <1>5 DEF PushRecent
  <2>2. NoneTwice' /\ NoneShared' /\ NoneLost'
        BY <1>3, <1>5, <2>1 DEF NoneTwice, NoneShared, NoneLost
  <2>3. ClearsAreCounted'
        BY <1>3 DEF ClearsAreCounted, Carries, PushRecent, Goto
  <2> QED
      BY <1>1, <1>2, <2>2, <2>3
<1> QED
    BY <1>4, <1>5

\* The entry moves from the pusher's hands to the end of the buffer.
LEMMA PushPendingInv ==
    ASSUME LogInv, NEW t \in Threads, PushPending(t) PROVE LogInv'
<1> USE DEF LogInv
<1>1. /\ pending' = pending \o batch[t]
      /\ batch' = [batch EXCEPT ![t] = <<>>]
      /\ UNCHANGED <<file, rotated, offered, dropped, clears>>
      BY DEF PushPending
<1>2. /\ pending \in Seq(1..offered) /\ batch[t] \in Seq(1..offered)
      /\ DOMAIN batch = Threads
      BY DEF OfferedOnly
<1>3. OfferedOnly'
      BY <1>1, <1>2 DEF OfferedOnly
<1>4. Carries' /\ ClearsAreCounted'
      BY <1>1, <1>2 DEF Carries, ClearsAreCounted, PushPending, Goto
<1>5. NoneTwice'
  <2>1. Distinct(pending')
        BY <1>1, <1>2, ConcatDistinct, ApartSymmetric DEF NoneTwice, NoneShared
  <2> QED
      BY <1>1, <1>2, <2>1, EmptyParts DEF NoneTwice
<1>6. NoneShared'
  <2>1. Apart(pending', file') /\ Apart(pending', rotated')
        BY <1>1, <1>2, ConcatApart DEF NoneShared
  <2>2. ASSUME NEW u \in Threads PROVE Apart(batch'[u], pending')
        BY <1>1, <1>2, ConcatApart, ApartSymmetric, EmptyParts DEF NoneShared
  <2> QED
      BY <1>1, <1>2, <2>1, <2>2, EmptyParts DEF NoneShared
<1>7. \A e : Somewhere(e) => Somewhere(e)'
      BY <1>1, <1>2, ConcatKeeps DEF Somewhere
<1>8. NoneLost'
      BY <1>1, <1>7 DEF NoneLost
<1> QED
    BY <1>3, <1>4, <1>5, <1>6, <1>8

\* The buffer moves to the flush's hands.
LEMMA FlushTakeInv ==
    ASSUME LogInv, NEW t \in Threads, FlushTake(t) PROVE LogInv'
<1> USE DEF LogInv
<1>1. /\ pending' = <<>>
      /\ batch' = [batch EXCEPT ![t] = pending]
      /\ UNCHANGED <<file, rotated, offered, dropped, clears>>
      /\ batch[t] = <<>>
      BY DEF FlushTake, Carries
<1>2. DOMAIN batch = Threads
      BY DEF OfferedOnly
<1>3. OfferedOnly'
      BY <1>1 DEF OfferedOnly
<1>4. Carries' /\ ClearsAreCounted'
      BY <1>1 DEF Carries, ClearsAreCounted, FlushTake, Goto
<1>5. NoneTwice'
      BY <1>1, <1>2, EmptyParts DEF NoneTwice
<1>6. NoneShared'
      BY <1>1, <1>2, EmptyParts, ApartSymmetric DEF NoneShared
<1>7. \A e : Somewhere(e) => Somewhere(e)'
      BY <1>1, <1>2, EmptyParts DEF Somewhere
<1>8. NoneLost'
      BY <1>1, <1>7 DEF NoneLost
<1> QED
    BY <1>3, <1>4, <1>5, <1>6, <1>8

\* The batch moves to the file its descriptor is now, or to none.
LEMMA FlushWriteInv ==
    ASSUME LogInv, NEW t \in Threads, FlushWrite(t) PROVE LogInv'
<1> USE DEF LogInv
<1>1. /\ batch' = [batch EXCEPT ![t] = <<>>]
      /\ UNCHANGED <<pending, offered, clears>>
      /\ file' = IF fd[t] = "file" THEN file \o batch[t] ELSE file
      /\ rotated' = IF fd[t] = "rotated" THEN rotated \o batch[t] ELSE rotated
      /\ dropped' = IF fd[t] = "gone" THEN dropped \cup ToSet(batch[t]) ELSE dropped
      BY DEF FlushWrite
<1>2. /\ file \in Seq(1..offered) /\ rotated \in Seq(1..offered)
      /\ batch[t] \in Seq(1..offered)
      /\ DOMAIN batch = Threads
      BY DEF OfferedOnly
<1>3. OfferedOnly'
  <2>1. file' \in Seq(1..offered) /\ rotated' \in Seq(1..offered)
        BY <1>1, <1>2, ConcatParts
  <2> QED
      BY <1>1, <2>1 DEF OfferedOnly
<1>4. Carries' /\ ClearsAreCounted'
      BY <1>1, <1>2 DEF Carries, ClearsAreCounted, FlushWrite, Goto
<1>5. NoneTwice'
  <2>1. Distinct(file') /\ Distinct(rotated')
        BY <1>1, <1>2, ConcatDistinct, ApartSymmetric DEF NoneTwice, NoneShared
  <2> QED
      BY <1>1, <1>2, <2>1, EmptyParts DEF NoneTwice
<1>6. NoneShared'
  <2>1. /\ Apart(pending', file') /\ Apart(pending', rotated')
        BY <1>1, <1>2, ConcatApart, ApartSymmetric DEF NoneShared
  <2>2. Apart(file', rotated')
        BY <1>1, <1>2, ConcatApart, ApartSymmetric DEF NoneShared, Carries
  <2>3. ASSUME NEW u \in Threads
        PROVE  Apart(batch'[u], file') /\ Apart(batch'[u], rotated')
        BY <1>1, <1>2, ConcatApart, ApartSymmetric, EmptyParts DEF NoneShared
  <2> QED
      BY <1>1, <1>2, <2>1, <2>2, <2>3, EmptyParts DEF NoneShared
<1>7. NoneLost'
  <2>1. ASSUME NEW e, Somewhere(e) PROVE Somewhere(e)' \/ e \in dropped'
    <3>1. CASE In(batch[t], e)
      <4>1. CASE fd[t] = "file"
            BY <1>1, <1>2, <3>1, <4>1, ConcatKeeps DEF Somewhere
      <4>2. CASE fd[t] = "rotated"
            BY <1>1, <1>2, <3>1, <4>2, ConcatKeeps DEF Somewhere
      <4>3. CASE fd[t] = "gone"
            BY <1>1, <3>1, <4>3 DEF In, ToSet
      <4> QED
          BY <4>1, <4>2, <4>3 DEF Carries
    <3>2. CASE ~In(batch[t], e)
      <4>1. In(file, e) => In(file', e)
            BY <1>1, <1>2, ConcatKeeps
      <4>2. In(rotated, e) => In(rotated', e)
            BY <1>1, <1>2, ConcatKeeps
      <4> QED
          BY <1>1, <1>2, <2>1, <3>2, <4>1, <4>2 DEF Somewhere
    <3> QED
        BY <3>1, <3>2
  <2> QED
      BY <1>1, <2>1 DEF NoneLost
<1> QED
    BY <1>3, <1>4, <1>5, <1>6, <1>7

\* The batch is lost, and counted as lost.
LEMMA FlushFaultInv ==
    ASSUME LogInv, NEW t \in Threads, FlushFault(t) PROVE LogInv'
<1> USE DEF LogInv
<1>1. /\ batch' = [batch EXCEPT ![t] = <<>>]
      /\ UNCHANGED <<pending, file, rotated, offered, clears>>
      /\ dropped' = dropped \cup ToSet(batch[t])
      BY DEF FlushFault
<1>2. DOMAIN batch = Threads
      BY DEF OfferedOnly
<1>3. OfferedOnly'
      BY <1>1 DEF OfferedOnly
<1>4. Carries' /\ ClearsAreCounted'
      BY <1>1, <1>2 DEF Carries, ClearsAreCounted, FlushFault, Goto
<1>5. NoneTwice' /\ NoneShared'
      BY <1>1, <1>2, EmptyParts DEF NoneTwice, NoneShared
<1>6. \A e : Somewhere(e) => Somewhere(e)' \/ e \in dropped'
      BY <1>1, <1>2 DEF Somewhere, In, ToSet
<1>7. NoneLost'
      BY <1>1, <1>6 DEF NoneLost
<1> QED
    BY <1>3, <1>4, <1>5, <1>7

\* The file becomes the rotated one, and what that held is counted as dropped.
LEMMA RotateRenameInv ==
    ASSUME LogInv, NEW t \in Threads, RotateRename(t) PROVE LogInv'
<1> USE DEF LogInv
<1>1. UNCHANGED <<pending, offered, clears, batch>>
      BY DEF RotateRename
<1>2. Carries' /\ ClearsAreCounted'
      BY <1>1 DEF Carries, ClearsAreCounted, RotateRename, Goto
<1>3. CASE ~present
  <2>1. UNCHANGED <<file, rotated, dropped>>
        BY <1>3 DEF RotateRename
  <2> QED
      BY <1>1, <1>2, <2>1 DEF OfferedOnly, NoneTwice, NoneShared, NoneLost, Somewhere
<1>4. CASE present
  <2>1. /\ rotated' = file /\ file' = <<>>
        /\ dropped' = dropped \cup ToSet(rotated)
        BY <1>4 DEF RotateRename
  <2>2. OfferedOnly'
        BY <1>1, <2>1 DEF OfferedOnly
  <2>3. NoneTwice' /\ NoneShared'
        BY <1>1, <2>1, EmptyParts DEF NoneTwice, NoneShared
  <2>4. \A e : Somewhere(e) => Somewhere(e)' \/ e \in dropped'
        BY <1>1, <2>1 DEF Somewhere, In, ToSet
  <2>5. NoneLost'
        BY <1>1, <2>1, <2>4 DEF NoneLost
  <2> QED
      BY <1>2, <2>2, <2>3, <2>5
<1> QED
    BY <1>3, <1>4

\* A clear empties one store after the other, once it has been counted.
LEMMA ClearInv ==
    ASSUME LogInv, NEW t \in Threads,
           ClearPending(t) \/ ClearFile(t) \/ ClearRotated(t)
    PROVE  LogInv'
<1> USE DEF LogInv
<1>1. /\ pending' \in {pending, <<>>}
      /\ file' \in {file, <<>>}
      /\ rotated' \in {rotated, <<>>}
      /\ UNCHANGED <<batch, offered, after>>
      BY DEF ClearPending, ClearFile, ClearRotated
<1>2. OfferedOnly'
  <2>1. <<>> \in Seq(1..offered)
        OBVIOUS
  <2> QED
      BY <1>1, <2>1 DEF OfferedOnly
<1>3. Carries'
      BY <1>1 DEF Carries, ClearPending, ClearFile, ClearRotated, Goto
<1>4. ClearsAreCounted' /\ clears' > 0
      BY DEF ClearsAreCounted, Carries, ClearPending, ClearFile, ClearRotated, Goto
<1>5. NoneTwice' /\ NoneShared'
      BY <1>1, EmptyParts DEF NoneTwice, NoneShared
<1>6. NoneLost'
      BY <1>4 DEF NoneLost, ClearsAreCounted
<1> QED
    BY <1>2, <1>3, <1>4, <1>5, <1>6

\* The other steps move no entry.
LEMMA MoveNothingInv ==
    ASSUME LogInv,
           UNCHANGED <<pending, file, rotated, batch, offered, dropped, clears>>,
           Carries', ClearsAreCounted'
    PROVE  LogInv'
BY DEF LogInv, OfferedOnly, NoneTwice, NoneShared, NoneLost, Somewhere

LEMMA LogStepInv == LogInv /\ [LogNext]_logVars => LogInv'
<1> SUFFICES ASSUME LogInv, [LogNext]_logVars PROVE LogInv'
    OBVIOUS
<1>0. Carries /\ ClearsAreCounted
      BY DEF LogInv
<1>1. ASSUME NEW t \in Threads, AskFlush(t) \/ Rotate(t) PROVE LogInv'
  <2>1. Carries' /\ ClearsAreCounted'
        BY <1>0, <1>1 DEF Carries, ClearsAreCounted, AskFlush, Rotate, Goto
  <2> QED
      BY <1>1, <2>1, MoveNothingInv DEF AskFlush, Rotate
<1>2. ASSUME NEW t \in Threads, FlushOpen(t) PROVE LogInv'
  <2>1. Carries' /\ ClearsAreCounted'
        BY <1>0, <1>2 DEF Carries, ClearsAreCounted, FlushOpen, Goto
  <2> QED
      BY <1>2, <2>1, MoveNothingInv DEF FlushOpen
<1>3. ASSUME NEW t \in Threads, ClearRecent(t) \/ FileFault(t) PROVE LogInv'
  <2>1. Carries' /\ ClearsAreCounted'
        BY <1>0, <1>3 DEF Carries, ClearsAreCounted, ClearRecent, FileFault, Goto
  <2> QED
      BY <1>3, <2>1, MoveNothingInv DEF ClearRecent, FileFault
<1>4. CASE UNCHANGED logVars
  <2>1. Carries' /\ ClearsAreCounted'
        BY <1>0, <1>4 DEF Carries, ClearsAreCounted, logVars
  <2> QED
      BY <1>4, <2>1, MoveNothingInv DEF logVars
<1> QED
    BY <1>1, <1>2, <1>3, <1>4, PushRecentInv, PushPendingInv, FlushTakeInv,
       FlushWriteInv, FlushFaultInv, RotateRenameInv, ClearInv
    DEF LogNext

LEMMA LogInvariant == LogSpec => []LogInv
<1>1. LogInit => LogInv
      BY LogInitInv
<1>2. LogInv /\ [LogNext]_logVars => LogInv'
      BY LogStepInv
<1> QED
    BY <1>1, <1>2, PTL DEF LogSpec

-----------------------------------------------------------------------------
(***************************************************************************)
(* Theorems.                                                               *)
(***************************************************************************)
\* No interleaving of pushes, flushes, rotations and clears writes an entry
\* twice (QueryLog::push, flush, rotate, clear).
THEOREM WrittenOnceHolds == LogSpec => []WrittenOnce
<1>1. LogInv => WrittenOnce
  <2> SUFFICES ASSUME LogInv, NEW e \in Entries,
                      NEW p \in Places(e), NEW q \in Places(e)
               PROVE  p = q
      BY DEF WrittenOnce
  <2>1. ASSUME NEW x \in Places(e)
        PROVE  \/ \E i \in DOMAIN pending : pending[i] = e /\ x = <<"pending", i>>
               \/ \E i \in DOMAIN file : file[i] = e /\ x = <<"file", i>>
               \/ \E i \in DOMAIN rotated : rotated[i] = e /\ x = <<"rotated", i>>
               \/ \E t \in Threads : \E i \in DOMAIN batch[t] :
                    batch[t][i] = e /\ x = <<"batch", i, t>>
        BY DEF Places, At
  <2> QED
      BY <2>1 DEF LogInv, NoneTwice, NoneShared, Distinct, Apart
<1> QED
    BY <1>1, LogInvariant, PTL

\* Until something is cleared, every entry offered is still on its way, on
\* disk, or counted among those rotated away or refused by the disk
\* (QueryLog::flush, rotate).
THEOREM NothingGoesMissingHolds == LogSpec => []NothingGoesMissing
<1>1. LogInv => NothingGoesMissing
  <2>1. ASSUME NEW e, Somewhere(e) PROVE Places(e) # {}
    <3>1. CASE In(pending, e) \/ In(file, e) \/ In(rotated, e)
          BY <3>1 DEF In, Places, At
    <3>2. ASSUME NEW t \in Threads, In(batch[t], e) PROVE Places(e) # {}
      <4>1. PICK i \in DOMAIN batch[t] : batch[t][i] = e
            BY <3>2 DEF In
      <4>2. <<"batch", i, t>> \in Places(e)
            BY <4>1 DEF Places, At
      <4> QED
          BY <4>2
    <3> QED
        BY <2>1, <3>1, <3>2 DEF Somewhere
  <2> QED
      BY <2>1 DEF LogInv, NoneLost, NothingGoesMissing
<1> QED
    BY <1>1, LogInvariant, PTL
==============================================================================
