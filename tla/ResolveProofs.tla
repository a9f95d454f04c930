--------------------------- MODULE ResolveProofs ---------------------------
(***************************************************************************)
(* Proofs about the deciding steps of the resolver, for any queries,       *)
(* configurations, rules, clients and reloads: what a query is decided by, *)
(* and where a private reverse lookup may go.                              *)
(***************************************************************************)
EXTENDS Resolve, TLAPS

\* The stages after each read, up to the decision.
AfterEngine == {"pool"}
AfterRewrites == AfterEngine \cup {"engine"}
AfterName == AfterRewrites \cup {"rewrites"}
AfterSafeSearch == AfterName \cup {"name"}
AfterServices == AfterSafeSearch \cup {"safe"}
AfterClients == AfterServices \cup {"services"}
AfterMac == AfterClients \cup {"clients"}
Deciding == AfterMac \cup {"mac"}
Decided == {"private", "forward", "done"}

Fields == {"stage", "ask", "settings", "mac", "client", "services", "safe", "name", "at",
           "allowed", "out"}

\* The values a part had while t was being decided.
Seen(t, part) == {m.live[part] : m \in moments[t]}

\* What t has read was in force when it was read, and what it has passed let it
\* pass: no earlier step decided it with what was read.
ReadSoFar(t) ==
    LET who == q[t].ask.who
        req == q[t].ask.req
    IN  /\ q[t].settings \in Seen(t, "settings")
        /\ q[t].stage \in AfterMac => \E a \in moments[t] : q[t].mac = a.found.mac
        /\ q[t].stage \in AfterClients =>
              \E c \in Seen(t, "clients") : q[t].client = Find(Registry(c), who, q[t].mac)
        /\ q[t].stage \in AfterServices =>
              /\ \E v \in Seen(t, "services") : q[t].services = ServicesEngine(ServicesOf[v])
              /\ \E n \in moments[t] : q[t].at = n.now
        /\ q[t].stage \in AfterSafeSearch =>
              \E f \in Seen(t, "safe_search") : q[t].safe = SafeSearchEngine(SafeSearchOf[f])
        /\ q[t].stage \in AfterName =>
              /\ EarlySteps(Set(t), req, q[t].ask.proto) = {}
              /\ \E b \in moments[t] : q[t].name = b.found.name
        /\ q[t].stage = "rewrites" => Set(t).rewrites
        /\ q[t].stage \in AfterRewrites /\ Set(t).rewrites =>
              \E r \in Seen(t, "rewrites") : RewriteStep(Set(t), RewritesOf[r], req) = {}
        /\ q[t].stage \in AfterEngine =>
              \E e \in Seen(t, "engine") :
                  FilterSteps(Set(t), EffOf(t), EngineOf[e], NamesOf(q[t].client, q[t].name),
                              TagsOf(q[t].client), req) = [out |-> {}, allowed |-> q[t].allowed]

\* A decision made by resolve from parts that were in force.
DecidedFrom(t, out) ==
    \E s \in Seen(t, "settings"), r \in Seen(t, "rewrites"), c \in Seen(t, "clients"),
       f \in Seen(t, "safe_search"), e \in Seen(t, "engine"), v \in Seen(t, "services"),
       p \in Seen(t, "private"), a, b, n \in moments[t] :
       \E d \in Decision(q[t].ask, [settings |-> s, rewrites |-> r, clients |-> c, safe_search |-> f,
                                    engine |-> e, services |-> v, private |-> p],
                         a.found.mac, b.found.name, n.now) : Agrees(d, out)

IsDecision(d) == DOMAIN d = {"via", "reason", "msg", "upstreams"}

\* The decision that was made, and if it sends the query upstream, that the
\* settings it was made by do not call the address private.
DecisionMade(t) ==
    \E d : /\ q[t].out = {d} /\ IsDecision(d)
           /\ q[t].settings \in Seen(t, "settings")
           /\ DecidedFrom(t, d)
           /\ q[t].stage = "forward" => d.via = "forward"
           /\ d.via = "forward" => ~IsPrivatePtr(Set(t), q[t].ask.req)

QueryInv(t) ==
    /\ DOMAIN q[t] = Fields
    /\ moments[t] # {}
    /\ \/ q[t].stage \in Deciding /\ ReadSoFar(t)
       \/ q[t].stage \in Decided /\ DecisionMade(t)

ResolveInv ==
    /\ DOMAIN q = Tasks
    /\ \A t \in Tasks : q[t] = Idle \/ QueryInv(t)

(***************************************************************************)
(* Operators.                                                              *)
(***************************************************************************)
LEMMA LocalIsDecision ==
    \A reason, m : \A d \in Local(reason, m) : IsDecision(d) /\ d.via = "local"
BY DEF Local, Decide, IsDecision

LEMMA EarlyDecisions ==
    ASSUME NEW set, NEW req, NEW proto, NEW d \in EarlySteps(set, req, proto)
    PROVE  IsDecision(d) /\ d.via \in {"local", "drop"}
BY LocalIsDecision DEF EarlySteps, Decide, IsDecision

LEMMA RewriteDecisions ==
    ASSUME NEW set, NEW table, NEW req, NEW d \in RewriteStep(set, table, req)
    PROVE  IsDecision(d) /\ d.via = "local"
BY LocalIsDecision DEF RewriteStep

LEMMA BlockedDecisions ==
    ASSUME NEW set, NEW req, NEW reason, NEW rules, NEW d \in BlockedBy(set, req, reason, rules)
    PROVE  IsDecision(d) /\ d.via = "local"
BY LocalIsDecision DEF BlockedBy

LEMMA FilterDecisions ==
    ASSUME NEW set, NEW eff, NEW engine, NEW names, NEW tags, NEW req,
           NEW d \in FilterSteps(set, eff, engine, names, tags, req).out
    PROVE  IsDecision(d) /\ d.via = "local"
<1>1. \A x \in ServicesStep(set, eff, names, tags, req) : IsDecision(x) /\ x.via = "local"
  BY LocalIsDecision, BlockedDecisions DEF ServicesStep
<1>2. \A x \in EngineStep(set, eff, engine, names, tags, req).out : IsDecision(x) /\ x.via = "local"
  BY LocalIsDecision, BlockedDecisions DEF EngineStep
<1> QED
  BY <1>1, <1>2 DEF FilterSteps

\* A filter that decides nothing leaves a record of whether the name is allowed.
LEMMA FilterPasses ==
    ASSUME NEW set, NEW eff, NEW engine, NEW names, NEW tags, NEW req,
           FilterSteps(set, eff, engine, names, tags, req).out = {}
    PROVE  FilterSteps(set, eff, engine, names, tags, req)
             = [out |-> {}, allowed |-> FilterSteps(set, eff, engine, names, tags, req).allowed]
BY DEF FilterSteps, EngineStep

LEMMA LateDecisions ==
    ASSUME NEW set, NEW eff, NEW allowed, NEW private, NEW req,
           NEW d \in LateSteps(set, eff, allowed, private, req)
    PROVE  /\ IsDecision(d)
           /\ d.via \in {"local", "private", "forward"}
           /\ d.via = "forward" => ~IsPrivatePtr(set, req)
BY LocalIsDecision DEF LateSteps, Decide, IsDecision

(***************************************************************************)
(* The history.                                                            *)
(***************************************************************************)
\* An instant is added while a query is being decided, and none is forgotten
\* before the query is over.
LEMMA MomentsGrow ==
    ASSUME Record, NEW t \in Tasks, q'[t].stage # "idle"
    PROVE  /\ q[t].stage \in Decided => moments'[t] = moments[t]
           /\ q[t].stage \notin Decided =>
                moments'[t] = moments[t] \cup
                    {[live |-> live', now |-> now', found |-> AddrOf(q[t].ask.who)']}
BY DEF Record, Instant, Decided

\* What was in force while t was decided stays so.
LEMMA MoreIsSeen ==
    ASSUME NEW t, moments[t] \subseteq moments'[t]
    PROVE  \A part : Seen(t, part) \subseteq Seen(t, part)'
BY DEF Seen

\* A query that does nothing keeps what is known of it.
LEMMA QuietQuery ==
    ASSUME NEW t, q'[t] = q[t], moments[t] \subseteq moments'[t]
    PROVE  /\ ReadSoFar(t) => ReadSoFar(t)'
           /\ DecisionMade(t) => DecisionMade(t)'
<1>1. \A part : Seen(t, part) \subseteq Seen(t, part)'
  BY MoreIsSeen
<1>2. Set(t)' = Set(t) /\ EffOf(t)' = EffOf(t)
  BY DEF Set, EffOf
<1>3. ReadSoFar(t) => ReadSoFar(t)'
  BY <1>1, <1>2 DEF ReadSoFar
<1>4. \A d : DecidedFrom(t, d) => DecidedFrom(t, d)'
  BY <1>1 DEF DecidedFrom
<1> QED
  BY <1>1, <1>2, <1>3, <1>4 DEF DecisionMade

\* A decision is made and carried out.
LEMMA Settles ==
    ASSUME NEW t, DOMAIN q[t] = Fields, NEW d, IsDecision(d),
           d.via \in {"local", "drop", "private", "forward"},
           d.via = "forward" => ~IsPrivatePtr(Set(t), q[t].ask.req),
           q'[t] = Settle(t, d), q[t].settings \in Seen(t, "settings")',
           \A out : Agrees(d, out) => DecidedFrom(t, out)'
    PROVE  DOMAIN q'[t] = Fields /\ q'[t].stage \in Decided /\ DecisionMade(t)'
<1>1. /\ DOMAIN q'[t] = Fields /\ q'[t].settings = q[t].settings /\ q'[t].ask = q[t].ask
      /\ q'[t].stage \in Decided
  BY DEF Settle, Fields, Decided
<1>2. PICK o : /\ q'[t].out = {o} /\ IsDecision(o) /\ Agrees(d, o)
               /\ q'[t].stage = "forward" => o.via = "forward"
  <2>1. CASE d.via \in {"local", "drop"}
    <3>1. PICK msg : q'[t] = [q[t] EXCEPT !.stage = "done", !.out = {[d EXCEPT !.msg = msg]}]
      BY <2>1 DEF Settle
    <3> DEFINE o == [d EXCEPT !.msg = msg]
    <3>2. q'[t].out = {o} /\ q'[t].stage = "done"
      BY <3>1 DEF Fields
    <3>3. IsDecision(o) /\ Agrees(d, o)
      BY DEF IsDecision, Agrees
    <3> HIDE DEF o
    <3> QED
      BY <3>2, <3>3
  <2>2. CASE d.via \notin {"local", "drop"}
    BY <2>2 DEF Settle, Fields, Agrees
  <2> QED
    BY <2>1, <2>2
<1>3. Set(t)' = Set(t)
  BY <1>1 DEF Set
<1>4. o.via = "forward" => ~IsPrivatePtr(Set(t)', q'[t].ask.req)
  BY <1>1, <1>2, <1>3 DEF Agrees
<1> QED
  BY <1>1, <1>2, <1>4 DEF DecisionMade

(***************************************************************************)
(* The steps of a query.                                                   *)
(***************************************************************************)
\* A step of a query that is being decided records what is in force.
LEMMA StepRecords ==
    ASSUME Record, UNCHANGED Queries, NEW t \in Tasks, q[t].stage \notin Decided, q'[t].stage # "idle"
    PROVE  /\ moments[t] \subseteq moments'[t]
           /\ \E m \in moments'[t] : /\ m.live = live /\ m.now = now
                                     /\ m.found = AddrOf(q'[t].ask.who)
           /\ \A part : Seen(t, part) \subseteq Seen(t, part)' /\ live[part] \in Seen(t, part)'
<1> DEFINE m == [live |-> live, now |-> now, found |-> AddrOf(q'[t].ask.who)]
<1>1. moments'[t] = moments[t] \cup {m}
  <2>1. live' = live /\ now' = now /\ runtime' = runtime
    BY DEF Queries, clientVars
  <2>2. AddrOf(q[t].ask.who)' = AddrOf(q'[t].ask.who)
    BY <2>1 DEF AddrOf
  <2> QED
    BY <2>1, <2>2, MomentsGrow
<1>2. m \in moments'[t] /\ m.live = live /\ m.now = now /\ m.found = AddrOf(q'[t].ask.who)
  BY <1>1
<1> HIDE DEF m
<1> QED
  BY <1>1, <1>2 DEF Seen

\* Whatever agrees with a decision of parts that were in force is from them.
LEMMA FromTheParts ==
    ASSUME NEW t, q'[t].ask = q[t].ask,
           NEW s \in Seen(t, "settings")', NEW r \in Seen(t, "rewrites")', NEW c \in Seen(t, "clients")',
           NEW f \in Seen(t, "safe_search")', NEW e \in Seen(t, "engine")', NEW v \in Seen(t, "services")',
           NEW p \in Seen(t, "private")', NEW a \in moments'[t], NEW b \in moments'[t], NEW n \in moments'[t],
           NEW d \in Decision(q[t].ask, [settings |-> s, rewrites |-> r, clients |-> c, safe_search |-> f,
                                         engine |-> e, services |-> v, private |-> p],
                              a.found.mac, b.found.name, n.now)
    PROVE  \A out : Agrees(d, out) => DecidedFrom(t, out)'
BY DEF DecidedFrom

LEMMA ArriveStep ==
    ASSUME Record, DOMAIN q = Tasks, NEW t \in Tasks, NEW r, Arrive(t, r)
    PROVE  QueryInv(t)'
<1>1. q'[t] = [stage |-> "mac", ask |-> r, settings |-> live.settings, mac |-> {}, client |-> {},
               services |-> {}, safe |-> {}, name |-> "", at |-> now, allowed |-> FALSE, out |-> {}]
  BY DEF Arrive, Become
<1>2. DOMAIN q'[t] = Fields /\ q'[t].stage = "mac" /\ q'[t].settings = live.settings
  <2> DEFINE new == [stage |-> "mac", ask |-> r, settings |-> live.settings, mac |-> {}, client |-> {},
                     services |-> {}, safe |-> {}, name |-> "", at |-> now, allowed |-> FALSE, out |-> {}]
  <2>1. DOMAIN new = Fields
    BY DEF Fields
  <2>2. new.stage = "mac" /\ new.settings = live.settings
    OBVIOUS
  <2> QED
    BY <1>1, <2>1, <2>2
<1>3. live["settings"] \in Seen(t, "settings")' /\ moments'[t] # {}
  BY <1>2, StepRecords DEF Arrive, Decided
<1>4. ReadSoFar(t)'
  BY <1>2, <1>3 DEF ReadSoFar, AfterEngine, AfterRewrites, AfterName, AfterSafeSearch, AfterServices,
                    AfterClients, AfterMac
<1> QED
  BY <1>2, <1>3, <1>4 DEF QueryInv, Deciding

LEMMA ReadMacStep ==
    ASSUME Record, DOMAIN q = Tasks, NEW t \in Tasks, QueryInv(t), ReadMac(t)
    PROVE  QueryInv(t)'
<1>1. q[t].stage = "mac" /\ ReadSoFar(t) /\ DOMAIN q[t] = Fields
  BY DEF ReadMac, QueryInv, Decided
<1>2. /\ DOMAIN q'[t] = Fields /\ q'[t].stage = "clients" /\ q'[t].mac = AddrOf(q[t].ask.who).mac
      /\ q'[t].ask = q[t].ask /\ q'[t].settings = q[t].settings /\ q'[t].client = q[t].client
      /\ q'[t].services = q[t].services /\ q'[t].safe = q[t].safe /\ q'[t].name = q[t].name
      /\ q'[t].at = q[t].at /\ q'[t].out = q[t].out
  BY <1>1 DEF ReadMac, Become, Fields
<1>3. /\ moments[t] \subseteq moments'[t]
      /\ \E m \in moments'[t] : /\ m.live = live /\ m.now = now
                                /\ m.found = AddrOf(q'[t].ask.who)
      /\ \A part : Seen(t, part) \subseteq Seen(t, part)' /\ live[part] \in Seen(t, part)'
  BY <1>1, <1>2, StepRecords DEF ReadMac, Decided
<1>4. \E a \in moments'[t] : q'[t].mac = a.found.mac
  BY <1>2, <1>3
<1>5. ReadSoFar(t)'
  BY <1>1, <1>2, <1>3, <1>4 DEF ReadSoFar, AfterEngine, AfterRewrites, AfterName, AfterSafeSearch, AfterServices,
                    AfterClients, AfterMac
<1> QED
  BY <1>2, <1>3, <1>5 DEF QueryInv, Deciding, AfterMac, AfterClients, AfterServices, AfterSafeSearch


LEMMA ReadClientsStep ==
    ASSUME Record, DOMAIN q = Tasks, NEW t \in Tasks, QueryInv(t), ReadClients(t)
    PROVE  QueryInv(t)'
<1>1. q[t].stage = "clients" /\ ReadSoFar(t) /\ DOMAIN q[t] = Fields
  BY DEF ReadClients, QueryInv, Decided
<1>2. /\ DOMAIN q'[t] = Fields /\ q'[t].stage = "services" /\ q'[t].client = Find(Registry(live.clients), q[t].ask.who, q[t].mac)
      /\ q'[t].ask = q[t].ask /\ q'[t].settings = q[t].settings /\ q'[t].mac = q[t].mac
      /\ q'[t].services = q[t].services /\ q'[t].safe = q[t].safe /\ q'[t].name = q[t].name
      /\ q'[t].at = q[t].at /\ q'[t].out = q[t].out
  BY <1>1 DEF ReadClients, Become, Fields
<1>3. /\ moments[t] \subseteq moments'[t]
      /\ \E m \in moments'[t] : /\ m.live = live /\ m.now = now
                                /\ m.found = AddrOf(q'[t].ask.who)
      /\ \A part : Seen(t, part) \subseteq Seen(t, part)' /\ live[part] \in Seen(t, part)'
  BY <1>1, <1>2, StepRecords DEF ReadClients, Decided
<1>4. \E c \in Seen(t, "clients")' : q'[t].client = Find(Registry(c), q'[t].ask.who, q'[t].mac)
  BY <1>2, <1>3
<1>5. ReadSoFar(t)'
  BY <1>1, <1>2, <1>3, <1>4 DEF ReadSoFar, AfterEngine, AfterRewrites, AfterName, AfterSafeSearch, AfterServices,
                    AfterClients, AfterMac
<1> QED
  BY <1>2, <1>3, <1>5 DEF QueryInv, Deciding, AfterMac, AfterClients, AfterServices, AfterSafeSearch


LEMMA ReadServicesStep ==
    ASSUME Record, DOMAIN q = Tasks, NEW t \in Tasks, QueryInv(t), ReadServices(t)
    PROVE  QueryInv(t)'
<1>1. q[t].stage = "services" /\ ReadSoFar(t) /\ DOMAIN q[t] = Fields
  BY DEF ReadServices, QueryInv, Decided
<1>2. /\ DOMAIN q'[t] = Fields /\ q'[t].stage = "safe" /\ q'[t].services = ServicesEngine(ServicesOf[live.services]) /\ q'[t].at = now
      /\ q'[t].ask = q[t].ask /\ q'[t].settings = q[t].settings /\ q'[t].mac = q[t].mac
      /\ q'[t].client = q[t].client /\ q'[t].safe = q[t].safe /\ q'[t].name = q[t].name
      /\ q'[t].out = q[t].out
  BY <1>1 DEF ReadServices, Become, Fields
<1>3. /\ moments[t] \subseteq moments'[t]
      /\ \E m \in moments'[t] : /\ m.live = live /\ m.now = now
                                /\ m.found = AddrOf(q'[t].ask.who)
      /\ \A part : Seen(t, part) \subseteq Seen(t, part)' /\ live[part] \in Seen(t, part)'
  BY <1>1, <1>2, StepRecords DEF ReadServices, Decided
<1>4. /\ \E v \in Seen(t, "services")' : q'[t].services = ServicesEngine(ServicesOf[v])
      /\ \E n \in moments'[t] : q'[t].at = n.now
  BY <1>2, <1>3
<1>5. ReadSoFar(t)'
  BY <1>1, <1>2, <1>3, <1>4 DEF ReadSoFar, AfterEngine, AfterRewrites, AfterName, AfterSafeSearch, AfterServices,
                    AfterClients, AfterMac
<1> QED
  BY <1>2, <1>3, <1>5 DEF QueryInv, Deciding, AfterMac, AfterClients, AfterServices, AfterSafeSearch


LEMMA ReadSafeSearchStep ==
    ASSUME Record, DOMAIN q = Tasks, NEW t \in Tasks, QueryInv(t), ReadSafeSearch(t)
    PROVE  QueryInv(t)'
<1>1. q[t].stage = "safe" /\ ReadSoFar(t) /\ DOMAIN q[t] = Fields
  BY DEF ReadSafeSearch, QueryInv, Decided
<1>2. /\ DOMAIN q'[t] = Fields /\ q'[t].stage = "name" /\ q'[t].safe = SafeSearchEngine(SafeSearchOf[live.safe_search])
      /\ q'[t].ask = q[t].ask /\ q'[t].settings = q[t].settings /\ q'[t].mac = q[t].mac
      /\ q'[t].client = q[t].client /\ q'[t].services = q[t].services /\ q'[t].name = q[t].name
      /\ q'[t].at = q[t].at /\ q'[t].out = q[t].out
  BY <1>1 DEF ReadSafeSearch, Become, Fields
<1>3. /\ moments[t] \subseteq moments'[t]
      /\ \E m \in moments'[t] : /\ m.live = live /\ m.now = now
                                /\ m.found = AddrOf(q'[t].ask.who)
      /\ \A part : Seen(t, part) \subseteq Seen(t, part)' /\ live[part] \in Seen(t, part)'
  BY <1>1, <1>2, StepRecords DEF ReadSafeSearch, Decided
<1>4. \E f \in Seen(t, "safe_search")' : q'[t].safe = SafeSearchEngine(SafeSearchOf[f])
  BY <1>2, <1>3
<1>5. ReadSoFar(t)'
  BY <1>1, <1>2, <1>3, <1>4 DEF ReadSoFar, AfterEngine, AfterRewrites, AfterName, AfterSafeSearch, AfterServices,
                    AfterClients, AfterMac
<1> QED
  BY <1>2, <1>3, <1>5 DEF QueryInv, Deciding, AfterMac, AfterClients, AfterServices, AfterSafeSearch

\* The decision of a query with the parts it has read, as long as the settings
\* are those it has read, whatever else is in force.
LEMMA EarlyStepsDecide ==
    ASSUME NEW ask, NEW parts, NEW mac, NEW name, NEW n,
           NEW d \in EarlySteps(SettingsOf[parts.settings], ask.req, ask.proto)
    PROVE  d \in Decision(ask, parts, mac, name, n)
BY DEF Decision

LEMMA RewritesDecide ==
    ASSUME NEW ask, NEW parts, NEW mac, NEW name, NEW n,
           EarlySteps(SettingsOf[parts.settings], ask.req, ask.proto) = {},
           SettingsOf[parts.settings].rewrites,
           NEW d \in RewriteStep(SettingsOf[parts.settings], RewritesOf[parts.rewrites], ask.req)
    PROVE  d \in Decision(ask, parts, mac, name, n)
BY DEF Decision

\* What the filter says of a query with these parts in force.
FilterOf(ask, parts, mac, name, n) ==
    LET client == Find(Registry(parts.clients), ask.who, mac)
        set == SettingsOf[parts.settings]
    IN FilterSteps(set, Effective(set, ServicesEngine(ServicesOf[parts.services]),
                                  SafeSearchEngine(SafeSearchOf[parts.safe_search]), client, n),
                   EngineOf[parts.engine], NamesOf(client, name), TagsOf(client), ask.req)

LEMMA FilterDecides ==
    ASSUME NEW ask, NEW parts, NEW mac, NEW name, NEW n,
           EarlySteps(SettingsOf[parts.settings], ask.req, ask.proto) = {},
           SettingsOf[parts.settings].rewrites =>
               RewriteStep(SettingsOf[parts.settings], RewritesOf[parts.rewrites], ask.req) = {},
           NEW d \in FilterOf(ask, parts, mac, name, n).out
    PROVE  d \in Decision(ask, parts, mac, name, n)
BY DEF Decision, FilterOf

LEMMA LateStepsDecide ==
    ASSUME NEW ask, NEW parts, NEW mac, NEW name, NEW n,
           EarlySteps(SettingsOf[parts.settings], ask.req, ask.proto) = {},
           SettingsOf[parts.settings].rewrites =>
               RewriteStep(SettingsOf[parts.settings], RewritesOf[parts.rewrites], ask.req) = {},
           FilterOf(ask, parts, mac, name, n).out = {},
           NEW d \in LateSteps(SettingsOf[parts.settings],
                               Effective(SettingsOf[parts.settings],
                                         ServicesEngine(ServicesOf[parts.services]),
                                         SafeSearchEngine(SafeSearchOf[parts.safe_search]),
                                         Find(Registry(parts.clients), ask.who, mac), n),
                               FilterOf(ask, parts, mac, name, n).allowed,
                               parts.private = "some", ask.req)
    PROVE  d \in Decision(ask, parts, mac, name, n)
BY DEF Decision, FilterOf

LEMMA ReadNameStep ==
    ASSUME Record, DOMAIN q = Tasks, NEW t \in Tasks, QueryInv(t), ReadName(t)
    PROVE  QueryInv(t)'
<1> DEFINE early == EarlySteps(Set(t), q[t].ask.req, q[t].ask.proto)
<1>1. q[t].stage = "name" /\ ReadSoFar(t) /\ DOMAIN q[t] = Fields /\ UNCHANGED Queries
  BY DEF ReadName, QueryInv, Decided
<1>2. ASSUME q'[t].stage # "idle"
      PROVE  /\ moments[t] \subseteq moments'[t]
             /\ \E m \in moments'[t] : /\ m.live = live /\ m.now = now
                                       /\ m.found = AddrOf(q'[t].ask.who)
             /\ \A part : Seen(t, part) \subseteq Seen(t, part)' /\ live[part] \in Seen(t, part)'
  BY <1>1, <1>2, StepRecords DEF Decided
<1>3. CASE early # {}
  <2>1. PICK d \in early : q'[t] = Settle(t, d)
    BY <1>3 DEF ReadName, Become
  <2>2. IsDecision(d) /\ d.via \in {"local", "drop"}
    BY EarlyDecisions
  <2>3. q'[t].stage = "done" /\ q'[t].ask = q[t].ask
    BY <1>1, <2>1, <2>2 DEF Settle, Fields
  <2>4. PICK m \in moments'[t] : TRUE
    BY <1>2, <2>3
  <2>5. q[t].settings \in Seen(t, "settings")'
    BY <1>1, <1>2, <2>3 DEF ReadSoFar
  <2> DEFINE parts == [settings |-> q[t].settings, rewrites |-> live["rewrites"],
                       clients |-> live["clients"], safe_search |-> live["safe_search"],
                       engine |-> live["engine"], services |-> live["services"],
                       private |-> live["private"]]
  <2>6. d \in Decision(q[t].ask, parts, m.found.mac, m.found.name, m.now)
    <3>1. d \in EarlySteps(SettingsOf[parts.settings], q[t].ask.req, q[t].ask.proto)
      BY DEF Set
    <3> QED
      BY <3>1, EarlyStepsDecide
  <2>7. \A out : Agrees(d, out) => DecidedFrom(t, out)'
    BY <1>2, <2>3, <2>4, <2>5, <2>6, FromTheParts
  <2>8. DOMAIN q'[t] = Fields /\ q'[t].stage \in Decided /\ DecisionMade(t)'
    BY <1>1, <2>1, <2>2, <2>5, <2>7, Settles
  <2> QED
    BY <2>4, <2>8 DEF QueryInv
<1>4. CASE early = {}
  <2>1. /\ DOMAIN q'[t] = Fields /\ q'[t].name = AddrOf(q[t].ask.who).name
        /\ q'[t].stage = IF Set(t).rewrites THEN "rewrites" ELSE "engine"
        /\ q'[t].ask = q[t].ask /\ q'[t].settings = q[t].settings /\ q'[t].mac = q[t].mac
        /\ q'[t].client = q[t].client /\ q'[t].services = q[t].services /\ q'[t].safe = q[t].safe
        /\ q'[t].at = q[t].at
    <3> DEFINE named == [q[t] EXCEPT !.name = AddrOf(q[t].ask.who).name]
               next == IF Set(t).rewrites THEN "rewrites" ELSE "engine"
    <3>1. q'[t] = [named EXCEPT !.stage = next]
      BY <1>4 DEF ReadName, Become
    <3>2. /\ DOMAIN named = Fields /\ named.name = AddrOf(q[t].ask.who).name
          /\ named.ask = q[t].ask /\ named.settings = q[t].settings /\ named.mac = q[t].mac
          /\ named.client = q[t].client /\ named.services = q[t].services /\ named.safe = q[t].safe
          /\ named.at = q[t].at
      BY <1>1 DEF Fields
    <3> HIDE DEF named, next
    <3>3. q'[t].stage = next
      BY <3>1, <3>2 DEF Fields
    <3> QED
      BY <3>1, <3>2, <3>3 DEF next, Fields
  <2>2. q'[t].stage \in {"rewrites", "engine"} /\ Set(t)' = Set(t)
    BY <2>1 DEF Set
  <2>3. /\ moments[t] \subseteq moments'[t]
        /\ \E b \in moments'[t] : q'[t].name = b.found.name
        /\ \A part : Seen(t, part) \subseteq Seen(t, part)'
    BY <1>2, <2>1, <2>2
  <2>4. ReadSoFar(t)'
    <3>1. (q'[t].stage = "engine" => ~Set(t).rewrites) /\ (q'[t].stage = "rewrites" => Set(t).rewrites)
      BY <2>1
    <3>2. EarlySteps(Set(t)', q'[t].ask.req, q'[t].ask.proto) = {}
      BY <1>4, <2>1, <2>2
    <3> HIDE DEF early
    <3> QED
      BY <1>1, <2>1, <2>2, <2>3, <3>1, <3>2 DEF ReadSoFar, AfterEngine, AfterRewrites, AfterName, AfterSafeSearch, AfterServices,
         AfterClients, AfterMac
  <2> QED
    BY <2>1, <2>2, <2>3, <2>4 DEF QueryInv, Deciding, AfterEngine, AfterRewrites, AfterName, AfterSafeSearch, AfterServices,
         AfterClients, AfterMac
<1> QED
  BY <1>3, <1>4

LEMMA ReadRewritesStep ==
    ASSUME Record, DOMAIN q = Tasks, NEW t \in Tasks, QueryInv(t), ReadRewrites(t)
    PROVE  QueryInv(t)'
<1> DEFINE found == RewriteStep(Set(t), RewritesOf[live.rewrites], q[t].ask.req)
<1>1. q[t].stage = "rewrites" /\ ReadSoFar(t) /\ DOMAIN q[t] = Fields /\ UNCHANGED Queries
  BY DEF ReadRewrites, QueryInv, Decided
<1>2. ASSUME q'[t].stage # "idle"
      PROVE  /\ moments[t] \subseteq moments'[t]
             /\ \E m \in moments'[t] : m.now = now
             /\ \A part : Seen(t, part) \subseteq Seen(t, part)' /\ live[part] \in Seen(t, part)'
  BY <1>1, <1>2, StepRecords DEF Decided
<1>3. EarlySteps(Set(t), q[t].ask.req, q[t].ask.proto) = {} /\ Set(t).rewrites
  BY <1>1 DEF ReadSoFar, AfterName
<1>4. CASE found # {}
  <2>1. PICK d \in found : q'[t] = Settle(t, d)
    BY <1>4 DEF ReadRewrites, Become
  <2>2. IsDecision(d) /\ d.via = "local"
    BY RewriteDecisions
  <2>3. q'[t].stage = "done" /\ q'[t].ask = q[t].ask
    BY <1>1, <2>1, <2>2 DEF Settle, Fields
  <2>4. PICK m \in moments'[t] : TRUE
    BY <1>2, <2>3
  <2>5. q[t].settings \in Seen(t, "settings")'
    BY <1>1, <1>2, <2>3 DEF ReadSoFar
  <2> DEFINE parts == [settings |-> q[t].settings, rewrites |-> live["rewrites"],
                       clients |-> live["clients"], safe_search |-> live["safe_search"],
                       engine |-> live["engine"], services |-> live["services"],
                       private |-> live["private"]]
  <2>6. d \in Decision(q[t].ask, parts, m.found.mac, m.found.name, m.now)
    <3>1. /\ SettingsOf[parts.settings] = Set(t)
          /\ d \in RewriteStep(Set(t), RewritesOf[parts.rewrites], q[t].ask.req)
      BY DEF Set
    <3> HIDE DEF parts, found
    <3> QED
      BY <1>3, <3>1, RewritesDecide
  <2>7. \A out : Agrees(d, out) => DecidedFrom(t, out)'
    BY <1>2, <2>3, <2>4, <2>5, <2>6, FromTheParts
  <2>8. DOMAIN q'[t] = Fields /\ q'[t].stage \in Decided /\ DecisionMade(t)'
    BY <1>1, <2>1, <2>2, <2>5, <2>7, Settles
  <2> QED
    BY <2>4, <2>8 DEF QueryInv
<1>5. CASE found = {}
  <2>1. /\ DOMAIN q'[t] = Fields /\ q'[t].stage = "engine"
        /\ q'[t].ask = q[t].ask /\ q'[t].settings = q[t].settings /\ q'[t].mac = q[t].mac
        /\ q'[t].client = q[t].client /\ q'[t].services = q[t].services /\ q'[t].safe = q[t].safe
        /\ q'[t].at = q[t].at /\ q'[t].name = q[t].name
    BY <1>1, <1>5 DEF ReadRewrites, Become, Fields
  <2>2. Set(t)' = Set(t)
    BY <2>1 DEF Set
  <2>3. /\ moments[t] \subseteq moments'[t] /\ moments'[t] # {}
        /\ \A part : Seen(t, part) \subseteq Seen(t, part)'
        /\ \E r \in Seen(t, "rewrites")' : RewriteStep(Set(t)', RewritesOf[r], q'[t].ask.req) = {}
    BY <1>2, <1>5, <2>1, <2>2
  <2>4. ReadSoFar(t)'
    <3> HIDE DEF found
    <3> QED
      BY <1>1, <2>1, <2>2, <2>3 DEF ReadSoFar, AfterEngine, AfterRewrites, AfterName, AfterSafeSearch, AfterServices,
         AfterClients, AfterMac
  <2> QED
    BY <2>1, <2>3, <2>4 DEF QueryInv, Deciding, AfterEngine, AfterRewrites, AfterName, AfterSafeSearch, AfterServices,
         AfterClients, AfterMac
<1> QED
  BY <1>4, <1>5

\* The filter of a query, from what it has read.
LEMMA FilterRead ==
    ASSUME NEW t, NEW parts, NEW e, NEW a, NEW b, NEW n,
           parts.settings = q[t].settings, parts.engine = e,
           q[t].mac = a, q[t].name = b, q[t].at = n,
           q[t].client = Find(Registry(parts.clients), q[t].ask.who, a),
           q[t].services = ServicesEngine(ServicesOf[parts.services]),
           q[t].safe = SafeSearchEngine(SafeSearchOf[parts.safe_search])
    PROVE  /\ FilterOf(q[t].ask, parts, a, b, n)
                = FilterSteps(Set(t), EffOf(t), EngineOf[e], NamesOf(q[t].client, q[t].name),
                              TagsOf(q[t].client), q[t].ask.req)
           /\ EffOf(t) = Effective(SettingsOf[parts.settings],
                                   ServicesEngine(ServicesOf[parts.services]),
                                   SafeSearchEngine(SafeSearchOf[parts.safe_search]),
                                   Find(Registry(parts.clients), q[t].ask.who, a), n)
           /\ SettingsOf[parts.settings] = Set(t)
BY DEF FilterOf, EffOf, Set

\* What a query that has passed the rewrites was read from.
LEMMA PartsRead ==
    ASSUME NEW t, ReadSoFar(t), q[t].stage \in AfterRewrites, moments[t] # {},
           moments[t] \subseteq moments'[t],
           \A part : Seen(t, part) \subseteq Seen(t, part)'
    PROVE  /\ EarlySteps(Set(t), q[t].ask.req, q[t].ask.proto) = {}
           /\ q[t].settings \in Seen(t, "settings")'
           /\ \E a \in moments'[t] : q[t].mac = a.found.mac
           /\ \E b \in moments'[t] : q[t].name = b.found.name
           /\ \E n \in moments'[t] : q[t].at = n.now
           /\ \E c \in Seen(t, "clients")' : q[t].client = Find(Registry(c), q[t].ask.who, q[t].mac)
           /\ \E v \in Seen(t, "services")' : q[t].services = ServicesEngine(ServicesOf[v])
           /\ \E f \in Seen(t, "safe_search")' : q[t].safe = SafeSearchEngine(SafeSearchOf[f])
           /\ \E r \in Seen(t, "rewrites")' :
                 Set(t).rewrites => RewriteStep(Set(t), RewritesOf[r], q[t].ask.req) = {}
<1>1. \E r \in Seen(t, "rewrites") : TRUE
  BY DEF Seen
<1>2. q[t].stage \in AfterName /\ q[t].stage \in AfterSafeSearch /\ q[t].stage \in AfterServices
      /\ q[t].stage \in AfterClients /\ q[t].stage \in AfterMac
  BY DEF AfterEngine, AfterRewrites, AfterName, AfterSafeSearch, AfterServices,
         AfterClients, AfterMac
<1> QED
  BY <1>1, <1>2 DEF ReadSoFar

LEMMA ReadEngineStep ==
    ASSUME Record, DOMAIN q = Tasks, NEW t \in Tasks, QueryInv(t), ReadEngine(t)
    PROVE  QueryInv(t)'
<1> DEFINE f == FilterSteps(Set(t), EffOf(t), EngineOf[live.engine], NamesOf(q[t].client, q[t].name),
                            TagsOf(q[t].client), q[t].ask.req)
<1>1. /\ q[t].stage = "engine" /\ ReadSoFar(t) /\ DOMAIN q[t] = Fields /\ UNCHANGED Queries
      /\ moments[t] # {}
  BY DEF ReadEngine, QueryInv, Decided
<1>2. ASSUME q'[t].stage # "idle"
      PROVE  /\ moments[t] \subseteq moments'[t]
             /\ \A part : Seen(t, part) \subseteq Seen(t, part)' /\ live[part] \in Seen(t, part)'
  BY <1>1, <1>2, StepRecords DEF Decided
<1>3. CASE f.out # {}
  <2>1. PICK d \in f.out : q'[t] = Settle(t, d)
    BY <1>3 DEF ReadEngine, Become
  <2>2. IsDecision(d) /\ d.via = "local"
    BY FilterDecisions
  <2>3. q'[t].stage = "done" /\ q'[t].ask = q[t].ask
    BY <1>1, <2>1, <2>2 DEF Settle, Fields
  <2> HIDE DEF f
  <2>4. /\ EarlySteps(Set(t), q[t].ask.req, q[t].ask.proto) = {}
        /\ q[t].settings \in Seen(t, "settings")'
        /\ \E a \in moments'[t] : q[t].mac = a.found.mac
        /\ \E b \in moments'[t] : q[t].name = b.found.name
        /\ \E n \in moments'[t] : q[t].at = n.now
        /\ \E c \in Seen(t, "clients")' : q[t].client = Find(Registry(c), q[t].ask.who, q[t].mac)
        /\ \E v \in Seen(t, "services")' : q[t].services = ServicesEngine(ServicesOf[v])
        /\ \E s \in Seen(t, "safe_search")' : q[t].safe = SafeSearchEngine(SafeSearchOf[s])
        /\ \E r \in Seen(t, "rewrites")' :
              Set(t).rewrites => RewriteStep(Set(t), RewritesOf[r], q[t].ask.req) = {}
    BY <1>1, <1>2, <2>3, PartsRead DEF AfterRewrites
  <2>5. PICK a \in moments'[t], b \in moments'[t], n \in moments'[t] :
            q[t].mac = a.found.mac /\ q[t].name = b.found.name /\ q[t].at = n.now
    BY <2>4
  <2>6. PICK c \in Seen(t, "clients")', v \in Seen(t, "services")', s \in Seen(t, "safe_search")',
             r \in Seen(t, "rewrites")' :
            /\ q[t].client = Find(Registry(c), q[t].ask.who, q[t].mac)
            /\ q[t].services = ServicesEngine(ServicesOf[v])
            /\ q[t].safe = SafeSearchEngine(SafeSearchOf[s])
            /\ Set(t).rewrites => RewriteStep(Set(t), RewritesOf[r], q[t].ask.req) = {}
    BY <2>4
  <2> DEFINE parts == [settings |-> q[t].settings, rewrites |-> r, clients |-> c,
                       safe_search |-> s, engine |-> live["engine"], services |-> v,
                       private |-> live["private"]]
  <2>7. /\ parts.settings = q[t].settings /\ parts.engine = live.engine /\ parts.clients = c
        /\ parts.services = v /\ parts.safe_search = s /\ parts.rewrites = r
    OBVIOUS
  <2>8. d \in Decision(q[t].ask, parts, a.found.mac, b.found.name, n.now)
    <3> HIDE DEF parts
    <3>1. /\ FilterOf(q[t].ask, parts, a.found.mac, b.found.name, n.now) = f
          /\ SettingsOf[parts.settings] = Set(t)
      BY <2>5, <2>6, <2>7, FilterRead DEF f
    <3> QED
      BY <2>4, <2>6, <2>7, <3>1, FilterDecides
  <2>9. \A out : Agrees(d, out) => DecidedFrom(t, out)'
    BY <1>2, <2>3, <2>4, <2>8, FromTheParts
  <2>10. DOMAIN q'[t] = Fields /\ q'[t].stage \in Decided /\ DecisionMade(t)'
    <3> HIDE DEF parts
    <3> QED
      BY <1>1, <2>1, <2>2, <2>4, <2>9, Settles
  <2> QED
    BY <2>5, <2>10 DEF QueryInv
<1>4. CASE f.out = {}
  <2>1. /\ DOMAIN q'[t] = Fields /\ q'[t].stage = "pool" /\ q'[t].allowed = f.allowed
        /\ q'[t].ask = q[t].ask /\ q'[t].settings = q[t].settings /\ q'[t].mac = q[t].mac
        /\ q'[t].client = q[t].client /\ q'[t].services = q[t].services /\ q'[t].safe = q[t].safe
        /\ q'[t].at = q[t].at /\ q'[t].name = q[t].name
    <3>1. q'[t] = [q[t] EXCEPT !.stage = "pool", !.allowed = f.allowed]
      BY <1>4 DEF ReadEngine, Become
    <3> HIDE DEF f
    <3> QED
      BY <1>1, <3>1 DEF Fields
  <2>2. Set(t)' = Set(t) /\ EffOf(t)' = EffOf(t)
    BY <2>1 DEF Set, EffOf
  <2>3. f = [out |-> {}, allowed |-> q'[t].allowed]
    BY <1>4, <2>1, FilterPasses
  <2>4. /\ moments[t] \subseteq moments'[t] /\ moments'[t] # {}
        /\ \A part : Seen(t, part) \subseteq Seen(t, part)'
        /\ live["engine"] \in Seen(t, "engine")'
    BY <1>1, <1>2, <2>1
  <2>5. \E e \in Seen(t, "engine")' :
            FilterSteps(Set(t)', EffOf(t)', EngineOf[e], NamesOf(q'[t].client, q'[t].name),
                        TagsOf(q'[t].client), q'[t].ask.req) = [out |-> {}, allowed |-> q'[t].allowed]
    BY <2>1, <2>2, <2>3, <2>4
  <2>6. ReadSoFar(t)'
    <3> HIDE DEF f
    <3> QED
      BY <1>1, <2>1, <2>2, <2>4, <2>5 DEF ReadSoFar, AfterEngine, AfterRewrites, AfterName, AfterSafeSearch, AfterServices,
         AfterClients, AfterMac
  <2> QED
    BY <2>1, <2>4, <2>6 DEF QueryInv, Deciding, AfterEngine, AfterRewrites, AfterName, AfterSafeSearch, AfterServices,
         AfterClients, AfterMac
<1> QED
  BY <1>3, <1>4

LEMMA ReadPrivatePoolStep ==
    ASSUME Record, DOMAIN q = Tasks, NEW t \in Tasks, QueryInv(t), ReadPrivatePool(t)
    PROVE  QueryInv(t)'
<1>1. /\ q[t].stage = "pool" /\ ReadSoFar(t) /\ DOMAIN q[t] = Fields /\ UNCHANGED Queries
      /\ moments[t] # {}
  BY DEF ReadPrivatePool, QueryInv, Decided
<1>2. PICK d \in LateSteps(Set(t), EffOf(t), q[t].allowed, live.private = "some", q[t].ask.req) :
          q'[t] = Settle(t, d)
  BY DEF ReadPrivatePool, Become
<1>3. /\ IsDecision(d) /\ d.via \in {"local", "private", "forward"}
      /\ d.via = "forward" => ~IsPrivatePtr(Set(t), q[t].ask.req)
  BY LateDecisions
<1>4. q'[t].stage \in Decided /\ q'[t].ask = q[t].ask
  BY <1>1, <1>2, <1>3 DEF Settle, Fields, Decided
<1>5. /\ moments[t] \subseteq moments'[t]
      /\ \A part : Seen(t, part) \subseteq Seen(t, part)' /\ live[part] \in Seen(t, part)'
  BY <1>1, <1>4, StepRecords DEF Decided
<1>6. /\ EarlySteps(Set(t), q[t].ask.req, q[t].ask.proto) = {}
      /\ q[t].settings \in Seen(t, "settings")'
      /\ \E a \in moments'[t] : q[t].mac = a.found.mac
      /\ \E b \in moments'[t] : q[t].name = b.found.name
      /\ \E n \in moments'[t] : q[t].at = n.now
      /\ \E c \in Seen(t, "clients")' : q[t].client = Find(Registry(c), q[t].ask.who, q[t].mac)
      /\ \E v \in Seen(t, "services")' : q[t].services = ServicesEngine(ServicesOf[v])
      /\ \E s \in Seen(t, "safe_search")' : q[t].safe = SafeSearchEngine(SafeSearchOf[s])
      /\ \E r \in Seen(t, "rewrites")' :
            Set(t).rewrites => RewriteStep(Set(t), RewritesOf[r], q[t].ask.req) = {}
  BY <1>1, <1>5, PartsRead DEF AfterRewrites, AfterEngine
<1>7. PICK a \in moments'[t], b \in moments'[t], n \in moments'[t] :
          q[t].mac = a.found.mac /\ q[t].name = b.found.name /\ q[t].at = n.now
  BY <1>6
<1>8. PICK c \in Seen(t, "clients")', v \in Seen(t, "services")', s \in Seen(t, "safe_search")',
           r \in Seen(t, "rewrites")', e \in Seen(t, "engine")' :
          /\ q[t].client = Find(Registry(c), q[t].ask.who, q[t].mac)
          /\ q[t].services = ServicesEngine(ServicesOf[v])
          /\ q[t].safe = SafeSearchEngine(SafeSearchOf[s])
          /\ Set(t).rewrites => RewriteStep(Set(t), RewritesOf[r], q[t].ask.req) = {}
          /\ FilterSteps(Set(t), EffOf(t), EngineOf[e], NamesOf(q[t].client, q[t].name),
                         TagsOf(q[t].client), q[t].ask.req) = [out |-> {}, allowed |-> q[t].allowed]
  BY <1>1, <1>5, <1>6 DEF ReadSoFar, AfterEngine
<1> DEFINE parts == [settings |-> q[t].settings, rewrites |-> r, clients |-> c,
                     safe_search |-> s, engine |-> e, services |-> v, private |-> live["private"]]
<1>9. /\ parts.settings = q[t].settings /\ parts.engine = e /\ parts.clients = c
      /\ parts.services = v /\ parts.safe_search = s /\ parts.rewrites = r
      /\ parts.private = live.private
  OBVIOUS
<1>10. d \in Decision(q[t].ask, parts, a.found.mac, b.found.name, n.now)
  <2> HIDE DEF parts
  <2> DEFINE f == FilterOf(q[t].ask, parts, a.found.mac, b.found.name, n.now)
  <2>1. /\ f = [out |-> {}, allowed |-> q[t].allowed]
        /\ EffOf(t) = Effective(SettingsOf[parts.settings],
                                ServicesEngine(ServicesOf[parts.services]),
                                SafeSearchEngine(SafeSearchOf[parts.safe_search]),
                                Find(Registry(parts.clients), q[t].ask.who, a.found.mac), n.now)
        /\ SettingsOf[parts.settings] = Set(t)
    BY <1>7, <1>8, <1>9, FilterRead
  <2>2. f.out = {} /\ f.allowed = q[t].allowed
    BY <2>1
  <2> QED
    BY <1>2, <1>6, <1>8, <1>9, <2>1, <2>2, LateStepsDecide
<1>11. \A out : Agrees(d, out) => DecidedFrom(t, out)'
  BY <1>4, <1>5, <1>6, <1>10, FromTheParts
<1>12. DOMAIN q'[t] = Fields /\ q'[t].stage \in Decided /\ DecisionMade(t)'
  <2> HIDE DEF parts
  <2> QED
    BY <1>1, <1>2, <1>3, <1>6, <1>11, Settles
<1> QED
  BY <1>7, <1>12 DEF QueryInv

\* An exchange fills in the message of the decision, and nothing else of it.
Answered(t, msg) == [q[t] EXCEPT !.stage = "done", !.out = {[d EXCEPT !.msg = msg] : d \in @}]

LEMMA ExchangeStep ==
    ASSUME Record, NEW t \in Tasks, QueryInv(t), q[t].stage \in {"private", "forward"}, NEW msg,
           q'[t] = Answered(t, msg)
    PROVE  QueryInv(t)'
<1>1. DOMAIN q[t] = Fields /\ moments[t] # {} /\ DecisionMade(t) /\ q[t].stage \in Decided
  BY DEF QueryInv, Decided, Deciding, AfterEngine, AfterRewrites, AfterName, AfterSafeSearch,
         AfterServices, AfterClients, AfterMac
<1>2. PICK d : /\ q[t].out = {d} /\ IsDecision(d)
               /\ q[t].settings \in Seen(t, "settings") /\ DecidedFrom(t, d)
               /\ d.via = "forward" => ~IsPrivatePtr(Set(t), q[t].ask.req)
  BY <1>1 DEF DecisionMade
<1> DEFINE o == [d EXCEPT !.msg = msg]
<1>3. /\ DOMAIN q'[t] = Fields /\ q'[t].stage = "done" /\ q'[t].out = {o}
      /\ q'[t].ask = q[t].ask /\ q'[t].settings = q[t].settings
  BY <1>1, <1>2 DEF Fields, Answered
<1>4. moments'[t] = moments[t]
  BY <1>1, <1>3, MomentsGrow
<1>5. IsDecision(o) /\ Agrees(d, o)
  BY <1>2 DEF IsDecision, Agrees
<1> HIDE DEF o
<1>6. Set(t)' = Set(t) /\ \A part : Seen(t, part)' = Seen(t, part)
  BY <1>3, <1>4 DEF Set, Seen
<1>7. DecidedFrom(t, o)'
  BY <1>2, <1>3, <1>4, <1>5, <1>6 DEF DecidedFrom, Agrees
<1>8. o.via = "forward" => ~IsPrivatePtr(Set(t)', q'[t].ask.req)
  BY <1>2, <1>3, <1>5, <1>6 DEF Agrees
<1>9. DecisionMade(t)'
  BY <1>2, <1>3, <1>5, <1>6, <1>7, <1>8 DEF DecisionMade
<1> QED
  BY <1>1, <1>3, <1>4, <1>9 DEF QueryInv, Decided

\* A query that takes no step.
LEMMA OtherQuery ==
    ASSUME Record, NEW t \in Tasks, q[t] = Idle \/ QueryInv(t), q'[t] = q[t]
    PROVE  q'[t] = Idle \/ QueryInv(t)'
<1>1. SUFFICES ASSUME QueryInv(t) PROVE QueryInv(t)'
  OBVIOUS
<1>2. q[t].stage # "idle"
  BY <1>1 DEF QueryInv, Decided, Deciding, AfterEngine, AfterRewrites, AfterName, AfterSafeSearch,
              AfterServices, AfterClients, AfterMac
<1>3. moments[t] \subseteq moments'[t]
  BY <1>2, MomentsGrow
<1>4. (ReadSoFar(t) => ReadSoFar(t)') /\ (DecisionMade(t) => DecisionMade(t)')
  BY <1>3, QuietQuery
<1> QED
  BY <1>1, <1>3, <1>4 DEF QueryInv

(***************************************************************************)
(* The invariant.                                                          *)
(***************************************************************************)
LEMMA InitResolve == ResolveInit => ResolveInv
BY DEF ResolveInit, ResolveInv

LEMMA StepResolve == ResolveInv /\ [ResolveNext]_resolveVars => ResolveInv'
<1> SUFFICES ASSUME ResolveInv, [ResolveNext]_resolveVars PROVE ResolveInv'
  OBVIOUS
<1>1. CASE UNCHANGED resolveVars
  <2>1. q' = q /\ moments' = moments
    BY <1>1 DEF resolveVars
  <2>2. ASSUME NEW t \in Tasks, QueryInv(t) PROVE QueryInv(t)'
    BY <2>1, <2>2, QuietQuery DEF QueryInv
  <2> QED
    BY <2>1, <2>2 DEF ResolveInv
<1>2. CASE Record /\ q' = q
  BY <1>2, OtherQuery DEF ResolveInv
<1>3. ASSUME Record, NEW t \in Tasks, QueryStep(t)
      PROVE  ResolveInv'
  <2> USE <1>3
  <2>1. DOMAIN q = Tasks /\ (q[t] = Idle \/ QueryInv(t))
    BY DEF ResolveInv
  <2>2. PICK r : q' = [q EXCEPT ![t] = r]
    BY DEF QueryStep, Arrive, ReadMac, ReadClients, ReadServices, ReadSafeSearch, ReadName, ReadRewrites,
           ReadEngine, ReadPrivatePool, ExchangeOk, ExchangeFailed, PrivateExchange, Observe, Become
  <2>3. DOMAIN q' = Tasks /\ \A u \in Tasks \ {t} : q'[u] = q[u]
    BY <2>1, <2>2
  <2>4. ASSUME NEW u \in Tasks \ {t} PROVE q'[u] = Idle \/ QueryInv(u)'
    BY <2>3, OtherQuery DEF ResolveInv
  <2>5. q[t] = Idle => q[t].stage = "idle"
    BY DEF Idle
  <2>6. q'[t] = Idle \/ QueryInv(t)'
    <3>1. CASE \E x \in Requests : Arrive(t, x)
      BY <2>1, <3>1, ArriveStep
    <3>2. CASE ReadMac(t)
      BY <2>1, <2>5, <3>2, ReadMacStep DEF ReadMac
    <3>3. CASE ReadClients(t)
      BY <2>1, <2>5, <3>3, ReadClientsStep DEF ReadClients
    <3>4. CASE ReadServices(t)
      BY <2>1, <2>5, <3>4, ReadServicesStep DEF ReadServices
    <3>5. CASE ReadSafeSearch(t)
      BY <2>1, <2>5, <3>5, ReadSafeSearchStep DEF ReadSafeSearch
    <3>6. CASE ReadName(t)
      <4>1. q[t].stage = "name"
        BY <3>6 DEF ReadName
      <4> QED
        BY <2>1, <2>5, <3>6, <4>1, ReadNameStep
    <3>7. CASE ReadRewrites(t)
      <4>1. q[t].stage = "rewrites"
        BY <3>7 DEF ReadRewrites
      <4> QED
        BY <2>1, <2>5, <3>7, <4>1, ReadRewritesStep
    <3>8. CASE ReadEngine(t)
      <4>1. q[t].stage = "engine"
        BY <3>8 DEF ReadEngine
      <4> QED
        BY <2>1, <2>5, <3>8, <4>1, ReadEngineStep
    <3>9. CASE ReadPrivatePool(t)
      <4>1. q[t].stage = "pool"
        BY <3>9 DEF ReadPrivatePool
      <4> QED
        BY <2>1, <2>5, <3>9, <4>1, ReadPrivatePoolStep
    <3>10. CASE \E first, second : ExchangeOk(t, first, second)
      <4>1. PICK first, second : ExchangeOk(t, first, second)
        BY <3>10
      <4> DEFINE m == ClampMessage(Exchanged(Set(t), SentUpstream(t), q[t].ask.req, first, second),
                                   Set(t).ttl_min, Set(t).ttl_max)
      <4>2. q[t].stage = "forward" /\ QueryInv(t)
        BY <2>1, <2>5, <4>1 DEF ExchangeOk
      <4>3. q'[t] = Answered(t, {FinishReply(q[t].ask, m)})
        BY <2>1, <4>1 DEF ExchangeOk, Become, Answered
      <4> HIDE DEF m
      <4> QED
        BY <4>2, <4>3, ExchangeStep
    <3>11. CASE ExchangeFailed(t)
      <4>2. q[t].stage = "forward" /\ QueryInv(t)
        BY <2>1, <2>5, <3>11 DEF ExchangeFailed
      <4>3. q'[t] = Answered(t, {FinishReply(q[t].ask, ServFail(q[t].ask.req))})
        BY <2>1, <3>11 DEF ExchangeFailed, Become, Answered
      <4> QED
        BY <4>2, <4>3, ExchangeStep
    <3>12. CASE \E m : PrivateExchange(t, m)
      <4>1. PICK m : PrivateExchange(t, m)
        BY <3>12
      <4>2. q[t].stage = "private" /\ QueryInv(t)
        BY <2>1, <2>5, <4>1 DEF PrivateExchange
      <4>3. q'[t] = Answered(t, {FinishReply(q[t].ask, m)})
        BY <2>1, <4>1 DEF PrivateExchange, Become, Answered
      <4> QED
        BY <4>2, <4>3, ExchangeStep
    <3>13. CASE Observe(t)
      BY <2>1, <3>13 DEF Observe, Become
    <3> QED
      BY <3>1, <3>2, <3>3, <3>4, <3>5, <3>6, <3>7, <3>8, <3>9, <3>10, <3>11, <3>12, <3>13 DEF QueryStep
  <2> QED
    BY <2>3, <2>4, <2>6 DEF ResolveInv
<1>4. ASSUME ResolveNext
      PROVE  Record /\ ((\E t \in Tasks : QueryStep(t)) \/ q' = q)
  BY <1>4 DEF ResolveNext, ReloadStart, ReloadWrite, Tick
<1> QED
  BY <1>1, <1>2, <1>3, <1>4

LEMMA ResolveInvariant == ResolveSpec => []ResolveInv
BY InitResolve, StepResolve, PTL DEF ResolveSpec

LEMMA DoneIsDecided ==
    ASSUME ResolveInv, NEW t \in Tasks, q[t].stage \in Decided
    PROVE  DecisionMade(t)
BY DEF ResolveInv, QueryInv, Idle, Decided, Deciding, AfterEngine, AfterRewrites, AfterName,
       AfterSafeSearch, AfterServices, AfterClients, AfterMac

\* A query is decided by parts that were all in force at some moment of it,
\* whatever the reloads, the clock and the discovery of clients replace between
\* its reads, for any configurations, rules and clients.
THEOREM DecidedByPartsInForceHolds == ResolveSpec => []DecidedByPartsInForce
<1>1. ResolveInv => DecidedByPartsInForce
  <2> SUFFICES ASSUME ResolveInv, NEW t \in Tasks, Done(t)
               PROVE  DecidedFrom(t, Outcome(t))
    BY DEF DecidedByPartsInForce, DecidedFrom, Seen
  <2>1. DecisionMade(t)
    BY DoneIsDecided DEF Done, Decided
  <2> QED
    BY <2>1 DEF DecisionMade, Outcome
<1> QED
  BY <1>1, ResolveInvariant, PTL

\* A reverse lookup of an address that was private until it was decided is
\* never forwarded, for any settings, networks and reloads.
THEOREM PrivateStaysLocalHolds == ResolveSpec => []PrivateStaysLocal
<1>1. ResolveInv => PrivateStaysLocal
  <2> SUFFICES ASSUME ResolveInv, NEW t \in Tasks,
                      q[t].stage = "forward" \/ (Done(t) /\ Outcome(t).via = "forward")
               PROVE  \E m \in moments[t] : ~IsPrivatePtr(SettingsOf[m.live.settings], q[t].ask.req)
    BY DEF PrivateStaysLocal
  <2>1. PICK d : /\ q[t].out = {d} /\ q[t].settings \in Seen(t, "settings")
                 /\ q[t].stage = "forward" => d.via = "forward"
                 /\ d.via = "forward" => ~IsPrivatePtr(Set(t), q[t].ask.req)
    BY DoneIsDecided DEF Done, Decided, DecisionMade
  <2>2. d.via = "forward"
    BY <2>1 DEF Done, Outcome
  <2> QED
    BY <2>1, <2>2 DEF Seen, Set
<1> QED
  BY <1>1, ResolveInvariant, PTL
=============================================================================
