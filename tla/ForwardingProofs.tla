-------------------------- MODULE ForwardingProofs --------------------------
(***************************************************************************)
(* Proofs about the path of a question through the cache and the           *)
(* upstreams, for any queries, refreshes, clients, names and bounds.       *)
(***************************************************************************)
EXTENDS Forwarding, TLAPS

(***************************************************************************)
(* Coalescing on its own, for any set of tasks, keys and answers, finite   *)
(* or not.                                                                 *)
(***************************************************************************)
\* The converse of MapHoldsOnlyLeaders: a leader is in the map under its own
\* key until it unlinks, so its removal by key removes its own slot.
LeadersAreMapped ==
    \A t \in Tasks :
        role[t] \in {"lead", "closing"} => inflight[pkey[t]] = t

\* A task that entered holds a key and a leader's slot for that key.
WatchersHaveLeaders ==
    \A t \in Tasks :
        role[t] # "none" =>
            /\ pkey[t] \in Keys
            /\ watches[t] \in Tasks
            /\ role[watches[t]] \in Leading
            /\ pkey[watches[t]] = pkey[t]
            /\ role[t] \in Leading => watches[t] = t

\* The channel flips in the leader's last step and in no other.
SentWhenReleased == \A t \in Tasks : t \in notified <=> role[t] = "released"

\* A slot holds what its leader's exchange returned, and None before that.
SlotHoldsResult ==
    \A t \in Tasks :
        role[t] \in Leading \cup {"none"} => answer[t] = result[t]

UnenteredIsBlank ==
    \A t \in Tasks :
        role[t] = "none" => result[t] = Failed /\ watches[t] = NoTask

\* A served follower's leader has been released: its result is final.
ServedAfterRelease ==
    \A t \in Tasks : role[t] = "served" => role[watches[t]] = "released"

PendingInv ==
    /\ PendingTypeOK
    /\ MapHoldsOnlyLeaders
    /\ LeadersAreMapped
    /\ WatchersHaveLeaders
    /\ SentWhenReleased
    /\ SlotHoldsResult
    /\ UnenteredIsBlank
    /\ ServedAfterRelease
    /\ FollowersShareTheAnswer

LEMMA PendingInitInv == PendingInit => PendingInv
BY PendingAssumption
DEF PendingInit, PendingInv, PendingTypeOK, MapHoldsOnlyLeaders, Results,
    LeadersAreMapped, WatchersHaveLeaders, SentWhenReleased, SlotHoldsResult,
    UnenteredIsBlank, ServedAfterRelease, FollowersShareTheAnswer, Roles,
    Leading, Following

LEMMA PendingStepInv ==
    PendingInv /\ [PendingNext]_pendingVars => PendingInv'
<1> USE PendingAssumption DEF Results, Roles, Leading, Following
<1> SUFFICES ASSUME PendingInv, [PendingNext]_pendingVars
             PROVE  PendingInv'
    OBVIOUS
<1>1. ASSUME NEW t \in Tasks, NEW k \in Keys, Follow(t, k)
      PROVE  PendingInv'
      BY <1>1
      DEF PendingInv, PendingTypeOK, MapHoldsOnlyLeaders, LeadersAreMapped,
          WatchersHaveLeaders, SentWhenReleased, SlotHoldsResult,
          UnenteredIsBlank, ServedAfterRelease, FollowersShareTheAnswer, Follow
<1>2. ASSUME NEW t \in Tasks, NEW k \in Keys, Lead(t, k)
      PROVE  PendingInv'
      BY <1>2
      DEF PendingInv, PendingTypeOK, MapHoldsOnlyLeaders, LeadersAreMapped,
          WatchersHaveLeaders, SentWhenReleased, SlotHoldsResult,
          UnenteredIsBlank, ServedAfterRelease, FollowersShareTheAnswer, Lead
<1>3. ASSUME NEW t \in Tasks, NEW r \in Results, Publish(t, r)
      PROVE  PendingInv'
      BY <1>3
      DEF PendingInv, PendingTypeOK, MapHoldsOnlyLeaders, LeadersAreMapped,
          WatchersHaveLeaders, SentWhenReleased, SlotHoldsResult,
          UnenteredIsBlank, ServedAfterRelease, FollowersShareTheAnswer, Publish
<1>4. ASSUME NEW t \in Tasks, Abandon(t)
      PROVE  PendingInv'
      BY <1>4
      DEF PendingInv, PendingTypeOK, MapHoldsOnlyLeaders, LeadersAreMapped,
          WatchersHaveLeaders, SentWhenReleased, SlotHoldsResult,
          UnenteredIsBlank, ServedAfterRelease, FollowersShareTheAnswer, Abandon
<1>5. ASSUME NEW t \in Tasks, Unlink(t)
      PROVE  PendingInv'
      BY <1>5
      DEF PendingInv, PendingTypeOK, MapHoldsOnlyLeaders, LeadersAreMapped,
          WatchersHaveLeaders, SentWhenReleased, SlotHoldsResult,
          UnenteredIsBlank, ServedAfterRelease, FollowersShareTheAnswer, Unlink
<1>6. ASSUME NEW t \in Tasks, Notify(t)
      PROVE  PendingInv'
      BY <1>6
      DEF PendingInv, PendingTypeOK, MapHoldsOnlyLeaders, LeadersAreMapped,
          WatchersHaveLeaders, SentWhenReleased, SlotHoldsResult,
          UnenteredIsBlank, ServedAfterRelease, FollowersShareTheAnswer, Notify
<1>7. ASSUME NEW t \in Tasks, Wake(t)
      PROVE  PendingInv'
      BY <1>7
      DEF PendingInv, PendingTypeOK, MapHoldsOnlyLeaders, LeadersAreMapped,
          WatchersHaveLeaders, SentWhenReleased, SlotHoldsResult,
          UnenteredIsBlank, ServedAfterRelease, FollowersShareTheAnswer, Wake
<1>8. ASSUME NEW t \in Tasks, Leave(t)
      PROVE  PendingInv'
      BY <1>8
      DEF PendingInv, PendingTypeOK, MapHoldsOnlyLeaders, LeadersAreMapped,
          WatchersHaveLeaders, SentWhenReleased, SlotHoldsResult,
          UnenteredIsBlank, ServedAfterRelease, FollowersShareTheAnswer, Leave
<1>9. CASE UNCHANGED pendingVars
      BY <1>9
      DEF pendingVars, PendingInv, PendingTypeOK, MapHoldsOnlyLeaders,
          LeadersAreMapped, WatchersHaveLeaders, SentWhenReleased,
          SlotHoldsResult, UnenteredIsBlank, ServedAfterRelease,
          FollowersShareTheAnswer
<1> QED
    BY <1>1, <1>2, <1>3, <1>4, <1>5, <1>6, <1>7, <1>8, <1>9 DEF PendingNext

LEMMA PendingInvariant == PendingSpec => []PendingInv
<1>1. PendingInit => PendingInv
      BY PendingInitInv
<1>2. PendingInv /\ [PendingNext]_pendingVars => PendingInv'
      BY PendingStepInv
<1> QED
    BY <1>1, <1>2, PTL DEF PendingSpec

\* The variables keep their types.
THEOREM PendingTypeCorrect == PendingSpec => []PendingTypeOK
<1>1. PendingInv => PendingTypeOK
      BY DEF PendingInv
<1> QED
    BY <1>1, PendingInvariant, PTL

\* At most one exchange per key is in the air (Pending::enter, Leader::finish).
THEOREM OneExchangePerKeyHolds == PendingSpec => []OneExchangePerKey
<1>1. PendingInv => OneExchangePerKey
      BY DEF PendingInv, LeadersAreMapped, OneExchangePerKey
<1> QED
    BY <1>1, PendingInvariant, PTL

\* A follower returns its own leader's answer to its own key (Waiter::wait).
THEOREM FollowersShareTheAnswerHolds == PendingSpec => []FollowersShareTheAnswer
<1>1. PendingInv => FollowersShareTheAnswer
      BY DEF PendingInv
<1> QED
    BY <1>1, PendingInvariant, PTL

\* No follower waits on a slot that nobody will notify (Drop for Leader).
THEOREM NoFollowerStrandedHolds == PendingSpec => []NoFollowerStranded
<1>1. PendingInv => NoFollowerStranded
      BY DEF PendingInv, WatchersHaveLeaders, SentWhenReleased, Leading,
             NoFollowerStranded
<1> QED
    BY <1>1, PendingInvariant, PTL

\* No slot outlives its leader in the map (Leader::finish, Drop for Leader).
THEOREM MapHoldsOnlyLeadersHolds == PendingSpec => []MapHoldsOnlyLeaders
<1>1. PendingInv => MapHoldsOnlyLeaders
      BY DEF PendingInv
<1> QED
    BY <1>1, PendingInvariant, PTL

-----------------------------------------------------------------------------
(***************************************************************************)
(* Refinement.                                                             *)
(***************************************************************************)
LEMMA FlightStarts == PendingInit => Flight!FlightInit
BY PendingAssumption
DEF PendingInit, Flight!FlightInit, absAboard, absFate, Aboard, FateOf

\* Each step of the code is one step of the flight, or leaves it as it was.
LEMMA FlightStep ==
    PendingInv /\ PendingInv' /\ [PendingNext]_pendingVars
        => [Flight!FlightNext]_(Flight!flightVars)
<1> USE PendingAssumption DEF Results
<1> SUFFICES ASSUME PendingInv, PendingInv', [PendingNext]_pendingVars
             PROVE  [Flight!FlightNext]_(Flight!flightVars)
    OBVIOUS
<1> USE DEF PendingInv, PendingTypeOK, MapHoldsOnlyLeaders, LeadersAreMapped,
            WatchersHaveLeaders, UnenteredIsBlank, Leading, Following, Roles,
            Landed
<1>1. ASSUME NEW t \in Tasks, NEW k \in Keys, Follow(t, k)
      PROVE  Flight!Board(t, k)
  <2>1. absFate[t].state = "idle"
        BY <1>1 DEF Follow, absFate, FateOf
  <2>2. absAboard' = [x \in Keys |-> IF x = k THEN absAboard[x] \cup {t}
                                            ELSE absAboard[x]]
        BY <1>1 DEF Follow, absAboard, Aboard
  <2>3. absFate' = [u \in Tasks |-> IF u = t THEN [state |-> "waiting"]
                                            ELSE absFate[u]]
        BY <1>1 DEF Follow, absFate, FateOf
  <2> QED
      BY <2>1, <2>2, <2>3 DEF Flight!Board
<1>2. ASSUME NEW t \in Tasks, NEW k \in Keys, Lead(t, k)
      PROVE  Flight!Board(t, k)
  <2>1. absFate[t].state = "idle"
        BY <1>2 DEF Lead, absFate, FateOf
  <2>2. absAboard' = [x \in Keys |-> IF x = k THEN absAboard[x] \cup {t}
                                            ELSE absAboard[x]]
        BY <1>2 DEF Lead, absAboard, Aboard
  <2>3. absFate' = [u \in Tasks |-> IF u = t THEN [state |-> "waiting"]
                                            ELSE absFate[u]]
        BY <1>2 DEF Lead, absFate, FateOf
  <2> QED
      BY <2>1, <2>2, <2>3 DEF Flight!Board
<1>3. ASSUME NEW t \in Tasks, NEW r \in Results, Publish(t, r)
      PROVE  UNCHANGED <<absAboard, absFate>>
  <2>1. absAboard' = absAboard
        BY <1>3 DEF Publish, absAboard, Aboard
  <2>2. absFate' = absFate
        BY <1>3 DEF Publish, absFate, FateOf
  <2> QED
      BY <2>1, <2>2
<1>4. ASSUME NEW t \in Tasks, Abandon(t)
      PROVE  UNCHANGED <<absAboard, absFate>>
  <2>1. absAboard' = absAboard
        BY <1>4 DEF Abandon, absAboard, Aboard
  <2>2. absFate' = absFate
        BY <1>4 DEF Abandon, absFate, FateOf
  <2> QED
      BY <2>1, <2>2
<1>5. ASSUME NEW t \in Tasks, Unlink(t)
      PROVE  Flight!Land(pkey[t], answer[t])
  <2>1. inflight[pkey[t]] = t /\ pkey[t] \in Keys /\ watches[t] = t
        BY <1>5 DEF Unlink
  <2>2. t \in absAboard[pkey[t]]
        BY <1>5, <2>1 DEF Unlink, absAboard, Aboard
  <2>3. absAboard' = [x \in Keys |-> IF x = pkey[t] THEN {}
                                                  ELSE absAboard[x]]
        BY <1>5, <2>1 DEF Unlink, absAboard, Aboard
  <2>4. absFate' = [u \in Tasks |->
                      IF u \in absAboard[pkey[t]]
                        THEN [state |-> "answered", result |-> answer[t]]
                        ELSE absFate[u]]
        BY <1>5, <2>1 DEF Unlink, absAboard, absFate, Aboard, FateOf
  <2> QED
      BY <2>2, <2>3, <2>4 DEF Flight!Land
<1>6. ASSUME NEW t \in Tasks, Notify(t)
      PROVE  UNCHANGED <<absAboard, absFate>>
  <2>1. absAboard' = absAboard
        BY <1>6 DEF Notify, absAboard, Aboard
  <2>2. absFate' = absFate
        BY <1>6 DEF Notify, absFate, FateOf
  <2> QED
      BY <2>1, <2>2
<1>7. ASSUME NEW t \in Tasks, Wake(t)
      PROVE  UNCHANGED <<absAboard, absFate>>
  <2>1. absAboard' = absAboard
        BY <1>7 DEF Wake, absAboard, Aboard
  <2>2. absFate' = absFate
        BY <1>7 DEF Wake, absFate, FateOf
  <2> QED
      BY <2>1, <2>2
<1>8. ASSUME NEW t \in Tasks, Leave(t)
      PROVE  Flight!Cancel(t)
  <2>1. absFate[t].state \in {"waiting", "answered"}
        BY <1>8 DEF Leave, absFate, FateOf
  <2>2. absFate' = [u \in Tasks |-> IF u = t THEN [state |-> "cancelled"]
                                            ELSE absFate[u]]
        BY <1>8 DEF Leave, absFate, FateOf
  <2>3. absAboard' = [k \in Keys |-> absAboard[k] \ {t}]
        BY <1>8 DEF Leave, absAboard, Aboard
  <2> QED
      BY <2>1, <2>2, <2>3 DEF Flight!Cancel
<1>9. CASE UNCHANGED pendingVars
      BY <1>9
      DEF pendingVars, Flight!flightVars, absAboard, absFate, Aboard, FateOf
<1>10. ASSUME NEW t \in Tasks, Unlink(t)
       PROVE  \E k \in Keys, r \in Results : Flight!Land(k, r)
  <2>1. Flight!Land(pkey[t], answer[t])
        BY <1>5, <1>10
  <2>2. pkey[t] \in Keys /\ answer[t] \in Results
        BY <1>10 DEF Unlink
  <2> QED
      BY <2>1, <2>2, Zenon
<1> QED
    BY <1>1, <1>2, <1>3, <1>4, <1>6, <1>7, <1>8, <1>9, <1>10
    DEF PendingNext, Flight!FlightNext, Flight!flightVars

\* Storing, unlinking, notifying and waking implement a flight that lands in
\* one step for everyone aboard.
THEOREM PendingImplementsSingleFlight == PendingSpec => ImplementsSingleFlight
<1>1. PendingInit => Flight!FlightInit
      BY FlightStarts
<1>2. PendingInv /\ PendingInv' /\ [PendingNext]_pendingVars
        => [Flight!FlightNext]_(Flight!flightVars)
      BY FlightStep
<1> QED
    BY <1>1, <1>2, PendingInvariant, PTL
    DEF PendingSpec, ImplementsSingleFlight, Flight!FlightSpec

(***************************************************************************)
(* Coalescing among the other steps of a question.                         *)
(***************************************************************************)

\* The stages before a pool has been chosen, and those before an answer.
Unrouted == {"idle", "lookup", "claimed", "giveup", "bypass", "forward"}
Unanswered == {"idle", "lookup", "bypass", "forward", "enter", "coalesced",
               "exchange", "store", "dropped"}

\* Whoever is under way has a question.
Asked == \A t \in Tasks : stage[t] # "idle" => asks[t] \in Jobs

\* Only a query looks in the cache, and a claim is bypassed only where no
\* worker could honour it.
ClaimantsAreQueries ==
    \A t \in Tasks :
        /\ stage[t] \in {"lookup", "claimed", "giveup", "bypass"} => t \in Queries
        /\ stage[t] = "bypass" => ~attached

\* A pool counts as the client's own only if it is.
OwnPools ==
    \A t \in Tasks :
        pool[t].own => /\ stage[t] \notin Unrouted
                       /\ pool[t].pool = asks[t].key.upstreams

\* A task is in Pending exactly while and after it is coalesced, with its own
\* question and subnet, and with its own pool.
CoalescedAsAsked ==
    \A t \in Tasks :
        /\ role[t] # "none" =>
             /\ stage[t] \in {"coalesced", "store", "ending", "done", "dropped"}
             /\ pkey[t] = PendingKey(t)
             /\ pool[t].own
        /\ stage[t] = "enter" => pool[t].own
        /\ stage[t] = "coalesced" =>
             role[t] \in {"lead", "closing", "unlinked", "follow"}
        /\ stage[t] = "store" => role[t] \in {"none", "released"}

\* What an exchange returned came from the pool chosen for its task, for the
\* subnet the task sends.
ExchangesAsAsked ==
    \A t \in Tasks :
        /\ role[t] \in Leading => result[t] \in Outcomes(t)
        /\ alone[t] # Failed =>
             /\ stage[t] \in {"store", "ending", "done"}
             /\ alone[t] \in Outcomes(t)

NotAnsweredYet == \A t \in Tasks : stage[t] \in Unanswered => reply[t] = Failed

\* ForwardTypeOK in parts.
CacheTyped ==
    cache \in [CacheKeys -> [msg : Held, stale : BOOLEAN, refreshing : BOOLEAN]
                              \cup {NoEntry}]

QueueTyped ==
    /\ queue \in Seq(Jobs) /\ Len(queue) <= QueueBound
    /\ taken \in Jobs \cup {NoJob}

TasksTyped ==
    /\ ready \subseteq Pools
    /\ attached \in BOOLEAN
    /\ stage \in [Tasks -> Stages]
    /\ asks \in [Tasks -> Jobs \cup {NoJob}]
    /\ pool \in [Tasks -> [pool : Pools, own : BOOLEAN]]
    /\ alone \in [Tasks -> Results]
    /\ reply \in [Tasks -> [msg : Held, from : {"cache", "leader", "upstream"}]
                             \cup {Failed}]

ForwardInv ==
    /\ PendingInv
    /\ ForwardTypeOK
    /\ Asked
    /\ ClaimantsAreQueries
    /\ OwnPools
    /\ CoalescedAsAsked
    /\ ExchangesAsAsked
    /\ NotAnsweredYet
    /\ EntriesStayScoped
    /\ AnsweredAsAsked
    /\ ClaimsAreCarried

-----------------------------------------------------------------------------
(***************************************************************************)
(* Operators.                                                              *)
(***************************************************************************)
\* msg::clamp_ttls changes the TTL and nothing else.
LEMMA ClampKeepsTheRest ==
    ASSUME NEW m \in Messages
    PROVE  /\ ClampTtls(m) \in Held
           /\ ClampTtls(m).pool = m.pool
           /\ ClampTtls(m).subnet = m.subnet
BY ForwardingAssumption DEF Messages, Held, ClampTtls

LEMMA UpstreamsArePools ==
    ASSUME NEW k \in CacheKeys PROVE k.upstreams \in Pools
BY DEF CacheKeys, Pools

\* Enter asks for a key of Pending.
LEMMA PendingKeyTyped ==
    ASSUME NEW t \in Tasks, asks[t] \in Jobs
    PROVE  PendingKey(t) \in Keys
BY ForwardingAssumption DEF Jobs, PendingKey, Subnets

LEMMA OutcomesAreResults ==
    ASSUME NEW t PROVE Outcomes(t) \subseteq Results
BY ForwardingAssumption DEF Outcomes, Results

\* Marking an entry, or clearing the mark, leaves its message alone.
LEMMA MarkingKeepsTheEntry ==
    ASSUME NEW c, NEW b \in BOOLEAN, NEW k \in CacheKeys,
           c \in [CacheKeys -> [msg : Held, stale : BOOLEAN, refreshing : BOOLEAN]
                                 \cup {NoEntry}],
           c[k] # NoEntry
    PROVE  LET d == [c EXCEPT ![k].refreshing = b]
           IN  /\ d \in [CacheKeys -> [msg : Held, stale : BOOLEAN, refreshing : BOOLEAN]
                                        \cup {NoEntry}]
               /\ d[k].msg = c[k].msg
               /\ d[k].refreshing = b
               /\ \A x \in CacheKeys : x # k => d[x] = c[x]
OBVIOUS

\* What a task returns from its exchange fits what the task asked.
LEMMA ReturnedAsAsked ==
    ASSUME ForwardInv, NEW t \in Tasks, At(t, "store"), Returned(t) # Failed
    PROVE  /\ Returned(t) \in Messages
           /\ Returned(t).pool = pool[t].pool
           /\ Returned(t).subnet = asks[t].client.subnet
BY DEF ForwardInv, At, CoalescedAsAsked, ExchangesAsAsked, Returned, Outcomes,
       Leading

\* What a follower is given fits what the follower asked.
LEMMA FollowedAsAsked ==
    ASSUME ForwardInv, NEW t \in Tasks, role[t] = "follow"
    PROVE  answer[watches[t]] \in Outcomes(t)
<1> DEFINE w == watches[t]
<1>1. w \in Tasks /\ role[w] \in Leading /\ pkey[w] = pkey[t]
      BY DEF ForwardInv, PendingInv, WatchersHaveLeaders
<1>2. answer[w] \in Outcomes(w)
      BY <1>1 DEF ForwardInv, PendingInv, SlotHoldsResult, ExchangesAsAsked
<1>3. PendingKey(w) = PendingKey(t) /\ pool[w].own /\ pool[t].own
      BY <1>1 DEF ForwardInv, CoalescedAsAsked, Leading
<1>4. asks[w].key = asks[t].key /\ asks[w].client.subnet = asks[t].client.subnet
      BY <1>3 DEF PendingKey
<1>5. pool[w].pool = pool[t].pool
      BY <1>1, <1>3, <1>4 DEF ForwardInv, OwnPools
<1> QED
    BY <1>2, <1>4, <1>5 DEF Outcomes

-----------------------------------------------------------------------------
(***************************************************************************)
(* The steps of a task in Pending are Pending's own.                       *)
(***************************************************************************)
LEMMA ForwardStepIsPendingStep ==
    ForwardInv /\ [ForwardNext]_allVars => [PendingNext]_pendingVars
<1> SUFFICES ASSUME ForwardInv, [ForwardNext]_allVars
             PROVE  [PendingNext]_pendingVars
    OBVIOUS
<1>1. ASSUME NEW t \in Tasks, Enter(t) PROVE PendingNext
  <2>1. PendingKey(t) \in Keys
        BY <1>1, PendingKeyTyped DEF ForwardInv, Asked, Enter, At
  <2> QED
      BY <1>1, <2>1 DEF Enter, PendingNext
<1>2. ASSUME NEW t \in Tasks, NEW r \in Results, LeaderExchange(t, r)
      PROVE  PendingNext
      BY <1>2 DEF LeaderExchange, PendingNext
<1>3. ASSUME NEW t \in Tasks, LeaderUnlink(t) \/ LeaderNotify(t) \/ FollowerReply(t)
      PROVE  PendingNext
      BY <1>3 DEF LeaderUnlink, LeaderNotify, FollowerReply, PendingNext
<1>4. ASSUME NEW t \in Tasks, DropQuery(t)
      PROVE  [PendingNext]_pendingVars
      BY <1>4 DEF DropQuery, PendingNext
<1>5. ASSUME NEW t \in Tasks,
             \/ LookupMiss(t)
             \/ \E expiring \in BOOLEAN : LookupHit(t, expiring)
             \/ QueueRefresh(t)
             \/ ReturnClaim(t)
             \/ ChoosePool(t)
             \/ \E r \in Results : Exchange(t, r)
             \/ \E accepted \in BOOLEAN : Store(t, accepted)
             \/ NoAnswer(t)
             \/ RefreshDone(t)
             \/ SpawnRefresh(t)
      PROVE  UNCHANGED pendingVars
      BY <1>5 DEF LookupMiss, LookupHit, QueueRefresh, ReturnClaim, ChoosePool,
                  Exchange, Store, NoAnswer, RefreshDone, SpawnRefresh
<1>6. ASSUME NEW t \in Tasks, NEW c \in Clients, NEW n \in Names, Arrive(t, c, n)
      PROVE  UNCHANGED pendingVars
      BY <1>6 DEF Arrive
<1>7. ASSUME \/ Receive
             \/ \E k \in CacheKeys : Expire(k) \/ Evict(k)
             \/ \E ups \in SUBSET (Pools \ {Global}) : SetClientPools(ups)
      PROVE  UNCHANGED pendingVars
      BY <1>7 DEF Receive, Expire, Evict, SetClientPools
<1>8. CASE UNCHANGED allVars
      BY <1>8 DEF allVars, pendingVars
<1> QED
    BY <1>1, <1>2, <1>3, <1>4, <1>5, <1>6, <1>7, <1>8 DEF ForwardNext, TaskStep

-----------------------------------------------------------------------------
(***************************************************************************)
(* The invariant is inductive, part by part.                               *)
(***************************************************************************)
LEMMA TasksStep ==
    ForwardInv /\ [ForwardNext]_allVars => (Asked /\ ClaimantsAreQueries /\ NotAnsweredYet)'
<1> SUFFICES ASSUME ForwardInv, [ForwardNext]_allVars
             PROVE  (Asked /\ ClaimantsAreQueries /\ NotAnsweredYet)'
    OBVIOUS
<1>0. /\ stage \in [Tasks -> Stages]
      /\ asks \in [Tasks -> Jobs \cup {NoJob}]
      /\ reply \in [Tasks -> [msg : Held, from : {"cache", "leader", "upstream"}]
                             \cup {Failed}]
      /\ taken \in Jobs \cup {NoJob}
      /\ Tasks = Queries \cup Refreshes
      /\ Asked
      /\ CoalescedAsAsked
      /\ ClaimantsAreQueries
      /\ NotAnsweredYet
      BY ForwardingAssumption DEF ForwardInv, ForwardTypeOK, PendingTypeOK
<1> USE DEF pendingVars, Asked, ClaimantsAreQueries, NotAnsweredYet,
            CoalescedAsAsked, Unanswered, At, Goto, Stages
<1>1. ASSUME NEW t \in Tasks, NEW c \in Clients, NEW n \in Names, Arrive(t, c, n)
      PROVE  (Asked /\ ClaimantsAreQueries /\ NotAnsweredYet)'
      BY <1>0, <1>1 DEF Arrive, Jobs, CacheKeys
<1>2. ASSUME NEW t \in Tasks, LookupMiss(t)
      PROVE  (Asked /\ ClaimantsAreQueries /\ NotAnsweredYet)'
      BY <1>0, <1>2 DEF LookupMiss
<1>3. ASSUME NEW t \in Tasks, NEW expiring \in BOOLEAN, LookupHit(t, expiring)
      PROVE  (Asked /\ ClaimantsAreQueries /\ NotAnsweredYet)'
      BY <1>0, <1>3 DEF LookupHit
<1>4. ASSUME NEW t \in Tasks, QueueRefresh(t)
      PROVE  (Asked /\ ClaimantsAreQueries /\ NotAnsweredYet)'
      BY <1>0, <1>4 DEF QueueRefresh
<1>5. ASSUME NEW t \in Tasks, ReturnClaim(t)
      PROVE  (Asked /\ ClaimantsAreQueries /\ NotAnsweredYet)'
      BY <1>0, <1>5 DEF ReturnClaim, EndRefresh
<1>6. ASSUME NEW t \in Tasks, ChoosePool(t)
      PROVE  (Asked /\ ClaimantsAreQueries /\ NotAnsweredYet)'
      BY <1>0, <1>6 DEF ChoosePool, PoolFor
<1>7. ASSUME NEW t \in Tasks, Enter(t)
      PROVE  (Asked /\ ClaimantsAreQueries /\ NotAnsweredYet)'
      BY <1>0, <1>7 DEF Enter, Follow, Lead
<1>8. ASSUME NEW t \in Tasks, NEW r \in Results, LeaderExchange(t, r)
      PROVE  (Asked /\ ClaimantsAreQueries /\ NotAnsweredYet)'
      BY <1>0, <1>8 DEF LeaderExchange, forwardVars, Publish
<1>9. ASSUME NEW t \in Tasks, LeaderUnlink(t)
      PROVE  (Asked /\ ClaimantsAreQueries /\ NotAnsweredYet)'
      BY <1>0, <1>9 DEF LeaderUnlink, forwardVars, Unlink
<1>10. ASSUME NEW t \in Tasks, LeaderNotify(t)
      PROVE  (Asked /\ ClaimantsAreQueries /\ NotAnsweredYet)'
      BY <1>0, <1>10 DEF LeaderNotify, Notify
<1>11. ASSUME NEW t \in Tasks, FollowerReply(t)
      PROVE  (Asked /\ ClaimantsAreQueries /\ NotAnsweredYet)'
      BY <1>0, <1>11 DEF FollowerReply, Wake, Finish
<1>12. ASSUME NEW t \in Tasks, NEW r \in Results, Exchange(t, r)
      PROVE  (Asked /\ ClaimantsAreQueries /\ NotAnsweredYet)'
      BY <1>0, <1>12 DEF Exchange
<1>13. ASSUME NEW t \in Tasks, NEW accepted \in BOOLEAN, Store(t, accepted)
      PROVE  (Asked /\ ClaimantsAreQueries /\ NotAnsweredYet)'
      BY <1>0, <1>13 DEF Store, Finish, Returned
<1>14. ASSUME NEW t \in Tasks, NoAnswer(t)
      PROVE  (Asked /\ ClaimantsAreQueries /\ NotAnsweredYet)'
      BY <1>0, <1>14 DEF NoAnswer, Finish, Returned
<1>15. ASSUME NEW t \in Tasks, DropQuery(t)
      PROVE  (Asked /\ ClaimantsAreQueries /\ NotAnsweredYet)'
      BY <1>0, <1>15 DEF DropQuery, Abandon, Leave
<1>16. ASSUME NEW t \in Tasks, SpawnRefresh(t)
      PROVE  (Asked /\ ClaimantsAreQueries /\ NotAnsweredYet)'
      BY <1>0, <1>16 DEF SpawnRefresh
<1>17. ASSUME NEW t \in Tasks, RefreshDone(t)
      PROVE  (Asked /\ ClaimantsAreQueries /\ NotAnsweredYet)'
      BY <1>0, <1>17 DEF RefreshDone, EndRefresh
<1>18. ASSUME Receive
      PROVE  (Asked /\ ClaimantsAreQueries /\ NotAnsweredYet)'
      BY <1>0, <1>18 DEF Receive
<1>19. ASSUME NEW k \in CacheKeys, Expire(k)
      PROVE  (Asked /\ ClaimantsAreQueries /\ NotAnsweredYet)'
      BY <1>0, <1>19 DEF Expire
<1>20. ASSUME NEW k \in CacheKeys, Evict(k)
      PROVE  (Asked /\ ClaimantsAreQueries /\ NotAnsweredYet)'
      BY <1>0, <1>20 DEF Evict
<1>21. ASSUME NEW ups \in SUBSET (Pools \ {Global}), SetClientPools(ups)
      PROVE  (Asked /\ ClaimantsAreQueries /\ NotAnsweredYet)'
      BY <1>0, <1>21 DEF SetClientPools
<1>22. CASE UNCHANGED allVars
      BY <1>0, <1>22 DEF allVars
<1> QED
    BY <1>1, <1>2, <1>3, <1>4, <1>5, <1>6, <1>7, <1>8, <1>9, <1>10, <1>11, <1>12, <1>13, <1>14, <1>15, <1>16, <1>17, <1>18, <1>19, <1>20, <1>21, <1>22
    DEF ForwardNext, TaskStep

LEMMA CoalescingStep ==
    ForwardInv /\ [ForwardNext]_allVars => (OwnPools /\ CoalescedAsAsked)'
<1> SUFFICES ASSUME ForwardInv, [ForwardNext]_allVars
             PROVE  (OwnPools /\ CoalescedAsAsked)'
    OBVIOUS
<1>0. /\ stage \in [Tasks -> Stages]
      /\ role \in [Tasks -> Roles]
      /\ pool \in [Tasks -> [pool : Pools, own : BOOLEAN]]
      /\ asks \in [Tasks -> Jobs \cup {NoJob}]
      /\ pkey \in [Tasks -> Keys \cup {NoKey}]
      /\ OwnPools
      /\ CoalescedAsAsked
      BY DEF ForwardInv, ForwardTypeOK, PendingTypeOK
<1> USE DEF pendingVars, OwnPools, CoalescedAsAsked, Unrouted, At, Goto,
            PendingKey, Leading, Following, Roles, Stages
<1>1. ASSUME NEW t \in Tasks, NEW c \in Clients, NEW n \in Names, Arrive(t, c, n)
      PROVE  (OwnPools /\ CoalescedAsAsked)'
      BY <1>0, <1>1 DEF Arrive
<1>2. ASSUME NEW t \in Tasks, LookupMiss(t)
      PROVE  (OwnPools /\ CoalescedAsAsked)'
      BY <1>0, <1>2 DEF LookupMiss
<1>3. ASSUME NEW t \in Tasks, NEW expiring \in BOOLEAN, LookupHit(t, expiring)
      PROVE  (OwnPools /\ CoalescedAsAsked)'
      BY <1>0, <1>3 DEF LookupHit
<1>4. ASSUME NEW t \in Tasks, QueueRefresh(t)
      PROVE  (OwnPools /\ CoalescedAsAsked)'
      BY <1>0, <1>4 DEF QueueRefresh
<1>5. ASSUME NEW t \in Tasks, ReturnClaim(t)
      PROVE  (OwnPools /\ CoalescedAsAsked)'
      BY <1>0, <1>5 DEF ReturnClaim, EndRefresh
<1>6. ASSUME NEW t \in Tasks, ChoosePool(t)
      PROVE  (OwnPools /\ CoalescedAsAsked)'
      BY <1>0, <1>6 DEF ChoosePool, PoolFor
<1>7. ASSUME NEW t \in Tasks, Enter(t)
      PROVE  (OwnPools /\ CoalescedAsAsked)'
      BY <1>0, <1>7 DEF Enter, Follow, Lead
<1>8. ASSUME NEW t \in Tasks, NEW r \in Results, LeaderExchange(t, r)
      PROVE  (OwnPools /\ CoalescedAsAsked)'
      BY <1>0, <1>8 DEF LeaderExchange, forwardVars, Publish
<1>9. ASSUME NEW t \in Tasks, LeaderUnlink(t)
      PROVE  (OwnPools /\ CoalescedAsAsked)'
      BY <1>0, <1>9 DEF LeaderUnlink, forwardVars, Unlink
<1>10. ASSUME NEW t \in Tasks, LeaderNotify(t)
      PROVE  (OwnPools /\ CoalescedAsAsked)'
      BY <1>0, <1>10 DEF LeaderNotify, Notify
<1>11. ASSUME NEW t \in Tasks, FollowerReply(t)
      PROVE  (OwnPools /\ CoalescedAsAsked)'
      BY <1>0, <1>11 DEF FollowerReply, Wake, Finish
<1>12. ASSUME NEW t \in Tasks, NEW r \in Results, Exchange(t, r)
      PROVE  (OwnPools /\ CoalescedAsAsked)'
      BY <1>0, <1>12 DEF Exchange
<1>13. ASSUME NEW t \in Tasks, NEW accepted \in BOOLEAN, Store(t, accepted)
      PROVE  (OwnPools /\ CoalescedAsAsked)'
      BY <1>0, <1>13 DEF Store, Finish, Returned
<1>14. ASSUME NEW t \in Tasks, NoAnswer(t)
      PROVE  (OwnPools /\ CoalescedAsAsked)'
      BY <1>0, <1>14 DEF NoAnswer, Finish, Returned
<1>15. ASSUME NEW t \in Tasks, DropQuery(t)
      PROVE  (OwnPools /\ CoalescedAsAsked)'
      BY <1>0, <1>15 DEF DropQuery, Abandon, Leave
<1>16. ASSUME NEW t \in Tasks, SpawnRefresh(t)
      PROVE  (OwnPools /\ CoalescedAsAsked)'
      BY <1>0, <1>16 DEF SpawnRefresh
<1>17. ASSUME NEW t \in Tasks, RefreshDone(t)
      PROVE  (OwnPools /\ CoalescedAsAsked)'
      BY <1>0, <1>17 DEF RefreshDone, EndRefresh
<1>18. ASSUME Receive
      PROVE  (OwnPools /\ CoalescedAsAsked)'
      BY <1>0, <1>18 DEF Receive
<1>19. ASSUME NEW k \in CacheKeys, Expire(k)
      PROVE  (OwnPools /\ CoalescedAsAsked)'
      BY <1>0, <1>19 DEF Expire
<1>20. ASSUME NEW k \in CacheKeys, Evict(k)
      PROVE  (OwnPools /\ CoalescedAsAsked)'
      BY <1>0, <1>20 DEF Evict
<1>21. ASSUME NEW ups \in SUBSET (Pools \ {Global}), SetClientPools(ups)
      PROVE  (OwnPools /\ CoalescedAsAsked)'
      BY <1>0, <1>21 DEF SetClientPools
<1>22. CASE UNCHANGED allVars
      BY <1>0, <1>22 DEF allVars
<1> QED
    BY <1>1, <1>2, <1>3, <1>4, <1>5, <1>6, <1>7, <1>8, <1>9, <1>10, <1>11, <1>12, <1>13, <1>14, <1>15, <1>16, <1>17, <1>18, <1>19, <1>20, <1>21, <1>22
    DEF ForwardNext, TaskStep

LEMMA ExchangesStep ==
    ForwardInv /\ [ForwardNext]_allVars => ExchangesAsAsked'
<1> SUFFICES ASSUME ForwardInv, [ForwardNext]_allVars
             PROVE  ExchangesAsAsked'
    OBVIOUS
<1>0. /\ stage \in [Tasks -> Stages]
      /\ role \in [Tasks -> Roles]
      /\ pool \in [Tasks -> [pool : Pools, own : BOOLEAN]]
      /\ asks \in [Tasks -> Jobs \cup {NoJob}]
      /\ pkey \in [Tasks -> Keys \cup {NoKey}]
      /\ alone \in [Tasks -> Results]
      /\ result \in [Tasks -> Results]
      /\ OwnPools
      /\ CoalescedAsAsked
      /\ ExchangesAsAsked
      /\ UnenteredIsBlank
      BY DEF ForwardInv, ForwardTypeOK, PendingTypeOK, PendingInv
<1> USE DEF pendingVars, ExchangesAsAsked, OwnPools, CoalescedAsAsked,
            Unrouted, At, Goto, Leading, Following, Roles, Stages, Outcomes,
            Results, UnenteredIsBlank
<1>1. ASSUME NEW t \in Tasks, NEW c \in Clients, NEW n \in Names, Arrive(t, c, n)
      PROVE  ExchangesAsAsked'
      BY <1>0, <1>1 DEF Arrive
<1>2. ASSUME NEW t \in Tasks, LookupMiss(t)
      PROVE  ExchangesAsAsked'
      BY <1>0, <1>2 DEF LookupMiss
<1>3. ASSUME NEW t \in Tasks, NEW expiring \in BOOLEAN, LookupHit(t, expiring)
      PROVE  ExchangesAsAsked'
      BY <1>0, <1>3 DEF LookupHit
<1>4. ASSUME NEW t \in Tasks, QueueRefresh(t)
      PROVE  ExchangesAsAsked'
      BY <1>0, <1>4 DEF QueueRefresh
<1>5. ASSUME NEW t \in Tasks, ReturnClaim(t)
      PROVE  ExchangesAsAsked'
      BY <1>0, <1>5 DEF ReturnClaim, EndRefresh
<1>6. ASSUME NEW t \in Tasks, ChoosePool(t)
      PROVE  ExchangesAsAsked'
      BY <1>0, <1>6 DEF ChoosePool, PoolFor
<1>7. ASSUME NEW t \in Tasks, Enter(t)
      PROVE  ExchangesAsAsked'
      BY <1>0, <1>7 DEF Enter, Follow, Lead
<1>8. ASSUME NEW t \in Tasks, NEW r \in Results, LeaderExchange(t, r)
      PROVE  ExchangesAsAsked'
      BY <1>0, <1>8 DEF LeaderExchange, forwardVars, Publish
<1>9. ASSUME NEW t \in Tasks, LeaderUnlink(t)
      PROVE  ExchangesAsAsked'
      BY <1>0, <1>9 DEF LeaderUnlink, forwardVars, Unlink
<1>10. ASSUME NEW t \in Tasks, LeaderNotify(t)
      PROVE  ExchangesAsAsked'
      BY <1>0, <1>10 DEF LeaderNotify, Notify
<1>11. ASSUME NEW t \in Tasks, FollowerReply(t)
      PROVE  ExchangesAsAsked'
      BY <1>0, <1>11 DEF FollowerReply, Wake, Finish
<1>12. ASSUME NEW t \in Tasks, NEW r \in Results, Exchange(t, r)
      PROVE  ExchangesAsAsked'
      BY <1>0, <1>12 DEF Exchange
<1>13. ASSUME NEW t \in Tasks, NEW accepted \in BOOLEAN, Store(t, accepted)
      PROVE  ExchangesAsAsked'
      BY <1>0, <1>13 DEF Store, Finish, Returned
<1>14. ASSUME NEW t \in Tasks, NoAnswer(t)
      PROVE  ExchangesAsAsked'
      BY <1>0, <1>14 DEF NoAnswer, Finish, Returned
<1>15. ASSUME NEW t \in Tasks, DropQuery(t)
      PROVE  ExchangesAsAsked'
      BY <1>0, <1>15 DEF DropQuery, Abandon, Leave
<1>16. ASSUME NEW t \in Tasks, SpawnRefresh(t)
      PROVE  ExchangesAsAsked'
      BY <1>0, <1>16 DEF SpawnRefresh
<1>17. ASSUME NEW t \in Tasks, RefreshDone(t)
      PROVE  ExchangesAsAsked'
      BY <1>0, <1>17 DEF RefreshDone, EndRefresh
<1>18. ASSUME Receive
      PROVE  ExchangesAsAsked'
      BY <1>0, <1>18 DEF Receive
<1>19. ASSUME NEW k \in CacheKeys, Expire(k)
      PROVE  ExchangesAsAsked'
      BY <1>0, <1>19 DEF Expire
<1>20. ASSUME NEW k \in CacheKeys, Evict(k)
      PROVE  ExchangesAsAsked'
      BY <1>0, <1>20 DEF Evict
<1>21. ASSUME NEW ups \in SUBSET (Pools \ {Global}), SetClientPools(ups)
      PROVE  ExchangesAsAsked'
      BY <1>0, <1>21 DEF SetClientPools
<1>22. CASE UNCHANGED allVars
      BY <1>0, <1>22 DEF allVars
<1> QED
    BY <1>1, <1>2, <1>3, <1>4, <1>5, <1>6, <1>7, <1>8, <1>9, <1>10, <1>11, <1>12, <1>13, <1>14, <1>15, <1>16, <1>17, <1>18, <1>19, <1>20, <1>21, <1>22
    DEF ForwardNext, TaskStep

LEMMA ScopeStep ==
    ForwardInv /\ [ForwardNext]_allVars => EntriesStayScoped'
<1> SUFFICES ASSUME ForwardInv, [ForwardNext]_allVars
             PROVE  EntriesStayScoped'
    OBVIOUS
<1>0. /\ cache \in [CacheKeys -> [msg : Held, stale : BOOLEAN, refreshing : BOOLEAN]
                                \cup {NoEntry}]
      /\ asks \in [Tasks -> Jobs \cup {NoJob}]
      /\ EntriesStayScoped
      /\ Asked
      /\ OwnPools
      /\ CoalescedAsAsked
      BY DEF ForwardInv, ForwardTypeOK, PendingTypeOK
<1> USE DEF pendingVars, EntriesStayScoped, Asked, OwnPools, CoalescedAsAsked,
            At, Goto
<1>1. ASSUME NEW t \in Tasks, NEW c \in Clients, NEW n \in Names, Arrive(t, c, n)
      PROVE  EntriesStayScoped'
      BY <1>0, <1>1 DEF Arrive
<1>2. ASSUME NEW t \in Tasks, LookupMiss(t)
      PROVE  EntriesStayScoped'
      BY <1>0, <1>2 DEF LookupMiss
<1>3. ASSUME NEW t \in Tasks, NEW expiring \in BOOLEAN, LookupHit(t, expiring)
      PROVE  EntriesStayScoped'
      BY <1>0, <1>3 DEF LookupHit
<1>4. ASSUME NEW t \in Tasks, QueueRefresh(t)
      PROVE  EntriesStayScoped'
      BY <1>0, <1>4 DEF QueueRefresh
<1>5. ASSUME NEW t \in Tasks, ReturnClaim(t)
      PROVE  EntriesStayScoped'
      BY <1>0, <1>5 DEF ReturnClaim, EndRefresh
<1>6. ASSUME NEW t \in Tasks, ChoosePool(t)
      PROVE  EntriesStayScoped'
      BY <1>0, <1>6 DEF ChoosePool, PoolFor
<1>7. ASSUME NEW t \in Tasks, Enter(t)
      PROVE  EntriesStayScoped'
      BY <1>0, <1>7 DEF Enter, Follow, Lead
<1>8. ASSUME NEW t \in Tasks, NEW r \in Results, LeaderExchange(t, r)
      PROVE  EntriesStayScoped'
      BY <1>0, <1>8 DEF LeaderExchange, forwardVars, Publish
<1>9. ASSUME NEW t \in Tasks, LeaderUnlink(t)
      PROVE  EntriesStayScoped'
      BY <1>0, <1>9 DEF LeaderUnlink, forwardVars, Unlink
<1>10. ASSUME NEW t \in Tasks, LeaderNotify(t)
      PROVE  EntriesStayScoped'
      BY <1>0, <1>10 DEF LeaderNotify, Notify
<1>11. ASSUME NEW t \in Tasks, FollowerReply(t)
      PROVE  EntriesStayScoped'
      BY <1>0, <1>11 DEF FollowerReply, Wake, Finish
<1>12. ASSUME NEW t \in Tasks, NEW r \in Results, Exchange(t, r)
      PROVE  EntriesStayScoped'
      BY <1>0, <1>12 DEF Exchange
<1>13. ASSUME NEW t \in Tasks, NEW accepted \in BOOLEAN, Store(t, accepted)
      PROVE  EntriesStayScoped'
  <2>1. /\ ClampTtls(Returned(t)) \in Held
        /\ ClampTtls(Returned(t)).pool = pool[t].pool
        BY <1>13, ReturnedAsAsked, ClampKeepsTheRest DEF Store
  <2>2. CASE pool[t].own /\ accepted
    <3>1. pool[t].pool = asks[t].key.upstreams
          BY <1>0, <2>2
    <3>2. asks[t].key \in CacheKeys
          BY <1>0, <1>13 DEF Store, Jobs
    <3>3. cache' = [cache EXCEPT ![asks[t].key] =
                      [msg |-> ClampTtls(Returned(t)), stale |-> FALSE,
                       refreshing |-> FALSE]]
          BY <1>13, <2>2 DEF Store
    <3> QED
        BY <1>0, <2>1, <3>1, <3>2, <3>3
  <2>3. CASE ~(pool[t].own /\ accepted)
        BY <1>0, <1>13, <2>3 DEF Store
  <2> QED
      BY <2>2, <2>3
<1>14. ASSUME NEW t \in Tasks, NoAnswer(t)
      PROVE  EntriesStayScoped'
      BY <1>0, <1>14 DEF NoAnswer, Finish, Returned
<1>15. ASSUME NEW t \in Tasks, DropQuery(t)
      PROVE  EntriesStayScoped'
      BY <1>0, <1>15 DEF DropQuery, Abandon, Leave
<1>16. ASSUME NEW t \in Tasks, SpawnRefresh(t)
      PROVE  EntriesStayScoped'
      BY <1>0, <1>16 DEF SpawnRefresh
<1>17. ASSUME NEW t \in Tasks, RefreshDone(t)
      PROVE  EntriesStayScoped'
      BY <1>0, <1>17 DEF RefreshDone, EndRefresh
<1>18. ASSUME Receive
      PROVE  EntriesStayScoped'
      BY <1>0, <1>18 DEF Receive
<1>19. ASSUME NEW k \in CacheKeys, Expire(k)
      PROVE  EntriesStayScoped'
      BY <1>0, <1>19 DEF Expire
<1>20. ASSUME NEW k \in CacheKeys, Evict(k)
      PROVE  EntriesStayScoped'
      BY <1>0, <1>20 DEF Evict
<1>21. ASSUME NEW ups \in SUBSET (Pools \ {Global}), SetClientPools(ups)
      PROVE  EntriesStayScoped'
      BY <1>0, <1>21 DEF SetClientPools
<1>22. CASE UNCHANGED allVars
      BY <1>0, <1>22 DEF allVars
<1> QED
    BY <1>1, <1>2, <1>3, <1>4, <1>5, <1>6, <1>7, <1>8, <1>9, <1>10, <1>11, <1>12, <1>13, <1>14, <1>15, <1>16, <1>17, <1>18, <1>19, <1>20, <1>21, <1>22
    DEF ForwardNext, TaskStep

LEMMA AnswersStep ==
    ForwardInv /\ [ForwardNext]_allVars => AnsweredAsAsked'
<1> SUFFICES ASSUME ForwardInv, [ForwardNext]_allVars
             PROVE  AnsweredAsAsked'
    OBVIOUS
<1>0. /\ reply \in [Tasks -> [msg : Held, from : {"cache", "leader", "upstream"}]
                             \cup {Failed}]
      /\ stage \in [Tasks -> Stages]
      /\ pool \in [Tasks -> [pool : Pools, own : BOOLEAN]]
      /\ asks \in [Tasks -> Jobs \cup {NoJob}]
      /\ result \in [Tasks -> Results]
      /\ AnsweredAsAsked
      /\ NotAnsweredYet
      BY DEF ForwardInv, ForwardTypeOK, PendingTypeOK
<1> USE DEF pendingVars, AnsweredAsAsked, NotAnsweredYet, Unanswered, At, Goto
<1>1. ASSUME NEW t \in Tasks, NEW c \in Clients, NEW n \in Names, Arrive(t, c, n)
      PROVE  AnsweredAsAsked'
      BY <1>0, <1>1 DEF Arrive
<1>2. ASSUME NEW t \in Tasks, LookupMiss(t)
      PROVE  AnsweredAsAsked'
      BY <1>0, <1>2 DEF LookupMiss
<1>3. ASSUME NEW t \in Tasks, NEW expiring \in BOOLEAN, LookupHit(t, expiring)
      PROVE  AnsweredAsAsked'
      BY <1>0, <1>3 DEF LookupHit
<1>4. ASSUME NEW t \in Tasks, QueueRefresh(t)
      PROVE  AnsweredAsAsked'
      BY <1>0, <1>4 DEF QueueRefresh
<1>5. ASSUME NEW t \in Tasks, ReturnClaim(t)
      PROVE  AnsweredAsAsked'
      BY <1>0, <1>5 DEF ReturnClaim, EndRefresh
<1>6. ASSUME NEW t \in Tasks, ChoosePool(t)
      PROVE  AnsweredAsAsked'
      BY <1>0, <1>6 DEF ChoosePool, PoolFor
<1>7. ASSUME NEW t \in Tasks, Enter(t)
      PROVE  AnsweredAsAsked'
      BY <1>0, <1>7 DEF Enter, Follow, Lead
<1>8. ASSUME NEW t \in Tasks, NEW r \in Results, LeaderExchange(t, r)
      PROVE  AnsweredAsAsked'
      BY <1>0, <1>8 DEF LeaderExchange, forwardVars, Publish
<1>9. ASSUME NEW t \in Tasks, LeaderUnlink(t)
      PROVE  AnsweredAsAsked'
      BY <1>0, <1>9 DEF LeaderUnlink, forwardVars, Unlink
<1>10. ASSUME NEW t \in Tasks, LeaderNotify(t)
      PROVE  AnsweredAsAsked'
      BY <1>0, <1>10 DEF LeaderNotify, Notify
<1>11. ASSUME NEW t \in Tasks, FollowerReply(t)
      PROVE  AnsweredAsAsked'
  <2> DEFINE m == answer[watches[t]]
  <2>1. m # Failed => /\ m.pool = pool[t].pool
                      /\ m.subnet = asks[t].client.subnet
        BY <1>11, FollowedAsAsked DEF FollowerReply, Wake, Outcomes
  <2>2. /\ reply' = [reply EXCEPT ![t] =
                       IF m = Failed THEN Failed
                       ELSE [msg |-> m, from |-> "leader"]]
        /\ UNCHANGED <<pool, asks>>
        BY <1>0, <1>11 DEF FollowerReply, Wake, Finish
  <2> QED
      BY <1>0, <2>1, <2>2
<1>12. ASSUME NEW t \in Tasks, NEW r \in Results, Exchange(t, r)
      PROVE  AnsweredAsAsked'
      BY <1>0, <1>12 DEF Exchange
<1>13. ASSUME NEW t \in Tasks, NEW accepted \in BOOLEAN, Store(t, accepted)
      PROVE  AnsweredAsAsked'
  <2> DEFINE m == ClampTtls(Returned(t))
  <2>1. /\ m.pool = pool[t].pool
        /\ m.subnet = asks[t].client.subnet
        BY <1>13, ReturnedAsAsked, ClampKeepsTheRest DEF Store
  <2>2. /\ reply' = [reply EXCEPT ![t] = [msg |-> m, from |-> "upstream"]]
        /\ UNCHANGED <<pool, asks>>
        BY <1>13 DEF Store, Finish
  <2> QED
      BY <1>0, <2>1, <2>2
<1>14. ASSUME NEW t \in Tasks, NoAnswer(t)
      PROVE  AnsweredAsAsked'
      BY <1>0, <1>14 DEF NoAnswer, Finish, Returned
<1>15. ASSUME NEW t \in Tasks, DropQuery(t)
      PROVE  AnsweredAsAsked'
      BY <1>0, <1>15 DEF DropQuery, Abandon, Leave
<1>16. ASSUME NEW t \in Tasks, SpawnRefresh(t)
      PROVE  AnsweredAsAsked'
      BY <1>0, <1>16 DEF SpawnRefresh
<1>17. ASSUME NEW t \in Tasks, RefreshDone(t)
      PROVE  AnsweredAsAsked'
      BY <1>0, <1>17 DEF RefreshDone, EndRefresh
<1>18. ASSUME Receive
      PROVE  AnsweredAsAsked'
      BY <1>0, <1>18 DEF Receive
<1>19. ASSUME NEW k \in CacheKeys, Expire(k)
      PROVE  AnsweredAsAsked'
      BY <1>0, <1>19 DEF Expire
<1>20. ASSUME NEW k \in CacheKeys, Evict(k)
      PROVE  AnsweredAsAsked'
      BY <1>0, <1>20 DEF Evict
<1>21. ASSUME NEW ups \in SUBSET (Pools \ {Global}), SetClientPools(ups)
      PROVE  AnsweredAsAsked'
      BY <1>0, <1>21 DEF SetClientPools
<1>22. CASE UNCHANGED allVars
      BY <1>0, <1>22 DEF allVars
<1> QED
    BY <1>1, <1>2, <1>3, <1>4, <1>5, <1>6, <1>7, <1>8, <1>9, <1>10, <1>11, <1>12, <1>13, <1>14, <1>15, <1>16, <1>17, <1>18, <1>19, <1>20, <1>21, <1>22
    DEF ForwardNext, TaskStep

LEMMA ClaimsStep ==
    ForwardInv /\ [ForwardNext]_allVars => ClaimsAreCarried'
<1> SUFFICES ASSUME ForwardInv, [ForwardNext]_allVars
             PROVE  ClaimsAreCarried'
    OBVIOUS
<1>0. /\ cache \in [CacheKeys -> [msg : Held, stale : BOOLEAN, refreshing : BOOLEAN]
                                \cup {NoEntry}]
      /\ queue \in Seq(Jobs) /\ Len(queue) <= QueueBound
      /\ taken \in Jobs \cup {NoJob}
      /\ attached \in BOOLEAN
      /\ NoJob \notin Jobs
      /\ stage \in [Tasks -> Stages]
      /\ asks \in [Tasks -> Jobs \cup {NoJob}]
      /\ Queries \cap Refreshes = {} /\ Tasks = Queries \cup Refreshes
      /\ QueueBound \in Nat
      /\ ClaimsAreCarried
      /\ ClaimantsAreQueries
      /\ Asked
      /\ CoalescedAsAsked
      BY ForwardingAssumption DEF ForwardInv, ForwardTypeOK, PendingTypeOK
<1> USE DEF pendingVars, ClaimsAreCarried, ClaimantsAreQueries, Asked,
            CoalescedAsAsked, At, Goto
<1>1. ASSUME NEW t \in Tasks, NEW c \in Clients, NEW n \in Names, Arrive(t, c, n)
      PROVE  ClaimsAreCarried'
  <2>1. \A k \in CacheKeys : Carried(k) => Carried(k)'
        BY <1>0, <1>1 DEF Arrive, Carried, Running
  <2>2. \A k \in CacheKeys :
          cache'[k] # NoEntry /\ cache'[k].refreshing =>
            cache[k] # NoEntry /\ cache[k].refreshing
        BY <1>0, <1>1 DEF Arrive
  <2> QED
      BY <1>0, <1>1, <2>1, <2>2 DEF Arrive
<1>2. ASSUME NEW t \in Tasks, LookupMiss(t)
      PROVE  ClaimsAreCarried'
  <2>1. \A k \in CacheKeys : Carried(k) => Carried(k)'
        BY <1>0, <1>2 DEF LookupMiss, Carried, Running
  <2>2. \A k \in CacheKeys :
          cache'[k] # NoEntry /\ cache'[k].refreshing =>
            cache[k] # NoEntry /\ cache[k].refreshing
        BY <1>0, <1>2 DEF LookupMiss
  <2> QED
      BY <1>0, <1>2, <2>1, <2>2 DEF LookupMiss
<1>3. ASSUME NEW t \in Tasks, NEW expiring \in BOOLEAN, LookupHit(t, expiring)
      PROVE  ClaimsAreCarried'
  <2> DEFINE k0 == asks[t].key
             claims == (cache[k0].stale \/ expiring) /\ ~cache[k0].refreshing
  <2>1. k0 \in CacheKeys /\ cache[k0] # NoEntry /\ t \in Queries
        BY <1>0, <1>3 DEF LookupHit, Jobs
  <2>2. cache[k0].refreshing \in BOOLEAN /\ cache[k0].stale \in BOOLEAN
        BY <1>0, <2>1
  <2>3. /\ cache' = [cache EXCEPT ![k0].refreshing = cache[k0].refreshing \/ claims]
        /\ UNCHANGED <<queue, taken, attached, asks>>
        BY <1>3 DEF LookupHit
  <2>4. (cache[k0].refreshing \/ claims) \in BOOLEAN
        BY <2>2
  <2>5. /\ cache'[k0].refreshing = (cache[k0].refreshing \/ claims)
        /\ \A k \in CacheKeys : k # k0 => cache'[k] = cache[k]
        BY <1>0, <2>1, <2>3, <2>4, MarkingKeepsTheEntry
  <2>6. \A k \in CacheKeys : Carried(k) => Carried(k)'
        BY <1>0, <1>3, <2>1, <2>3 DEF LookupHit, Carried, Running
  <2>7. attached /\ claims => Carried(k0)'
        BY <1>0, <1>3, <2>1, <2>3 DEF LookupHit, Carried
  <2> QED
      BY <1>0, <2>1, <2>2, <2>3, <2>5, <2>6, <2>7
<1>4. ASSUME NEW t \in Tasks, QueueRefresh(t)
      PROVE  ClaimsAreCarried'
  <2>1. ASSUME attached, NEW k \in CacheKeys, Carried(k) PROVE Carried(k)'
    <3>1. CASE Len(queue) < QueueBound
      <4>1. queue' = Append(queue, asks[t]) /\ asks[t] \in Jobs
            BY <1>0, <1>4, <2>1, <3>1 DEF QueueRefresh
      <4>2. /\ Len(queue') = Len(queue) + 1
            /\ queue'[Len(queue) + 1] = asks[t]
            /\ \A i \in 1..Len(queue) : queue'[i] = queue[i]
            BY <1>0, <4>1
      <4>3. Len(queue) \in Nat /\ Len(queue) # QueueBound /\ t \in Queries
            BY <1>0, <1>4, <3>1 DEF QueueRefresh
      <4>4. /\ stage' = [stage EXCEPT ![t] = "done"]
            /\ UNCHANGED <<asks, taken>>
            BY <1>4, <4>3 DEF QueueRefresh
      <4> QED
          BY <1>0, <2>1, <4>2, <4>3, <4>4 DEF Carried, Running
    <3>2. CASE ~(Len(queue) < QueueBound)
      <4>1. Len(queue) = QueueBound /\ t \in Queries
            BY <1>0, <1>4, <3>2 DEF QueueRefresh
      <4>2. /\ stage' = [stage EXCEPT ![t] = "giveup"]
            /\ UNCHANGED <<asks, taken, queue>>
            BY <1>4, <2>1, <3>2, <4>1 DEF QueueRefresh
      <4> QED
          BY <1>0, <2>1, <4>1, <4>2 DEF Carried, Running
    <3> QED
        BY <3>1, <3>2
  <2> QED
      BY <1>0, <1>4, <2>1 DEF QueueRefresh
<1>5. ASSUME NEW t \in Tasks, ReturnClaim(t)
      PROVE  ClaimsAreCarried'
  <2> DEFINE k0 == asks[t].key
  <2>1. k0 \in CacheKeys
        BY <1>0, <1>5 DEF ReturnClaim, EndRefresh, Jobs
  <2>2. /\ cache'[k0] # NoEntry => ~cache'[k0].refreshing
        /\ \A k \in CacheKeys : k # k0 => cache'[k] = cache[k]
        BY <1>0, <1>5, <2>1, MarkingKeepsTheEntry DEF ReturnClaim, EndRefresh
  <2>3. \A k \in CacheKeys : k # k0 /\ Carried(k) => Carried(k)'
        BY <1>0, <1>5 DEF ReturnClaim, EndRefresh, Carried, Running
  <2> QED
      BY <1>0, <1>5, <2>2, <2>3 DEF ReturnClaim, EndRefresh
<1>6. ASSUME NEW t \in Tasks, ChoosePool(t)
      PROVE  ClaimsAreCarried'
  <2>1. \A k \in CacheKeys : Carried(k) => Carried(k)'
        BY <1>0, <1>6 DEF ChoosePool, PoolFor, Carried, Running
  <2>2. \A k \in CacheKeys :
          cache'[k] # NoEntry /\ cache'[k].refreshing =>
            cache[k] # NoEntry /\ cache[k].refreshing
        BY <1>0, <1>6 DEF ChoosePool, PoolFor
  <2> QED
      BY <1>0, <1>6, <2>1, <2>2 DEF ChoosePool, PoolFor
<1>7. ASSUME NEW t \in Tasks, Enter(t)
      PROVE  ClaimsAreCarried'
  <2>1. \A k \in CacheKeys : Carried(k) => Carried(k)'
        BY <1>0, <1>7 DEF Enter, Follow, Lead, Carried, Running
  <2>2. \A k \in CacheKeys :
          cache'[k] # NoEntry /\ cache'[k].refreshing =>
            cache[k] # NoEntry /\ cache[k].refreshing
        BY <1>0, <1>7 DEF Enter, Follow, Lead
  <2> QED
      BY <1>0, <1>7, <2>1, <2>2 DEF Enter, Follow, Lead
<1>8. ASSUME NEW t \in Tasks, NEW r \in Results, LeaderExchange(t, r)
      PROVE  ClaimsAreCarried'
  <2>1. \A k \in CacheKeys : Carried(k) => Carried(k)'
        BY <1>0, <1>8 DEF LeaderExchange, forwardVars, Publish, Carried, Running
  <2>2. \A k \in CacheKeys :
          cache'[k] # NoEntry /\ cache'[k].refreshing =>
            cache[k] # NoEntry /\ cache[k].refreshing
        BY <1>0, <1>8 DEF LeaderExchange, forwardVars, Publish
  <2> QED
      BY <1>0, <1>8, <2>1, <2>2 DEF LeaderExchange, forwardVars, Publish
<1>9. ASSUME NEW t \in Tasks, LeaderUnlink(t)
      PROVE  ClaimsAreCarried'
  <2>1. \A k \in CacheKeys : Carried(k) => Carried(k)'
        BY <1>0, <1>9 DEF LeaderUnlink, forwardVars, Unlink, Carried, Running
  <2>2. \A k \in CacheKeys :
          cache'[k] # NoEntry /\ cache'[k].refreshing =>
            cache[k] # NoEntry /\ cache[k].refreshing
        BY <1>0, <1>9 DEF LeaderUnlink, forwardVars, Unlink
  <2> QED
      BY <1>0, <1>9, <2>1, <2>2 DEF LeaderUnlink, forwardVars, Unlink
<1>10. ASSUME NEW t \in Tasks, LeaderNotify(t)
      PROVE  ClaimsAreCarried'
  <2>1. \A k \in CacheKeys : Carried(k) => Carried(k)'
        BY <1>0, <1>10 DEF LeaderNotify, Notify, Carried, Running
  <2>2. \A k \in CacheKeys :
          cache'[k] # NoEntry /\ cache'[k].refreshing =>
            cache[k] # NoEntry /\ cache[k].refreshing
        BY <1>0, <1>10 DEF LeaderNotify, Notify
  <2> QED
      BY <1>0, <1>10, <2>1, <2>2 DEF LeaderNotify, Notify
<1>11. ASSUME NEW t \in Tasks, FollowerReply(t)
      PROVE  ClaimsAreCarried'
  <2>1. \A k \in CacheKeys : Carried(k) => Carried(k)'
        BY <1>0, <1>11 DEF FollowerReply, Wake, Finish, Carried, Running
  <2>2. \A k \in CacheKeys :
          cache'[k] # NoEntry /\ cache'[k].refreshing =>
            cache[k] # NoEntry /\ cache[k].refreshing
        BY <1>0, <1>11 DEF FollowerReply, Wake, Finish
  <2> QED
      BY <1>0, <1>11, <2>1, <2>2 DEF FollowerReply, Wake, Finish
<1>12. ASSUME NEW t \in Tasks, NEW r \in Results, Exchange(t, r)
      PROVE  ClaimsAreCarried'
  <2>1. \A k \in CacheKeys : Carried(k) => Carried(k)'
        BY <1>0, <1>12 DEF Exchange, Carried, Running
  <2>2. \A k \in CacheKeys :
          cache'[k] # NoEntry /\ cache'[k].refreshing =>
            cache[k] # NoEntry /\ cache[k].refreshing
        BY <1>0, <1>12 DEF Exchange
  <2> QED
      BY <1>0, <1>12, <2>1, <2>2 DEF Exchange
<1>13. ASSUME NEW t \in Tasks, NEW accepted \in BOOLEAN, Store(t, accepted)
      PROVE  ClaimsAreCarried'
  <2>1. \A k \in CacheKeys : Carried(k) => Carried(k)'
        BY <1>0, <1>13 DEF Store, Finish, Returned, Carried, Running
  <2>2. \A k \in CacheKeys :
          cache'[k] # NoEntry /\ cache'[k].refreshing =>
            cache[k] # NoEntry /\ cache[k].refreshing
        BY <1>0, <1>13 DEF Store, Finish, Returned
  <2> QED
      BY <1>0, <1>13, <2>1, <2>2 DEF Store, Finish, Returned
<1>14. ASSUME NEW t \in Tasks, NoAnswer(t)
      PROVE  ClaimsAreCarried'
  <2>1. \A k \in CacheKeys : Carried(k) => Carried(k)'
        BY <1>0, <1>14 DEF NoAnswer, Finish, Returned, Carried, Running
  <2>2. \A k \in CacheKeys :
          cache'[k] # NoEntry /\ cache'[k].refreshing =>
            cache[k] # NoEntry /\ cache[k].refreshing
        BY <1>0, <1>14 DEF NoAnswer, Finish, Returned
  <2> QED
      BY <1>0, <1>14, <2>1, <2>2 DEF NoAnswer, Finish, Returned
<1>15. ASSUME NEW t \in Tasks, DropQuery(t)
      PROVE  ClaimsAreCarried'
  <2>1. \A k \in CacheKeys : Carried(k) => Carried(k)'
        BY <1>0, <1>15 DEF DropQuery, Abandon, Leave, Carried, Running
  <2>2. \A k \in CacheKeys :
          cache'[k] # NoEntry /\ cache'[k].refreshing =>
            cache[k] # NoEntry /\ cache[k].refreshing
        BY <1>0, <1>15 DEF DropQuery, Abandon, Leave
  <2> QED
      BY <1>0, <1>15, <2>1, <2>2 DEF DropQuery, Abandon, Leave
<1>16. ASSUME NEW t \in Tasks, SpawnRefresh(t)
      PROVE  ClaimsAreCarried'
  <2>1. \A k \in CacheKeys : Carried(k) => Carried(k)'
        BY <1>0, <1>16 DEF SpawnRefresh, Carried, Running
  <2>2. \A k \in CacheKeys :
          cache'[k] # NoEntry /\ cache'[k].refreshing =>
            cache[k] # NoEntry /\ cache[k].refreshing
        BY <1>0, <1>16 DEF SpawnRefresh
  <2> QED
      BY <1>0, <1>16, <2>1, <2>2 DEF SpawnRefresh
<1>17. ASSUME NEW t \in Tasks, RefreshDone(t)
      PROVE  ClaimsAreCarried'
  <2> DEFINE k0 == asks[t].key
  <2>1. k0 \in CacheKeys
        BY <1>0, <1>17 DEF RefreshDone, EndRefresh, Jobs
  <2>2. /\ cache'[k0] # NoEntry => ~cache'[k0].refreshing
        /\ \A k \in CacheKeys : k # k0 => cache'[k] = cache[k]
        BY <1>0, <1>17, <2>1, MarkingKeepsTheEntry DEF RefreshDone, EndRefresh
  <2>3. \A k \in CacheKeys : k # k0 /\ Carried(k) => Carried(k)'
        BY <1>0, <1>17 DEF RefreshDone, EndRefresh, Carried, Running
  <2> QED
      BY <1>0, <1>17, <2>2, <2>3 DEF RefreshDone, EndRefresh
<1>18. ASSUME Receive
      PROVE  ClaimsAreCarried'
  <2>1. /\ queue # <<>>
        /\ taken' = Head(queue)
        /\ queue' = Tail(queue)
        /\ UNCHANGED <<cache, attached, stage, asks>>
        BY <1>18 DEF Receive
  <2>2. /\ Len(queue) \in Nat \ {0}
        /\ taken' = queue[1] /\ taken' \in Jobs
        /\ Len(queue') = Len(queue) - 1
        /\ \A i \in 1..Len(queue') : queue'[i] = queue[i + 1]
        BY <1>0, <2>1
  <2>3. ASSUME NEW i \in 1..Len(queue), i # 1
        PROVE  i - 1 \in 1..Len(queue') /\ queue'[i - 1] = queue[i]
        BY <2>2, <2>3
  <2>4. taken = NoJob
        BY <1>18 DEF Receive
  <2>5. ASSUME NEW k \in CacheKeys, Carried(k) PROVE Carried(k)'
    <3>1. ASSUME NEW i \in 1..Len(queue), queue[i].key = k PROVE Carried(k)'
          BY <1>0, <2>2, <2>3, <3>1 DEF Carried
    <3> QED
        BY <2>1, <2>4, <2>5, <3>1 DEF Carried, Running
  <2> QED
      BY <1>0, <2>1, <2>5
<1>19. ASSUME NEW old \in CacheKeys, Expire(old)
      PROVE  ClaimsAreCarried'
  <2>1. \A k \in CacheKeys : Carried(k) => Carried(k)'
        BY <1>0, <1>19 DEF Expire, Carried, Running
  <2>2. \A k \in CacheKeys :
          cache'[k] # NoEntry /\ cache'[k].refreshing =>
            cache[k] # NoEntry /\ cache[k].refreshing
        BY <1>0, <1>19 DEF Expire
  <2> QED
      BY <1>0, <1>19, <2>1, <2>2 DEF Expire
<1>20. ASSUME NEW old \in CacheKeys, Evict(old)
      PROVE  ClaimsAreCarried'
  <2>1. \A k \in CacheKeys : Carried(k) => Carried(k)'
        BY <1>0, <1>20 DEF Evict, Carried, Running
  <2>2. \A k \in CacheKeys :
          cache'[k] # NoEntry /\ cache'[k].refreshing =>
            cache[k] # NoEntry /\ cache[k].refreshing
        BY <1>0, <1>20 DEF Evict
  <2> QED
      BY <1>0, <1>20, <2>1, <2>2 DEF Evict
<1>21. ASSUME NEW ups \in SUBSET (Pools \ {Global}), SetClientPools(ups)
      PROVE  ClaimsAreCarried'
  <2>1. \A k \in CacheKeys : Carried(k) => Carried(k)'
        BY <1>0, <1>21 DEF SetClientPools, Carried, Running
  <2>2. \A k \in CacheKeys :
          cache'[k] # NoEntry /\ cache'[k].refreshing =>
            cache[k] # NoEntry /\ cache[k].refreshing
        BY <1>0, <1>21 DEF SetClientPools
  <2> QED
      BY <1>0, <1>21, <2>1, <2>2 DEF SetClientPools
<1>22. CASE UNCHANGED allVars
      BY <1>0, <1>22 DEF allVars, Carried, Running
<1> QED
    BY <1>1, <1>2, <1>3, <1>4, <1>5, <1>6, <1>7, <1>8, <1>9, <1>10, <1>11, <1>12, <1>13, <1>14, <1>15, <1>16, <1>17, <1>18, <1>19, <1>20, <1>21, <1>22
    DEF ForwardNext, TaskStep

LEMMA CacheTypesStep ==
    ForwardInv /\ [ForwardNext]_allVars => CacheTyped'
<1> SUFFICES ASSUME ForwardInv, [ForwardNext]_allVars
             PROVE  CacheTyped'
    OBVIOUS
<1>0. /\ CacheTyped
      /\ Asked
      /\ CoalescedAsAsked
      /\ asks \in [Tasks -> Jobs \cup {NoJob}]
      BY DEF ForwardInv, ForwardTypeOK, CacheTyped
<1> USE DEF pendingVars, CacheTyped, Asked, CoalescedAsAsked, At, Goto
<1>1. ASSUME NEW t \in Tasks, NEW c \in Clients, NEW n \in Names, Arrive(t, c, n)
      PROVE  CacheTyped'
      BY <1>0, <1>1 DEF Arrive
<1>2. ASSUME NEW t \in Tasks, LookupMiss(t)
      PROVE  CacheTyped'
      BY <1>0, <1>2 DEF LookupMiss
<1>3. ASSUME NEW t \in Tasks, NEW expiring \in BOOLEAN, LookupHit(t, expiring)
      PROVE  CacheTyped'
  <2> DEFINE k == asks[t].key
             claims == (cache[k].stale \/ expiring) /\ ~cache[k].refreshing
             b == cache[k].refreshing \/ claims
  <2>1. k \in CacheKeys /\ cache[k] # NoEntry
        BY <1>0, <1>3 DEF LookupHit, Jobs
  <2>2. b \in BOOLEAN
        OBVIOUS
  <2>3. cache' = [cache EXCEPT ![k].refreshing = b]
        BY <1>3 DEF LookupHit
  <2> HIDE DEF b, claims
  <2> QED
      BY <1>0, <2>1, <2>2, <2>3, MarkingKeepsTheEntry
<1>4. ASSUME NEW t \in Tasks, QueueRefresh(t)
      PROVE  CacheTyped'
      BY <1>0, <1>4 DEF QueueRefresh
<1>5. ASSUME NEW t \in Tasks, ReturnClaim(t)
      PROVE  CacheTyped'
  <2>1. asks[t].key \in CacheKeys
        BY <1>0, <1>5 DEF ReturnClaim, EndRefresh, Jobs
  <2>2. cache' = IF cache[asks[t].key] = NoEntry THEN cache
                 ELSE [cache EXCEPT ![asks[t].key].refreshing = FALSE]
        BY <1>5 DEF ReturnClaim, EndRefresh
  <2>3. CASE cache[asks[t].key] = NoEntry
        BY <1>0, <2>2, <2>3
  <2>4. CASE cache[asks[t].key] # NoEntry
        BY <1>0, <2>1, <2>2, <2>4, ZenonT(30)
  <2> QED
      BY <2>3, <2>4
<1>6. ASSUME NEW t \in Tasks, ChoosePool(t)
      PROVE  CacheTyped'
      BY <1>0, <1>6 DEF ChoosePool, PoolFor
<1>7. ASSUME NEW t \in Tasks, Enter(t)
      PROVE  CacheTyped'
      BY <1>0, <1>7 DEF Enter, Follow, Lead
<1>8. ASSUME NEW t \in Tasks, NEW r \in Results, LeaderExchange(t, r)
      PROVE  CacheTyped'
      BY <1>0, <1>8 DEF LeaderExchange, forwardVars, Publish
<1>9. ASSUME NEW t \in Tasks, LeaderUnlink(t)
      PROVE  CacheTyped'
      BY <1>0, <1>9 DEF LeaderUnlink, forwardVars, Unlink
<1>10. ASSUME NEW t \in Tasks, LeaderNotify(t)
      PROVE  CacheTyped'
      BY <1>0, <1>10 DEF LeaderNotify, Notify
<1>11. ASSUME NEW t \in Tasks, FollowerReply(t)
      PROVE  CacheTyped'
      BY <1>0, <1>11 DEF FollowerReply, Wake, Finish
<1>12. ASSUME NEW t \in Tasks, NEW r \in Results, Exchange(t, r)
      PROVE  CacheTyped'
      BY <1>0, <1>12 DEF Exchange
<1>13. ASSUME NEW t \in Tasks, NEW accepted \in BOOLEAN, Store(t, accepted)
      PROVE  CacheTyped'
  <2>1. ClampTtls(Returned(t)) \in Held
        BY <1>13, ReturnedAsAsked, ClampKeepsTheRest DEF Store
  <2> QED
      BY <1>0, <1>13, <2>1 DEF Store
<1>14. ASSUME NEW t \in Tasks, NoAnswer(t)
      PROVE  CacheTyped'
      BY <1>0, <1>14 DEF NoAnswer, Finish, Returned
<1>15. ASSUME NEW t \in Tasks, DropQuery(t)
      PROVE  CacheTyped'
      BY <1>0, <1>15 DEF DropQuery, Abandon, Leave
<1>16. ASSUME NEW t \in Tasks, SpawnRefresh(t)
      PROVE  CacheTyped'
      BY <1>0, <1>16 DEF SpawnRefresh
<1>17. ASSUME NEW t \in Tasks, RefreshDone(t)
      PROVE  CacheTyped'
  <2>1. asks[t].key \in CacheKeys
        BY <1>0, <1>17 DEF RefreshDone, EndRefresh, Jobs
  <2>2. cache' = IF cache[asks[t].key] = NoEntry THEN cache
                 ELSE [cache EXCEPT ![asks[t].key].refreshing = FALSE]
        BY <1>17 DEF RefreshDone, EndRefresh
  <2>3. CASE cache[asks[t].key] = NoEntry
        BY <1>0, <2>2, <2>3
  <2>4. CASE cache[asks[t].key] # NoEntry
        BY <1>0, <2>1, <2>2, <2>4, ZenonT(30)
  <2> QED
      BY <2>3, <2>4
<1>18. ASSUME Receive
      PROVE  CacheTyped'
      BY <1>0, <1>18 DEF Receive
<1>19. ASSUME NEW k \in CacheKeys, Expire(k)
      PROVE  CacheTyped'
      BY <1>0, <1>19 DEF Expire
<1>20. ASSUME NEW k \in CacheKeys, Evict(k)
      PROVE  CacheTyped'
      BY <1>0, <1>20 DEF Evict
<1>21. ASSUME NEW ups \in SUBSET (Pools \ {Global}), SetClientPools(ups)
      PROVE  CacheTyped'
      BY <1>0, <1>21 DEF SetClientPools
<1>22. CASE UNCHANGED allVars
      BY <1>0, <1>22 DEF allVars
<1> QED
    BY <1>1, <1>2, <1>3, <1>4, <1>5, <1>6, <1>7, <1>8, <1>9, <1>10, <1>11, <1>12, <1>13, <1>14, <1>15, <1>16, <1>17, <1>18, <1>19, <1>20, <1>21, <1>22
    DEF ForwardNext, TaskStep

LEMMA QueueTypesStep ==
    ForwardInv /\ [ForwardNext]_allVars => QueueTyped'
<1> SUFFICES ASSUME ForwardInv, [ForwardNext]_allVars
             PROVE  QueueTyped'
    OBVIOUS
<1>0. /\ QueueTyped
      /\ Asked
      /\ asks \in [Tasks -> Jobs \cup {NoJob}]
      /\ QueueBound \in Nat
      BY ForwardingAssumption DEF ForwardInv, ForwardTypeOK, QueueTyped
<1> USE DEF pendingVars, QueueTyped, Asked, At, Goto
<1>1. ASSUME NEW t \in Tasks, NEW c \in Clients, NEW n \in Names, Arrive(t, c, n)
      PROVE  QueueTyped'
      BY <1>0, <1>1 DEF Arrive
<1>2. ASSUME NEW t \in Tasks, LookupMiss(t)
      PROVE  QueueTyped'
      BY <1>0, <1>2 DEF LookupMiss
<1>3. ASSUME NEW t \in Tasks, NEW expiring \in BOOLEAN, LookupHit(t, expiring)
      PROVE  QueueTyped'
      BY <1>0, <1>3 DEF LookupHit
<1>4. ASSUME NEW t \in Tasks, QueueRefresh(t)
      PROVE  QueueTyped'
      BY <1>0, <1>4, SMTT(20) DEF QueueRefresh
<1>5. ASSUME NEW t \in Tasks, ReturnClaim(t)
      PROVE  QueueTyped'
      BY <1>0, <1>5 DEF ReturnClaim, EndRefresh
<1>6. ASSUME NEW t \in Tasks, ChoosePool(t)
      PROVE  QueueTyped'
      BY <1>0, <1>6 DEF ChoosePool, PoolFor
<1>7. ASSUME NEW t \in Tasks, Enter(t)
      PROVE  QueueTyped'
      BY <1>0, <1>7 DEF Enter, Follow, Lead
<1>8. ASSUME NEW t \in Tasks, NEW r \in Results, LeaderExchange(t, r)
      PROVE  QueueTyped'
      BY <1>0, <1>8 DEF LeaderExchange, forwardVars, Publish
<1>9. ASSUME NEW t \in Tasks, LeaderUnlink(t)
      PROVE  QueueTyped'
      BY <1>0, <1>9 DEF LeaderUnlink, forwardVars, Unlink
<1>10. ASSUME NEW t \in Tasks, LeaderNotify(t)
      PROVE  QueueTyped'
      BY <1>0, <1>10 DEF LeaderNotify, Notify
<1>11. ASSUME NEW t \in Tasks, FollowerReply(t)
      PROVE  QueueTyped'
      BY <1>0, <1>11 DEF FollowerReply, Wake, Finish
<1>12. ASSUME NEW t \in Tasks, NEW r \in Results, Exchange(t, r)
      PROVE  QueueTyped'
      BY <1>0, <1>12 DEF Exchange
<1>13. ASSUME NEW t \in Tasks, NEW accepted \in BOOLEAN, Store(t, accepted)
      PROVE  QueueTyped'
      BY <1>0, <1>13 DEF Store, Finish, Returned
<1>14. ASSUME NEW t \in Tasks, NoAnswer(t)
      PROVE  QueueTyped'
      BY <1>0, <1>14 DEF NoAnswer, Finish, Returned
<1>15. ASSUME NEW t \in Tasks, DropQuery(t)
      PROVE  QueueTyped'
      BY <1>0, <1>15 DEF DropQuery, Abandon, Leave
<1>16. ASSUME NEW t \in Tasks, SpawnRefresh(t)
      PROVE  QueueTyped'
      BY <1>0, <1>16 DEF SpawnRefresh
<1>17. ASSUME NEW t \in Tasks, RefreshDone(t)
      PROVE  QueueTyped'
      BY <1>0, <1>17 DEF RefreshDone, EndRefresh
<1>18. ASSUME Receive
      PROVE  QueueTyped'
      BY <1>0, <1>18 DEF Receive
<1>19. ASSUME NEW k \in CacheKeys, Expire(k)
      PROVE  QueueTyped'
      BY <1>0, <1>19 DEF Expire
<1>20. ASSUME NEW k \in CacheKeys, Evict(k)
      PROVE  QueueTyped'
      BY <1>0, <1>20 DEF Evict
<1>21. ASSUME NEW ups \in SUBSET (Pools \ {Global}), SetClientPools(ups)
      PROVE  QueueTyped'
      BY <1>0, <1>21 DEF SetClientPools
<1>22. CASE UNCHANGED allVars
      BY <1>0, <1>22 DEF allVars
<1> QED
    BY <1>1, <1>2, <1>3, <1>4, <1>5, <1>6, <1>7, <1>8, <1>9, <1>10, <1>11, <1>12, <1>13, <1>14, <1>15, <1>16, <1>17, <1>18, <1>19, <1>20, <1>21, <1>22
    DEF ForwardNext, TaskStep

LEMMA TaskTypesStep ==
    ForwardInv /\ [ForwardNext]_allVars => TasksTyped'
<1> SUFFICES ASSUME ForwardInv, [ForwardNext]_allVars
             PROVE  TasksTyped'
    OBVIOUS
<1>0. /\ TasksTyped
      /\ QueueTyped
      /\ Asked
      /\ CoalescedAsAsked
      BY DEF ForwardInv, ForwardTypeOK, QueueTyped, TasksTyped
<1> USE DEF pendingVars, TasksTyped, QueueTyped, Asked, CoalescedAsAsked, At, Goto,
            Stages
<1>1. ASSUME NEW t \in Tasks, NEW c \in Clients, NEW n \in Names, Arrive(t, c, n)
      PROVE  TasksTyped'
      BY <1>0, <1>1 DEF Arrive, Jobs, CacheKeys
<1>2. ASSUME NEW t \in Tasks, LookupMiss(t)
      PROVE  TasksTyped'
      BY <1>0, <1>2 DEF LookupMiss
<1>3. ASSUME NEW t \in Tasks, NEW expiring \in BOOLEAN, LookupHit(t, expiring)
      PROVE  TasksTyped'
  <2>1. asks[t].key \in CacheKeys /\ cache[asks[t].key] # NoEntry
        BY <1>0, <1>3 DEF LookupHit, Jobs
  <2>2. cache[asks[t].key].msg \in Held
        BY <2>1 DEF ForwardInv, ForwardTypeOK
  <2> QED
      BY <1>0, <1>3, <2>2 DEF LookupHit
<1>4. ASSUME NEW t \in Tasks, QueueRefresh(t)
      PROVE  TasksTyped'
      BY <1>0, <1>4 DEF QueueRefresh
<1>5. ASSUME NEW t \in Tasks, ReturnClaim(t)
      PROVE  TasksTyped'
      BY <1>0, <1>5 DEF ReturnClaim, EndRefresh
<1>6. ASSUME NEW t \in Tasks, ChoosePool(t)
      PROVE  TasksTyped'
  <2>1. asks[t].key.upstreams \in Pools
        BY <1>0, <1>6, UpstreamsArePools DEF ChoosePool, Jobs
  <2>2. PoolFor(asks[t].key.upstreams) \in [pool : Pools, own : BOOLEAN]
        BY <2>1 DEF PoolFor, Pools
  <2> QED
      BY <1>0, <1>6, <2>2 DEF ChoosePool
<1>7. ASSUME NEW t \in Tasks, Enter(t)
      PROVE  TasksTyped'
      BY <1>0, <1>7 DEF Enter, Follow, Lead
<1>8. ASSUME NEW t \in Tasks, NEW r \in Results, LeaderExchange(t, r)
      PROVE  TasksTyped'
      BY <1>0, <1>8 DEF LeaderExchange, forwardVars, Publish
<1>9. ASSUME NEW t \in Tasks, LeaderUnlink(t)
      PROVE  TasksTyped'
      BY <1>0, <1>9 DEF LeaderUnlink, forwardVars, Unlink
<1>10. ASSUME NEW t \in Tasks, LeaderNotify(t)
      PROVE  TasksTyped'
      BY <1>0, <1>10 DEF LeaderNotify, Notify
<1>11. ASSUME NEW t \in Tasks, FollowerReply(t)
      PROVE  TasksTyped'
  <2>1. answer[watches[t]] \in Held \cup {Failed}
        BY <1>11, FollowedAsAsked DEF FollowerReply, Wake, Outcomes, Messages, Held
  <2>2. result'[t] \in Held \cup {Failed}
        BY <1>11, <2>1 DEF FollowerReply, Wake, ForwardInv, PendingInv, PendingTypeOK
  <2> QED
      BY <1>0, <1>11, <2>2 DEF FollowerReply, Finish
<1>12. ASSUME NEW t \in Tasks, NEW r \in Results, Exchange(t, r)
      PROVE  TasksTyped'
      BY <1>0, <1>12 DEF Exchange
<1>13. ASSUME NEW t \in Tasks, NEW accepted \in BOOLEAN, Store(t, accepted)
      PROVE  TasksTyped'
  <2>1. ClampTtls(Returned(t)) \in Held
        BY <1>13, ReturnedAsAsked, ClampKeepsTheRest DEF Store
  <2> QED
      BY <1>0, <1>13, <2>1 DEF Store, Finish
<1>14. ASSUME NEW t \in Tasks, NoAnswer(t)
      PROVE  TasksTyped'
      BY <1>0, <1>14 DEF NoAnswer, Finish, Returned
<1>15. ASSUME NEW t \in Tasks, DropQuery(t)
      PROVE  TasksTyped'
      BY <1>0, <1>15 DEF DropQuery, Abandon, Leave
<1>16. ASSUME NEW t \in Tasks, SpawnRefresh(t)
      PROVE  TasksTyped'
      BY <1>0, <1>16 DEF SpawnRefresh
<1>17. ASSUME NEW t \in Tasks, RefreshDone(t)
      PROVE  TasksTyped'
      BY <1>0, <1>17 DEF RefreshDone, EndRefresh
<1>18. ASSUME Receive
      PROVE  TasksTyped'
      BY <1>0, <1>18 DEF Receive
<1>19. ASSUME NEW k \in CacheKeys, Expire(k)
      PROVE  TasksTyped'
      BY <1>0, <1>19 DEF Expire
<1>20. ASSUME NEW k \in CacheKeys, Evict(k)
      PROVE  TasksTyped'
      BY <1>0, <1>20 DEF Evict
<1>21. ASSUME NEW ups \in SUBSET (Pools \ {Global}), SetClientPools(ups)
      PROVE  TasksTyped'
      BY <1>0, <1>21 DEF SetClientPools
<1>22. CASE UNCHANGED allVars
      BY <1>0, <1>22 DEF allVars
<1> QED
    BY <1>1, <1>2, <1>3, <1>4, <1>5, <1>6, <1>7, <1>8, <1>9, <1>10, <1>11, <1>12, <1>13, <1>14, <1>15, <1>16, <1>17, <1>18, <1>19, <1>20, <1>21, <1>22
    DEF ForwardNext, TaskStep

LEMMA ForwardInitInv == ForwardInit => ForwardInv
<1> SUFFICES ASSUME ForwardInit PROVE ForwardInv
    OBVIOUS
<1>1. PendingInv
      BY PendingInitInv DEF ForwardInit
<1>2. ASSUME NEW k \in CacheKeys, cache[k] # NoEntry
      PROVE  /\ cache[k] \in [msg : Held, stale : BOOLEAN, refreshing : BOOLEAN]
             /\ cache[k].msg.pool = k.upstreams
             /\ ~cache[k].refreshing
  <2>1. cache[k] \in Earlier(k)
        BY DEF ForwardInit
  <2>2. PICK m \in Messages :
          /\ m.pool = k.upstreams
          /\ cache[k] = [msg |-> ClampTtls(m), stale |-> FALSE, refreshing |-> FALSE]
        BY <1>2, <2>1 DEF Earlier
  <2> QED
      BY <2>2, ClampKeepsTheRest
<1>3. CacheTyped
  <2>1. \A k \in CacheKeys :
          cache[k] \in [msg : Held, stale : BOOLEAN, refreshing : BOOLEAN] \cup {NoEntry}
        BY <1>2
  <2>2. cache = [k \in CacheKeys |-> cache[k]]
        BY DEF ForwardInit
  <2> QED
      BY <2>1, <2>2 DEF CacheTyped
<1>4. QueueTyped
      BY ForwardingAssumption DEF ForwardInit, QueueTyped
<1>5. TasksTyped
      BY DEF ForwardInit, TasksTyped, Stages, Pools, Results
<1>6. ForwardTypeOK
      BY <1>1, <1>3, <1>4, <1>5
      DEF PendingInv, CacheTyped, QueueTyped, TasksTyped, ForwardTypeOK
<1>7. EntriesStayScoped /\ ClaimsAreCarried
      BY <1>2 DEF EntriesStayScoped, ClaimsAreCarried
<1>8. /\ Asked /\ ClaimantsAreQueries /\ OwnPools /\ NotAnsweredYet
      /\ AnsweredAsAsked
      BY DEF ForwardInit, Asked, ClaimantsAreQueries, OwnPools, NotAnsweredYet,
             AnsweredAsAsked
<1>9. CoalescedAsAsked /\ ExchangesAsAsked
      BY DEF ForwardInit, PendingInit, CoalescedAsAsked, ExchangesAsAsked, Leading
<1> QED
    BY <1>1, <1>6, <1>7, <1>8, <1>9 DEF ForwardInv

LEMMA ForwardStepInv == ForwardInv /\ [ForwardNext]_allVars => ForwardInv'
<1> SUFFICES ASSUME ForwardInv, [ForwardNext]_allVars PROVE ForwardInv'
    OBVIOUS
<1>1. PendingInv'
      BY ForwardStepIsPendingStep, PendingStepInv DEF ForwardInv
<1>2. ForwardTypeOK'
      BY <1>1, CacheTypesStep, QueueTypesStep, TaskTypesStep
      DEF PendingInv, CacheTyped, QueueTyped, TasksTyped, ForwardTypeOK
<1> QED
    BY <1>1, <1>2, TasksStep, CoalescingStep, ExchangesStep, ScopeStep,
       AnswersStep, ClaimsStep
    DEF ForwardInv

LEMMA ForwardInvariant == ForwardSpec => []ForwardInv
<1>1. ForwardInit => ForwardInv
      BY ForwardInitInv
<1>2. ForwardInv /\ [ForwardNext]_allVars => ForwardInv'
      BY ForwardStepInv
<1> QED
    BY <1>1, <1>2, PTL DEF ForwardSpec

-----------------------------------------------------------------------------
(***************************************************************************)
(* Theorems.                                                               *)
(***************************************************************************)
\* The variables keep their types.
THEOREM ForwardTypeCorrect == ForwardSpec => []ForwardTypeOK
<1>1. ForwardInv => ForwardTypeOK
      BY DEF ForwardInv
<1> QED
    BY <1>1, ForwardInvariant, PTL

\* Every cache entry holds an answer of the upstreams it is scoped to, however
\* often the pools are replaced between a choice and a store
\* (Resolver::pool_for, Resolver::forward).
THEOREM EntriesStayScopedHolds == ForwardSpec => []EntriesStayScoped
<1>1. ForwardInv => EntriesStayScoped
      BY DEF ForwardInv
<1> QED
    BY <1>1, ForwardInvariant, PTL

\* Whoever is answered by an exchange, its own or its leader's, has an answer
\* from the pool chosen for it and for its own subnet (PendingKey, Waiter::wait).
THEOREM AnsweredAsAskedHolds == ForwardSpec => []AnsweredAsAsked
<1>1. ForwardInv => AnsweredAsAsked
      BY DEF ForwardInv
<1> QED
    BY <1>1, ForwardInvariant, PTL

\* With a worker attached no claimed refresh is forgotten, whatever the length
\* of the queue and the number of workers (queue_refresh, refresh::run).
THEOREM ClaimsAreCarriedHolds == ForwardSpec => []ClaimsAreCarried
<1>1. ForwardInv => ClaimsAreCarried
      BY DEF ForwardInv
<1> QED
    BY <1>1, ForwardInvariant, PTL

\* The resolver's tasks use Pending as its own specification says: a follower
\* returns its leader's answer to its own key (Resolver::forward).
THEOREM ForwardedFollowersShareTheAnswer == ForwardSpec => []FollowersShareTheAnswer
<1>1. ForwardInv => FollowersShareTheAnswer
      BY DEF ForwardInv, PendingInv
<1> QED
    BY <1>1, ForwardInvariant, PTL

\* At most one exchange per question, upstreams and subnet is in the air
\* (Resolver::forward, Pending::enter).
THEOREM ForwardedOneExchangePerKey == ForwardSpec => []OneExchangePerKey
<1>1. ForwardInv => OneExchangePerKey
      BY DEF ForwardInv, PendingInv, LeadersAreMapped, OneExchangePerKey
<1> QED
    BY <1>1, ForwardInvariant, PTL

\* The whole resolver path implements a flight that lands in one step for
\* everyone aboard (Resolver::forward, Leader::finish, Waiter::wait).
THEOREM ForwardImplementsSingleFlight == ForwardSpec => ImplementsSingleFlight
<1>1. ForwardInit => Flight!FlightInit
      BY FlightStarts DEF ForwardInit
<1>2. ForwardInv /\ ForwardInv' /\ [ForwardNext]_allVars
        => [Flight!FlightNext]_(Flight!flightVars)
      BY ForwardStepIsPendingStep, FlightStep DEF ForwardInv
<1> QED
    BY <1>1, <1>2, ForwardInvariant, PTL
    DEF ForwardSpec, ImplementsSingleFlight, Flight!FlightSpec
=============================================================================
