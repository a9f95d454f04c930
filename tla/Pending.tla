------------------------------- MODULE Pending -------------------------------
(***************************************************************************)
(* Coalescing of identical in-flight requests: sift-dns/src/pending.rs.    *)
(*                                                                         *)
(* A task is one pass through Resolver::forward -- a client's query or a   *)
(* background refresh -- and is never used twice.  The slot a leader       *)
(* creates is named by the leader.  Leader::finish and Drop for Leader     *)
(* take the slot's lock, the map's lock and the channel one after the      *)
(* other, so other tasks run between them: each is a step of its own here. *)
(***************************************************************************)
EXTENDS Naturals

CONSTANTS
    Tasks,      \* passes through the forwarder
    Keys,       \* PendingKey: question, upstreams and client subnet
    Answers,    \* messages an upstream may return
    Failed,     \* Slot.answer = None
    NoTask,     \* no slot in the map
    NoKey       \* a task that has not entered

ASSUME PendingAssumption ==
    /\ Failed \notin Answers
    /\ NoTask \notin Tasks
    /\ NoKey \notin Keys

VARIABLES
    inflight,   \* Pending.inflight: the slot of each key, by its leader
    answer,     \* answer[t]: Slot.answer of the slot that t created
    notified,   \* the leaders whose Slot.tx holds true
    role,       \* how far t is through its Entry
    pkey,       \* the key t entered with
    watches,    \* the slot t follows (its own, if it leads)
    result      \* what t's call of the coalesced lookup returned

pendingVars == <<inflight, answer, notified, role, pkey, watches, result>>

Results == Answers \cup {Failed}

\* The roles of a leader, in the order it passes through them: resolving,
\* the answer stored, the slot out of the map, the followers notified.
Leading == {"lead", "closing", "unlinked", "released"}

\* The roles of a follower: waiting, given the answer, dropped while waiting.
Following == {"follow", "served", "gone"}

Roles == {"none"} \cup Leading \cup Following

PendingTypeOK ==
    /\ inflight \in [Keys -> Tasks \cup {NoTask}]
    /\ answer \in [Tasks -> Results]
    /\ notified \subseteq Tasks
    /\ role \in [Tasks -> Roles]
    /\ pkey \in [Tasks -> Keys \cup {NoKey}]
    /\ watches \in [Tasks -> Tasks \cup {NoTask}]
    /\ result \in [Tasks -> Results]

PendingInit ==
    /\ inflight = [k \in Keys |-> NoTask]
    /\ answer = [t \in Tasks |-> Failed]
    /\ notified = {}
    /\ role = [t \in Tasks |-> "none"]
    /\ pkey = [t \in Tasks |-> NoKey]
    /\ watches = [t \in Tasks |-> NoTask]
    /\ result = [t \in Tasks |-> Failed]

(***************************************************************************)
(* Pending::enter, under the map's lock.                                   *)
(***************************************************************************)
\* The key is in the map: subscribe to its slot.
Follow(t, k) ==
    /\ role[t] = "none"
    /\ inflight[k] # NoTask
    /\ role' = [role EXCEPT ![t] = "follow"]
    /\ pkey' = [pkey EXCEPT ![t] = k]
    /\ watches' = [watches EXCEPT ![t] = inflight[k]]
    /\ UNCHANGED <<inflight, answer, notified, result>>

\* Mutant of Lead: does not look in the map first.
LeadAlways(t, k) ==
    /\ role[t] = "none"
    /\ inflight' = [inflight EXCEPT ![k] = t]
    /\ answer' = [answer EXCEPT ![t] = Failed]
    /\ notified' = notified \ {t}
    /\ role' = [role EXCEPT ![t] = "lead"]
    /\ pkey' = [pkey EXCEPT ![t] = k]
    /\ watches' = [watches EXCEPT ![t] = t]
    /\ UNCHANGED result

\* The key is not in the map: create a slot and lead.
Lead(t, k) ==
    /\ role[t] = "none"
    /\ inflight[k] = NoTask
    /\ inflight' = [inflight EXCEPT ![k] = t]
    /\ answer' = [answer EXCEPT ![t] = Failed]
    /\ notified' = notified \ {t}
    /\ role' = [role EXCEPT ![t] = "lead"]
    /\ pkey' = [pkey EXCEPT ![t] = k]
    /\ watches' = [watches EXCEPT ![t] = t]
    /\ UNCHANGED result

(***************************************************************************)
(* Leader::finish and Drop for Leader.                                     *)
(***************************************************************************)
\* The exchange returned r, and finish stores it in the slot.
Publish(t, r) ==
    /\ role[t] = "lead"
    /\ answer' = [answer EXCEPT ![t] = r]
    /\ result' = [result EXCEPT ![t] = r]
    /\ role' = [role EXCEPT ![t] = "closing"]
    /\ UNCHANGED <<inflight, notified, pkey, watches>>

\* The leader's future is dropped at its await: Drop runs with done unset,
\* so the slot's answer stays None.
Abandon(t) ==
    /\ role[t] = "lead"
    /\ role' = [role EXCEPT ![t] = "closing"]
    /\ UNCHANGED <<inflight, answer, notified, pkey, watches, result>>

\* inflight.lock().remove(&self.key), whatever slot is there.
Unlink(t) ==
    /\ role[t] = "closing"
    /\ inflight' = [inflight EXCEPT ![pkey[t]] = NoTask]
    /\ role' = [role EXCEPT ![t] = "unlinked"]
    /\ UNCHANGED <<answer, notified, pkey, watches, result>>

\* slot.tx.send(true).
Notify(t) ==
    /\ role[t] = "unlinked"
    /\ notified' = notified \cup {t}
    /\ role' = [role EXCEPT ![t] = "released"]
    /\ UNCHANGED <<inflight, answer, pkey, watches, result>>

(***************************************************************************)
(* Waiter::wait.                                                           *)
(***************************************************************************)
\* Mutant of Wake: reads the slot without waiting for its signal.
WakeEarly(t) ==
    /\ role[t] = "follow"
    /\ result' = [result EXCEPT ![t] = answer[watches[t]]]
    /\ role' = [role EXCEPT ![t] = "served"]
    /\ UNCHANGED <<inflight, answer, notified, pkey, watches>>

\* wait_for sees true; the slot's answer is copied out.
Wake(t) ==
    /\ role[t] = "follow"
    /\ watches[t] \in notified
    /\ result' = [result EXCEPT ![t] = answer[watches[t]]]
    /\ role' = [role EXCEPT ![t] = "served"]
    /\ UNCHANGED <<inflight, answer, notified, pkey, watches>>

\* The follower's future is dropped while it waits.
Leave(t) ==
    /\ role[t] = "follow"
    /\ role' = [role EXCEPT ![t] = "gone"]
    /\ UNCHANGED <<inflight, answer, notified, pkey, watches, result>>

LeaderStep(t) ==
    \/ \E r \in Results : Publish(t, r)
    \/ Unlink(t)
    \/ Notify(t)

PendingNext ==
    \E t \in Tasks :
        \/ \E k \in Keys : Follow(t, k) \/ Lead(t, k)
        \/ \E r \in Results : Publish(t, r)
        \/ Abandon(t)
        \/ Unlink(t)
        \/ Notify(t)
        \/ Wake(t)
        \/ Leave(t)

\* An exchange ends, with an answer or by its timeouts, and the runtime polls
\* every task that can run; nothing obliges a caller to arrive or to give up.
PendingFairness ==
    \A t \in Tasks : WF_pendingVars(LeaderStep(t)) /\ WF_pendingVars(Wake(t))

PendingSpec == PendingInit /\ [][PendingNext]_pendingVars /\ PendingFairness

(***************************************************************************)
(* Properties.                                                             *)
(***************************************************************************)
\* "Only the first goes upstream" (pending.rs:4-5): no two tasks resolve the
\* same key at once, although finish removes the map's entry by key without
\* looking at whose slot it is.
OneExchangePerKey ==
    \A t, u \in Tasks :
        role[t] = "lead" /\ role[u] = "lead" /\ pkey[t] = pkey[u] => t = u

\* A follower that returned was given what its leader's own exchange
\* returned, for the key it asked for: storing, unlinking and notifying are
\* three steps, and no order of them may lose or swap an answer.
FollowersShareTheAnswer ==
    \A t \in Tasks :
        role[t] = "served" =>
            /\ pkey[watches[t]] = pkey[t]
            /\ result[t] = result[watches[t]]

\* "A panic or an early return cannot leave the followers waiting forever"
\* (pending.rs:46-47), as a state: whoever waits, waits on a slot that has
\* been notified or on a leader that still has its notification to send.
NoFollowerStranded ==
    \A t \in Tasks :
        role[t] = "follow" =>
            \/ watches[t] \in notified
            \/ role[watches[t]] \in {"lead", "closing", "unlinked"}

\* A key stays in the map only while its leader is at work on it: a leftover
\* slot would make every later caller follow a flight that never lands.
MapHoldsOnlyLeaders ==
    \A k \in Keys :
        inflight[k] # NoTask =>
            /\ role[inflight[k]] \in {"lead", "closing"}
            /\ pkey[inflight[k]] = k

\* Every follower is released, whether its leader answered, failed or was
\* dropped.
FollowersReleased ==
    \A t \in Tasks : role[t] = "follow" ~> role[t] \in {"served", "gone"}

(***************************************************************************)
(* Refinement: the steps above implement a flight that lands at once.      *)
(* It lands when its leader takes the slot out of the map, the moment      *)
(* after which nobody can board.                                           *)
(***************************************************************************)
Landed(t) == role[t] \in {"unlinked", "released"}

Aboard(k, t) ==
    /\ inflight[k] # NoTask
    /\ watches[t] = inflight[k]
    /\ role[t] # "gone"

FateOf(t) ==
    IF role[t] = "none" THEN [state |-> "idle"]
    ELSE IF role[t] = "gone" THEN [state |-> "cancelled"]
    ELSE IF Landed(watches[t])
      THEN [state |-> "answered", result |-> answer[watches[t]]]
    ELSE [state |-> "waiting"]

absAboard == [k \in Keys |-> {t \in Tasks : Aboard(k, t)}]

absFate == [t \in Tasks |-> FateOf(t)]

Flight == INSTANCE SingleFlight WITH aboard <- absAboard, fate <- absFate

\* Pending implements SingleFlight.
ImplementsSingleFlight == Flight!FlightSpec
=============================================================================
