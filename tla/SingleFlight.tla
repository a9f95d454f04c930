---------------------------- MODULE SingleFlight ----------------------------
(***************************************************************************)
(* What request coalescing promises its callers, with nothing of how it    *)
(* does so: callers that ask for one key while a lookup of it is in the    *)
(* air share that one flight, and when it lands every caller aboard is     *)
(* given the same answer in a single step.                                 *)
(***************************************************************************)
EXTENDS Naturals

CONSTANTS Tasks,     \* the callers
          Keys,      \* what may be asked for
          Results    \* what a flight may land with, the failure included

VARIABLES aboard,    \* aboard[k]: the callers sharing the flight for k
          fate       \* fate[t]: what became of caller t

flightVars == <<aboard, fate>>

Fates == [state : {"idle", "waiting", "cancelled"}]
           \cup [state : {"answered"}, result : Results]

FlightTypeOK ==
    /\ aboard \in [Keys -> SUBSET Tasks]
    /\ fate \in [Tasks -> Fates]

FlightInit ==
    /\ aboard = [k \in Keys |-> {}]
    /\ fate = [t \in Tasks |-> [state |-> "idle"]]

\* A caller starts a flight for k, or boards the one in the air.
Board(t, k) ==
    /\ fate[t].state = "idle"
    /\ aboard' = [x \in Keys |-> IF x = k THEN aboard[x] \cup {t} ELSE aboard[x]]
    /\ fate' = [u \in Tasks |-> IF u = t THEN [state |-> "waiting"] ELSE fate[u]]

\* The flight for k lands: everyone aboard gets r, at once.
Land(k, r) ==
    /\ aboard[k] # {}
    /\ fate' = [t \in Tasks |->
                  IF t \in aboard[k]
                    THEN [state |-> "answered", result |-> r]
                    ELSE fate[t]]
    /\ aboard' = [x \in Keys |-> IF x = k THEN {} ELSE aboard[x]]

\* A caller goes away, whether or not its answer has been decided.
Cancel(t) ==
    /\ fate[t].state \in {"waiting", "answered"}
    /\ fate' = [u \in Tasks |-> IF u = t THEN [state |-> "cancelled"] ELSE fate[u]]
    /\ aboard' = [k \in Keys |-> aboard[k] \ {t}]

FlightNext ==
    \/ \E t \in Tasks, k \in Keys : Board(t, k)
    \/ \E k \in Keys, r \in Results : Land(k, r)
    \/ \E t \in Tasks : Cancel(t)

FlightSpec == FlightInit /\ [][FlightNext]_flightVars
=============================================================================
