------------------------------ MODULE MCLists ------------------------------
(* The lists, and the expressions an engine built from them compiles.  The  *)
(* two share no state but that a new engine replaces the old one, so a      *)
(* behaviour follows one of them and the other stays where it began.        *)
(* Two addresses and two identifiers, so that an identifier is used again   *)
(* after its list was removed, and a URL that changes what it serves; two   *)
(* threads that match with an engine of three expressions and its           *)
(* successor, under a ceiling of one.                                       *)
EXTENDS FilterLists, Expressions, TLC

CONSTANTS
    Followed,       \* the parts a behaviour may follow
    t1, t2, u1, u2, x1, x2

VARIABLE focus

Both == {"lists", "expressions"}

OneThread == {t1}
TwoThreads == {t1, t2}
MCUrls == {u1, u2}

TwoMatchers == {x1, x2}
ThreeAndThree == [e \in 1..6 |-> IF e <= 3 THEN 1 ELSE 2]

FilterInit == focus \in Followed /\ ListsInit /\ ExprInit

FilterNext ==
    \/ focus = "lists" /\ ListsNext /\ UNCHANGED <<focus, exprVars>>
    \/ focus = "expressions" /\ ExprNext /\ UNCHANGED <<focus, listVars>>

FilterSpec == FilterInit /\ [][FilterNext]_<<focus, listVars, exprVars>>

Alike == Permutations(Threads) \cup Permutations(Urls) \cup Permutations(Matchers)
=============================================================================
