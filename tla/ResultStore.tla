----------------------------- MODULE ResultStore ------------------------------
(* What a results file promises to whoever reads it between and during the    *)
(* invocations of the sweep that writes it: a map from points to measurements *)
(* to which results are published one at a time.  A merging store never       *)
(* loses or replaces what it holds; a fresh one holds what the session before *)
(* published until the session now running publishes its first result.  Once  *)
(* a write was cut nothing is promised any more.                              *)
EXTENDS Functions

CONSTANTS Points, Measurements

VARIABLES
    merge,      \* does a session continue from what the store holds?
    store,      \* the measurements published: Points -> Measurements, partial
    mine,       \* the points published by the session now running
    damaged

vars == <<merge, store, mine, damaged>>

Init ==
    /\ merge \in BOOLEAN
    /\ store = [k \in {} |-> 0] /\ mine = {} /\ damaged = FALSE

BeginSession ==
    /\ ~damaged
    /\ mine' = {}
    /\ UNCHANGED <<merge, store, damaged>>

Kept == IF merge THEN store ELSE Restrict(store, mine)

Publish(k, m) ==
    /\ ~damaged
    /\ merge => k \notin DOMAIN store
    /\ store' = [p \in DOMAIN Kept \cup {k} |-> IF p = k THEN m ELSE Kept[p]]
    /\ mine' = mine \cup {k}
    /\ UNCHANGED <<merge, damaged>>

(* A write is cut, or has been.                                               *)
Damage ==
    /\ damaged' = TRUE
    /\ UNCHANGED merge

Next ==
    \/ BeginSession
    \/ \E k \in Points, m \in Measurements : Publish(k, m)
    \/ Damage

Spec == Init /\ [][Next]_vars
===============================================================================
