---------------------------- MODULE BoundedService ----------------------------
(***************************************************************************)
(* What the admission control of the companion gateway promises: never     *)
(* more than Limit requests are served at a time, and a request is served  *)
(* once.                                                                   *)
(***************************************************************************)
EXTENDS Naturals, FiniteSets

CONSTANTS Clients, Limit

VARIABLES
    inside,  \* the requests being served
    served   \* the requests that were let go

vars == <<inside, served>>

Init == inside = {} /\ served = {}

Enter(c) ==
    /\ c \notin inside \union served
    /\ Cardinality(inside) < Limit
    /\ inside' = inside \union {c}
    /\ UNCHANGED served

Leave(c) ==
    /\ c \in inside
    /\ inside' = inside \ {c}
    /\ served' = served \union {c}

Next == \E c \in Clients : Enter(c) \/ Leave(c)

Spec == Init /\ [][Next]_vars
=============================================================================
