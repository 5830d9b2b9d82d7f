------------------------------- MODULE MoveGate -------------------------------
(***************************************************************************)
(* What the approval gate promises, without threads, files or logs: the    *)
(* operator signs a grant for one plan; a grant is spent at most once,     *)
(* whether or not the action behind it succeeds; a plan moves at most      *)
(* once, under a spent grant that was signed for it.                       *)
(***************************************************************************)
CONSTANTS Plans, Grants, NoPlan

VARIABLES
  signed, \* the plan each grant was signed for, or NoPlan
  spent,  \* grants that were presented and accepted
  moved   \* <<plan, grant>> for each move made

vars == <<signed, spent, moved>>

Init ==
  /\ signed = [g \in Grants |-> NoPlan]
  /\ spent = {}
  /\ moved = {}

Sign(g, p) ==
  /\ signed[g] = NoPlan
  /\ signed' = [signed EXCEPT ![g] = p]
  /\ UNCHANGED <<spent, moved>>

Spend(g) ==
  /\ signed[g] # NoPlan
  /\ g \notin spent
  /\ spent' = spent \cup {g}
  /\ UNCHANGED <<signed, moved>>

Move(p, g) ==
  /\ g \in spent
  /\ signed[g] = p
  /\ \A h \in Grants : <<p, h>> \notin moved
  /\ moved' = moved \cup {<<p, g>>}
  /\ UNCHANGED <<signed, spent>>

Next ==
  \/ \E g \in Grants : Spend(g)
  \/ \E g \in Grants, p \in Plans : Sign(g, p) \/ Move(p, g)

Spec == Init /\ [][Next]_vars
=============================================================================
