----------------------------- MODULE MCFilePlans -----------------------------
(***************************************************************************)
(* Instances of FilePlans for TLC.  The configurations choose the plans,   *)
(* the requests and what may go wrong; the definitions below are the       *)
(* function-valued constants.                                              *)
(***************************************************************************)
EXTENDS FilePlans, TLC

CONSTANTS p1, p2, a, b, c, i1, i2, i3, top, sub

(* Two plans that compete for one destination in a missing directory.      *)
CompeteSrc == p1 :> a @@ p2 :> b
CompeteDst == p1 :> c @@ p2 :> c

(* One plan.                                                               *)
SingleSrc == p1 :> a
SingleDst == p1 :> b

OneDir == [n \in Names |-> top]
SubForC == [n \in Names |-> IF n = c THEN sub ELSE top]

(* The corpus at the start: one file, or two.                              *)
OneFile == [n \in Names |-> IF n = a THEN i1 ELSE NoInode]
TwoFiles == [n \in Names |-> IF n = a THEN i1 ELSE IF n = b THEN i2 ELSE NoInode]

Symmetry == Permutations(Requests) \cup Permutations(Grants)
=============================================================================
