------------------------------- MODULE Lists -------------------------------
(* What the code makes of lists in loops, comprehensions and sorts.          *)
EXTENDS Naturals, Sequences, FiniteSets

(* Without the members that are in S: what is left of each prefix, and of    *)
(* the whole list.                                                           *)
Kept(list, S) ==
    LET kept[i \in 0 .. Len(list)] ==
            IF i = 0 THEN <<>>
            ELSE IF list[i] \in S THEN kept[i - 1] ELSE Append(kept[i - 1], list[i])
    IN kept
Without(list, S) == Kept(list, S)[Len(list)]

(* The first n, or all there are.                                            *)
FirstOf(list, n) == SubSeq(list, 1, IF Len(list) < n THEN Len(list) ELSE n)

(* The running totals of a list of numbers, and what they add up to.        *)
Totals(list) ==
    LET sum[i \in 0 .. Len(list)] == IF i = 0 THEN 0 ELSE sum[i - 1] + list[i]
    IN sum
Total(list) == Totals(list)[Len(list)]

(* What stands in a list, from its place i on, and anywhere.                 *)
Stands(list, i, part) ==
    /\ i + Len(part) - 1 <= Len(list)
    /\ \A k \in DOMAIN part : list[i + k - 1] = part[k]
Holds(list, part) == part = <<>> \/ \E i \in DOMAIN list : Stands(list, i, part)

(* A set in the order in which ahead tells, of each member, what comes first.*)
Sorted(S, ahead) ==
    [n \in 1 .. Cardinality(S) |-> CHOOSE x \in S : Cardinality(ahead[x]) = n - 1]
=============================================================================
