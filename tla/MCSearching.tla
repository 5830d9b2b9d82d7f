----------------------------- MODULE MCSearching -----------------------------
(* Instances for TLC: three chunks in everything.  To the route they are one *)
(* chunk each of three files, two of them versions of each other and one of  *)
(* these archived; to the loops the second costs two tokens and is           *)
(* superseded by the third, which does not resolve.                          *)
EXTENDS Searching

CONSTANTS a, b, c, new, old, other
MCSim == [p \in Queries \X Queries |->
            IF p[1] = p[2] THEN 2 ELSE IF c \in {p[1], p[2]} THEN 0 ELSE 1]
MCCost == [k \in Chunks |-> IF k = 2 THEN 2 ELSE 1]
MCNewer == [k \in Chunks |-> IF k = 2 THEN 3 ELSE k]
OneChunkEach == [k \in Chunks |-> CASE k = 1 -> new [] k = 2 -> old [] OTHER -> other]
TwoVersions == [p \in Paths |-> IF p = other THEN "other" ELSE "config"]

(* Bound: a second request comes when the first finds one chunk at most, on  *)
(* every list, and asks no more than one.  What two requests do to each      *)
(* other goes through the shared attribute, which does not depend on what    *)
(* was found but on whether something was.                                   *)
SecondIsSmall ==
    (\A r \in Requests : ~At(r, "new")) =>
        /\ mtime = [p \in Paths |-> 0]
        /\ \A r \in Requests :
              /\ req[r].k = 1 /\ ~req[r].comparative
              /\ {req[r].lexical, req[r].dense, req[r].fused} \subseteq {<<>>, <<1>>}
RequestSymmetry == Permutations(Requests)
=============================================================================
