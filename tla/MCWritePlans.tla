---------------------------- MODULE MCWritePlans ----------------------------
EXTENDS WritePlans, TLC
CONSTANTS patch, artifact, chart, i1, i2, i3, i4
MCKind == [id \in WriteIds |-> CASE id = patch -> "patch" [] id = artifact -> "artifact"
                                 [] OTHER -> "visualization"]
MCSource == [id \in WriteIds |-> "sheet"]
MCTarget == [id \in WriteIds |-> IF id = patch THEN "sheet" ELSE "script"]
MCChartOf == [id \in WriteIds |-> IF id = chart THEN "picture" ELSE "script"]
MCRecommended == [id \in WriteIds |-> "bar"]
MCPlans == {[id |-> patch, chart |-> "bar"], [id |-> artifact, chart |-> "bar"],
            [id |-> chart, chart |-> "bar"], [id |-> chart, chart |-> "line"]}
MCDirOf == [n \in Names |-> IF n = "sheet" THEN "top" ELSE "artifacts"]
MCPatched == [t \in {"draft"} |-> "final"]
MCInitText == [i \in Inodes |-> IF i = i1 THEN "draft" ELSE NoText]
MCInitNames == [n \in Names |-> IF n = "sheet" THEN i1 ELSE NoInode]
GrantSymmetry == Permutations(Grants)
=============================================================================
