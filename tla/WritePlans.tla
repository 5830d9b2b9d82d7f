----------------------------- MODULE WritePlans -----------------------------
(* The approval-gated writes beside the file moves (app/mcp/filesystem.py):  *)
(* search/replace patches, generated artifacts and visualizations, as the    *)
(* stdio server (app/mcp/server.py) runs them, one call at a time, while     *)
(* other programs work in the same directory.  A capability covers a plan    *)
(* and, for a visualization, the chart it was reviewed with: that pair is    *)
(* what Approvals calls a plan.                                              *)
EXTENDS Approvals, SecureFiles

CONSTANTS
    WriteIds,      \* plan ids
    Kind,          \* of each plan: "patch", "artifact" or "visualization"
    Source,        \* the file a plan was proposed from (none for an artifact)
    Target,        \* the file it writes: the source of a patch, a new file
    ChartOf,       \* the picture of a visualization
    Charts, Recommended,
    Texts,         \* contents of files
    Found, Patched,\* texts with the search block, and with it replaced
    Partial, Picture,   \* contents a write leaves when it fails; of a chart
    InitText, NoText, WriteFaults, NoCall, Crashes

ChartsOf(id) == IF Kind[id] = "visualization" THEN Charts ELSE {Recommended[id]}
Reviewable == {r \in [id : WriteIds, chart : Charts] : r.chart \in ChartsOf(r.id)}
Bytes(id, chart) == <<id, chart>>       \* the code or the script of a plan

ASSUME WritePlansAssumption ==
    /\ Kind \in [WriteIds -> {"patch", "artifact", "visualization"}]
    /\ {Source, Target, ChartOf} \subseteq [WriteIds -> Names]
    /\ \A id \in WriteIds : Kind[id] = "visualization" => Target[id] # ChartOf[id]
    /\ Recommended \in [WriteIds -> Charts]
    /\ Found \subseteq Texts
    /\ Patched \in [Found -> Texts] /\ Plans = Reviewable
    /\ InitText \in [Inodes -> Texts \cup {NoText}]
    /\ WriteFaults \subseteq {"ledger", "audit", "write"} /\ Crashes \in Nat

VARIABLES
    reviews,   \* _reviews: what fingerprint saw when the plan was proposed
    script,    \* VisualizationPlan.matlab_code, by its chart
    text,      \* the content of each inode
    call,      \* the call under way
    wrote,     \* history: the files the server made or replaced
    crashes

callVars == <<reviews, script, call, crashes>>
vars == <<now, issued, burnt, names, stamp, dirs, edits, renamed,
          reviews, script, text, call, wrote, crashes>>

NoReview == [file |-> NoInode]   \* not proposed yet
Lost == [file |-> "lost"]        \* proposed to a process that is gone
Free == {i \in Inodes : ~Linked(i) /\ stamp[i] = 0 /\ text[i] = NoText}
Fresh == CHOOSE i \in Free : TRUE

Init == /\ ApprovalsInit /\ SecureFilesInit
        /\ reviews = [id \in WriteIds |-> NoReview]
        /\ script = Recommended
        /\ text = InitText /\ call = NoCall
        /\ wrote = {} /\ crashes = 0

----------------------------------------------------------------------------
(* _describe: the source must be there and what it creates must not.         *)
Creates(id) == CASE Kind[id] = "patch" -> {}
                 [] Kind[id] = "artifact" -> {Target[id]}
                 [] OTHER -> {Target[id], ChartOf[id]}
Describable(id) ==
    /\ Kind[id] # "artifact" => Exists(Source[id])
    /\ \A n \in Creates(id) : ~Exists(n)
FileState(id, ok) ==
    [ok |-> ok,   \* the code of an artifact passed in the sandbox
     file |-> IF Kind[id] = "artifact" THEN "none" ELSE names[Source[id]],
     stamp |-> IF Kind[id] = "artifact" THEN 0 ELSE stamp[names[Source[id]]],
     digest |-> IF Kind[id] = "artifact" THEN NoText ELSE text[names[Source[id]]],
     parents |-> {DirOf[n] : n \in Creates(id)} \intersect dirs,
     script |-> script[id]]

(* propose_*: a plan whose review cannot be made stays without one.          *)
Propose(id) ==
    /\ call = NoCall /\ reviews[id] = NoReview
    /\ Describable(id)
    /\ \E ok \in (IF Kind[id] = "artifact" THEN BOOLEAN ELSE {TRUE}) :
          reviews' = [reviews EXCEPT ![id] = FileState(id, ok)]
    /\ UNCHANGED <<now, ledgerVars, fileVars, script, text, call, wrote, crashes>>

Answer == call' = NoCall
Goto(pc) == call' = [call EXCEPT !.pc = pc]
At(pc) == call # NoCall /\ call.pc = pc
Keep == UNCHANGED <<now, issued, crashes>>

(* call and _authorize: an apply_* call with "approved" is refused outright, *)
(* any other needs a capability and files that are still as reviewed.        *)
Apply(id, chart, token) ==
    /\ call = NoCall /\ chart \in ChartsOf(id)
    /\ call' = [id |-> id, chart |-> chart, token |-> token, read |-> NoText,
                late |-> FALSE, pc |-> "authorize"]
    /\ UNCHANGED <<now, ledgerVars, fileVars, reviews, script, text, wrote, crashes>>

AsReviewed(id) ==
    /\ reviews[id] \notin {NoReview, Lost} /\ Describable(id)
    /\ FileState(id, reviews[id].ok) = reviews[id]
Authorize ==
    /\ At("authorize") /\ Keep
    /\ \/ AsReviewed(call.id) /\ Goto("consume")
       \/ ~AsReviewed(call.id) /\ Answer
    /\ UNCHANGED <<burnt, fileVars, reviews, script, text, wrote>>

(* Mutant: the capability is not bound to the chart.                        *)
CoversAnyChart(token, id, chart) ==
    \E other \in Charts : Admits(token, [id |-> id, chart |-> other], now)

Covers(token, id, chart) == Admits(token, [id |-> id, chart |-> chart], now)
FirstStep(id) == IF Kind[id] = "patch" THEN "read" ELSE "create"
(* consume and the audit row of the intent, then the change itself; the      *)
(* script of a visualization is put in its plan before it is written, and    *)
(* an artifact that failed in the sandbox is refused only here.              *)
Consume ==
    /\ At("consume") /\ Keep
    /\ \/ /\ Covers(call.token, call.id, call.chart) /\ Unspent(call.token)
          /\ Burn(call.token)
          /\ \/ /\ reviews[call.id].ok /\ Goto(FirstStep(call.id))
                /\ script' = [script EXCEPT ![call.id] = call.chart]
             \/ /\ ~reviews[call.id].ok \/ "audit" \in WriteFaults
                /\ Answer /\ UNCHANGED script
       \/ /\ \/ ~Covers(call.token, call.id, call.chart) \/ ~Unspent(call.token)
             \/ "ledger" \in WriteFaults
          /\ Answer /\ UNCHANGED <<burnt, script>>
    /\ UNCHANGED <<fileVars, reviews, text, wrote>>

----------------------------------------------------------------------------
Wrote(n, over) ==
    wrote' = wrote \cup
        {[id |-> call.id, chart |-> call.chart, token |-> call.token, late |-> call.late,
          name |-> n, over |-> over, text |-> text'[names'[n]],
          reviewed |-> reviews[call.id]]}

(* apply_patch: read and replace in memory, write aside, look again, rename  *)
(* over the name.                                                            *)
ReadSource ==
    /\ At("read") /\ Keep
    /\ \/ /\ Exists(Source[call.id]) /\ text[names[Source[call.id]]] \in Found
          /\ call' = [call EXCEPT !.pc = "check", !.read = Patched[text[names[Source[call.id]]]]]
       \/ /\ \/ "write" \in WriteFaults \/ ~Exists(Source[call.id])
             \/ Exists(Source[call.id]) /\ text[names[Source[call.id]]] \notin Found
          /\ Answer
    /\ UNCHANGED <<burnt, fileVars, reviews, script, text, wrote>>

(* Mutant: any file of the name is good enough.                             *)
NameTaken(id) == Exists(Source[id])

StillThere(id) == /\ Exists(Source[id])
                  /\ names[Source[id]] = reviews[id].file
                  /\ stamp[names[Source[id]]] = reviews[id].stamp
CheckAgain ==
    /\ At("check") /\ Keep
    /\ \/ StillThere(call.id) /\ Goto("replace")
       \/ ~StillThere(call.id) /\ Answer
    /\ UNCHANGED <<burnt, fileVars, reviews, script, text, wrote>>

Replace ==
    /\ At("replace") /\ Keep /\ Free # {}
    /\ LET n == Source[call.id]
       IN /\ names' = [names EXCEPT ![n] = Fresh]
          /\ stamp' = [j \in Inodes |-> IF j \in {Fresh, names[n]} THEN stamp[j] + 1 ELSE stamp[j]]
          /\ text' = [text EXCEPT ![Fresh] = call.read]
          /\ Wrote(n, [file |-> names[n], stamp |-> IF Exists(n) THEN stamp[names[n]] ELSE 0])
    /\ Answer
    /\ UNCHANGED <<burnt, dirs, edits, renamed, reviews, script>>

(* create_file: the parents, an exclusive open, then the bytes.  A write     *)
(* that fails leaves what it wrote.                                          *)
MayCreate(n) == ~Exists(n)
CreateFile(n, content, Done) ==
    /\ dirs' = dirs \cup {DirOf[n]} /\ UNCHANGED <<edits, renamed>>
    /\ \/ /\ MayCreate(n) /\ Free # {}
          /\ names' = [names EXCEPT ![n] = Fresh]
          /\ stamp' = [stamp EXCEPT ![Fresh] = 1]
          /\ \/ text' = [text EXCEPT ![Fresh] = content] /\ Done
             \/ "write" \in WriteFaults /\ text' = [text EXCEPT ![Fresh] = Partial] /\ Answer
          /\ Wrote(n, [file |-> names[n], stamp |-> 0])
       \/ ~MayCreate(n) /\ Answer /\ UNCHANGED <<names, stamp, text, wrote>>

(* apply_artifact, and the script of apply_visualization, which may be asked *)
(* for without its chart.                                                    *)
CreateTarget ==
    /\ At("create") /\ Keep
    /\ CreateFile(Target[call.id], Bytes(call.id, call.chart),
                  Answer \/ (Kind[call.id] = "visualization" /\ Goto("render")))
    /\ UNCHANGED <<burnt, reviews, script>>

(* execute_matlab in a scratch directory, whose chart is published under its *)
(* name; a renderer that failed or drew nothing leaves the script alone.     *)
Render ==
    /\ At("render") /\ Keep
    /\ \/ CreateFile(ChartOf[call.id], Picture, Answer)
       \/ Answer /\ UNCHANGED <<fileVars, text, wrote>>
    /\ UNCHANGED <<burnt, reviews, script>>

----------------------------------------------------------------------------
(* The process ends: the plans and their reviews were in its memory.         *)
Crash == /\ crashes < Crashes /\ crashes' = crashes + 1
         /\ reviews' = [id \in WriteIds |-> IF reviews[id] = NoReview THEN NoReview ELSE Lost]
         /\ script' = Recommended /\ call' = NoCall
         /\ UNCHANGED <<now, ledgerVars, fileVars, text, wrote>>

(* Other programs; what they write into a file or save over it is any text.  *)
NewContent(i) == stamp'[i] # stamp[i] /\ (names' = names \/ text[i] = NoText)
OtherEdit ==
    /\ OtherPrograms
    /\ \E t \in Texts : text' = [i \in Inodes |-> IF NewContent(i) THEN t ELSE text[i]]
    /\ call' = IF At("replace") THEN [call EXCEPT !.late = TRUE] ELSE call
    /\ UNCHANGED <<now, ledgerVars, reviews, script, wrote, crashes>>

OperatorSigns == /\ \E g \in Grants, p \in Plans : Sign(g, p)
                 /\ UNCHANGED <<fileVars, text, callVars, wrote>>

Calls == \E id \in WriteIds :
            \/ Propose(id)
            \/ \E chart \in Charts, token \in Grants : Apply(id, chart, token)
Next == \/ Calls \/ Authorize \/ Consume \/ ReadSource \/ CheckAgain \/ Replace
        \/ CreateTarget \/ Render \/ Crash \/ OtherEdit \/ OperatorSigns
Spec == Init /\ [][Next]_vars

----------------------------------------------------------------------------
(* A patch puts down the text its review saw with the one replacement,       *)
(* whatever other programs did meanwhile, and in place of that very version  *)
(* of the file: an edit is lost only when it is made after the last look at  *)
(* the file (secure_io.py, replace_file).                                    *)
PatchesOfReviewed ==
    \A w \in wrote : Kind[w.id] = "patch" =>
        /\ w.text = Patched[w.reviewed.digest]
        /\ w.late \/ w.over = [file |-> w.reviewed.file, stamp |-> w.reviewed.stamp]

(* Nothing is written without a capability that was consumed, was signed for *)
(* that plan with that chart, and serves one call; and what is created never *)
(* takes the place of a file that is there.                                  *)
WritesAreSigned ==
    \A w \in wrote :
        /\ w.token \in burnt /\ issued[w.token].plan = [id |-> w.id, chart |-> w.chart]
        /\ w.text \in {Bytes(w.id, w.chart), Picture, Partial} \/ Kind[w.id] = "patch"
        /\ Kind[w.id] # "patch" => w.over.file = NoInode
        /\ \A v \in wrote : v.token = w.token /\ v.name = w.name => v = w
=============================================================================
