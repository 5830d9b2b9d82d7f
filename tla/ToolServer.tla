------------------------------ MODULE ToolServer ------------------------------
(* The tools of app/mcp/filesystem.py that read, and the servers that call   *)
(* every tool for a client: JSON-RPC lines (server.py) or the SDK            *)
(* (server_sdk.py).  The tree of the corpus is a function from paths, as     *)
(* sequences of names, to [kind, bytes]; the tools that write are external   *)
(* here: a call of one is "called".                                          *)
EXTENDS ArtifactPlans

CONSTANTS NoId, NoRange, Tree,
          NameOrder     \* place of each name in order

(* A tree holds the directories of what it holds.                            *)
ASSUME TreeAssumption ==
    /\ IsFiniteSet(DOMAIN Tree)
    /\ \A f \in DOMAIN Tree :
          /\ f \in Seq(DOMAIN NameOrder)
          /\ \A n \in 1 .. Len(f) : SubSeq(f, 1, n) \in DOMAIN Tree
          /\ Tree[f].bytes \in Seq(ToSet(Tree[f].bytes))
    /\ \A m, n \in DOMAIN NameOrder :
          NameOrder[m] \in Nat /\ (NameOrder[m] = NameOrder[n] => m = n)

(* FilesystemTools.tool_specs: what a tool requires, and what else it takes. *)
Takes(required, optional) == [required |-> required, optional |-> optional]
ToolSpecs ==
    [search_semantic |-> Takes({"query"}, {"k", "filters"}),
     search_lexical |-> Takes({"query"}, {"k"}),
     read_file |-> Takes({"path"}, {"byte_range"}),
     list_dir |-> Takes({}, {"path"}),
     stat |-> Takes({"paths"}, {}),
     propose_move |-> Takes({"src", "dst"}, {}),
     apply_plan |-> Takes({"plan_id"}, {"approval_token"}),
     collect_run_artifact |-> Takes({"run_id"}, {}),
     propose_artifact |-> Takes({"query"}, {}),
     apply_artifact |-> Takes({"plan_id"}, {"approval_token"}),
     propose_patch |-> Takes({"path", "old", "new"}, {}),
     apply_patch |-> Takes({"plan_id"}, {"approval_token"}),
     exec_sandboxed |-> Takes({"code"}, {}),
     inspect_spreadsheet |-> Takes({"path"}, {}),
     propose_visualization |-> Takes({"path", "question"}, {"group_by", "value", "operation", "chart_type"}),
     apply_visualization |-> Takes({"plan_id"}, {"approval_token", "chart_type", "execute", "backend"})]
Appliers == {"apply_plan", "apply_artifact", "apply_patch", "apply_visualization"}

(* _safe and secure_io.relative: a path is [absolute, parts].                *)
Refused == [refused |-> TRUE]
Safe(path) ==
    LET above == {SubSeq(path.parts, 1, n) : n \in 1 .. Len(path.parts)}
    IN IF path.absolute \notin {"no", "inside"} \/ ".." \in ToSet(path.parts)
          \/ (path.parts = <<>> /\ path.absolute = "inside")
          \/ \E a \in above \intersect DOMAIN Tree : Tree[a].kind = "link"
       THEN Refused ELSE [refused |-> FALSE, parts |-> path.parts]
NodeAt(parts) == Tree[parts]
Present(safe) == ~safe.refused /\ safe.parts \in DOMAIN Tree

(* read_file: a range is clipped to the file; an end that is negative counts *)
(* from the end of it, as a slice does.                                      *)
ClippedRead(bytes, range) ==
    LET n == Len(bytes)
        start == Max({0, range[1]})
        end == Min({n, range[2]})
        stop == IF end < 0 THEN Max({0, n + end}) ELSE end
    IN [start |-> start, end |-> end, text |-> SubSeq(bytes, start + 1, stop)]
ReadFile(path, range) ==
    LET safe == Safe(path)
    IN IF ~Present(safe) \/ NodeAt(safe.parts).kind # "file" THEN Refused
       ELSE LET bytes == NodeAt(safe.parts).bytes
                read == IF range = NoRange THEN ClippedRead(bytes, <<0, Len(bytes)>>)
                        ELSE ClippedRead(bytes, range)
            IN [refused |-> FALSE, path |-> safe.parts, start |-> read.start, end |-> read.end, text |-> read.text]

(* list_dir, stat: the children in order of their names; all or nothing.     *)
Children(parts) == {c \in DOMAIN Tree : Len(c) = Len(parts) + 1 /\ SubSeq(c, 1, Len(parts)) = parts}
ListDir(path) ==
    LET safe == Safe(path)
    IN IF safe.refused \/ (safe.parts # <<>> /\ (~Present(safe) \/ NodeAt(safe.parts).kind # "dir")) THEN Refused
       ELSE [refused |-> FALSE,
             entries |-> LET children == Children(safe.parts)
                         IN Sorted(children, [c \in children |->
                                {d \in children : NameOrder[Last(d)] < NameOrder[Last(c)]}])]
Stat(paths) ==
    IF \E i \in DOMAIN paths : ~Present(Safe(paths[i])) THEN Refused
    ELSE [refused |-> FALSE, of |-> [i \in DOMAIN paths |-> Safe(paths[i]).parts]]

(* search_semantic: the filter is applied to the hits that were kept.        *)
FilteredHits(hits, k, filetype) ==
    Without(FirstOf(hits, k), {h \in ToSet(hits) : filetype # "any" /\ h.type # filetype})

(* exec_sandboxed: no import and no attribute reaches the runner.            *)
ExecSandboxed(source) ==
    /\ ~source.long /\ source.parses /\ source.nodes \intersect {"Import", "ImportFrom", "Attribute"} = {}
    /\ RunSandboxed(source)

(* call: an unknown tool, a missing argument or an approval given by the     *)
(* caller raises; the arguments it reads are those the tool's code names.    *)
ReadsArgument ==
    [name \in DOMAIN ToolSpecs |->
        IF name \in Appliers THEN {"plan_id"}
        ELSE IF name \in {"search_semantic", "search_lexical", "propose_artifact"} THEN {"query"}
        ELSE CASE name = "read_file" -> {"path"} [] name = "list_dir" -> {} [] name = "stat" -> {"paths"}
               [] name = "propose_move" -> {"src", "dst"} [] name = "collect_run_artifact" -> {"run_id"}
               [] name = "propose_patch" -> {"path", "old", "new"} [] name = "exec_sandboxed" -> {"code"}
               [] name = "inspect_spreadsheet" -> {"path"} [] name = "propose_visualization" -> {"path", "question"}]
ToolCall(name, arguments) ==
    IF name \in Appliers /\ "approved" \in arguments THEN "ApprovalRequired"
    ELSE IF name \notin DOMAIN ToolSpecs \/ ~(ReadsArgument[name] \subseteq arguments) THEN "raised"
    ELSE "called"

----------------------------------------------------------------------------
(* MCPServer.handle and serve: a line is [is, method, id, name, arguments];  *)
(* a line that is no JSON is passed over, and one that is no object ends the *)
(* server.  A tool that raises is an answer with isError.                    *)
Answered(line, what) == [id |-> line.id, what |-> what]
Silence == [id |-> NoId, what |-> "nothing"]
Handle(line) ==
    CASE line.method \in {"initialize", "tools/list"} -> Answered(line, "ok")
      [] line.method = "notifications/initialized" -> Silence
      [] line.method = "tools/call" -> Answered(line, ToolCall(line.name, line.arguments))
      [] OTHER -> IF line.id = NoId THEN Silence ELSE Answered(line, "not found")
Serve(lines) ==
    LET fatal == {i \in DOMAIN lines : lines[i].is = "value"}
        read == IF fatal = {} THEN lines ELSE SubSeq(lines, 1, Min(fatal) - 1)
    IN Without([i \in DOMAIN read |-> IF read[i].is = "object" THEN Handle(read[i]) ELSE Silence], {Silence})

(* build_server: the SDK passes on the parameters of the tool's own schema   *)
(* that are given, so the approval of a caller is not among them.            *)
SdkCall(name, arguments) ==
    IF name \notin DOMAIN ToolSpecs \/ ~(ToolSpecs[name].required \subseteq arguments) THEN "raised"
    ELSE ToolCall(name, arguments \intersect (ToolSpecs[name].required \union ToolSpecs[name].optional))

----------------------------------------------------------------------------
(* A read of a range inside of the file is those bytes; nothing is read      *)
(* through a link or from above the root; a listing has each child once; and *)
(* code that runs has neither imports nor attributes.                        *)
ReadsAreExact(path, range, read) ==
    ~read.refused =>
        /\ \A n \in 1 .. Len(read.path) : Tree[SubSeq(read.path, 1, n)].kind # "link"
        /\ range = NoRange => read.text = Tree[read.path].bytes
        /\ range # NoRange /\ 0 <= range[1] /\ range[1] <= range[2] =>
              /\ Len(read.text) = Max({0, Min({range[2], Len(Tree[read.path].bytes)}) - range[1]})
              /\ \A i \in DOMAIN read.text : read.text[i] = Tree[read.path].bytes[range[1] + i]

(* Each request is answered once, by its own id and in the order asked, up   *)
(* to the line that ends the server, and no notification but a call is; a    *)
(* call with what its schema requires is made on either server, unless the   *)
(* caller approves for itself.                                               *)
RequestsAnsweredOnce(lines, answers) ==
    LET fatal == {i \in DOMAIN lines : lines[i].is = "value"}
        heard == {i \in DOMAIN lines : lines[i].is = "object" /\ \A f \in fatal : i < f}
        asked == {i \in heard : lines[i].id # NoId}
        own == Without(answers, {a \in ToSet(answers) : a.id = NoId})
    IN /\ Len(own) = Cardinality({i \in asked : lines[i].method # "notifications/initialized"})
       /\ \A i, j \in DOMAIN own : i < j =>
             \E k, l \in asked : k < l /\ lines[k].id = own[i].id /\ lines[l].id = own[j].id
       /\ \A i \in asked : lines[i].method = "tools/call" /\ lines[i].name \in DOMAIN ToolSpecs =>
             LET spec == ToolSpecs[lines[i].name] given == lines[i].arguments
                 what == (CHOOSE a \in ToSet(own) : a.id = lines[i].id).what
             IN spec.required \subseteq given =>
                    /\ SdkCall(lines[i].name, given) = "called"
                    /\ what = IF lines[i].name \in Appliers /\ "approved" \in given
                              THEN "ApprovalRequired" ELSE "called"
=============================================================================
