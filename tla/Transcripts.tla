----------------------------- MODULE Transcripts -----------------------------
(* What is read back from a conversation: the prompt and the history of a    *)
(* chat (app/api/routers/models.py), and the searches, the answer and the    *)
(* trained tokens of a rollout (app/rl).                                     *)
(* A message is [role, says, notes]; a note is one of                        *)
(*   [type |-> "document_file", names, refs]   [type |-> "agent", says]      *)
(*   [type |-> "tools", failed, code]          [type |-> "image"]            *)
EXTENDS Scoring

CONSTANTS
    NoCode,        \* a tool's output without code
    MaxSearches    \* max_searches of the environment

OfType(notes, type) == Without(notes, {n \in ToSet(notes) : n.type # type})
NotesOf(messages, role) ==
    FlattenSeq([i \in DOMAIN messages |-> IF messages[i].role = role THEN messages[i].notes ELSE <<>>])

(* Annotation.to_content, get_last_message_content: the files of every       *)
(* question, after the last message; an image is refused.                    *)
LastMessage(messages) ==
    LET notes == NotesOf(messages, "user")
        files == Without(notes, {n \in ToSet(notes) : n.type # "document_file" \/ n.names = <<>>})
    IN IF \E i \in DOMAIN notes : notes[i].type = "image" THEN [refused |-> TRUE]
       ELSE [refused |-> FALSE, says |-> Last(messages).says,
             files |-> FlattenSeq([i \in DOMAIN files |-> files[i].names])]

(* _get_agent_messages: the break leaves one message's notes, and the next   *)
(* message still adds one.                                                   *)
AgentsUpTo(messages, max) ==
    LET Said(m) == IF m.role # "assistant" THEN <<>> ELSE OfType(m.notes, "agent")
        kept[i \in 0 .. Len(messages)] ==
            IF i = 0 THEN <<>>
            ELSE kept[i - 1] \o FirstOf(Said(messages[i]),
                                        IF Len(kept[i - 1]) < max THEN max - Len(kept[i - 1]) ELSE 1)
    IN kept
AgentMessages(messages, max) == AgentsUpTo(messages, max)[Len(messages)]

(* Mutant: only the last result counts, also one that failed.               *)
CodeBeforeFailure(messages) ==
    LET tools == OfType(NotesOf(messages, "assistant"), "tools")
    IN IF tools = <<>> \/ Last(tools).failed THEN NoCode ELSE Last(tools).code

(* _get_latest_code_artifact: the latest message with a tool that worked; of *)
(* its tools the first, whose output need not be code.                       *)
LatestCode(messages) ==
    LET Worked(m) == IF m.role # "assistant" THEN <<>>
                     ELSE Without(m.notes, {n \in ToSet(m.notes) : n.type # "tools" \/ n.failed})
        at == {i \in DOMAIN messages : Worked(messages[i]) # <<>>}
    IN IF at = {} THEN NoCode ELSE Worked(messages[Max(at)])[1].code

(* get_history_messages, get_chat_document_ids                               *)
HistoryMessages(messages, withAgents, withCode) ==
    LET agents == AgentMessages(messages, 5)
        code == LatestCode(messages)
    IN [turns |-> Front(messages),
        agents |-> IF withAgents THEN agents ELSE <<>>,
        code |-> IF withCode THEN code ELSE NoCode]
DocumentIds(messages) ==
    LET notes == NotesOf(messages, "user")
    IN UNION {ToSet(notes[i].refs) : i \in {i \in DOMAIN notes : notes[i].type = "document_file"}}

----------------------------------------------------------------------------
(* A rollout is a sequence of tokens.  A token is a word, or opens or closes *)
(* a span ("<search>", "</search>", ...); [is, from] says who wrote it: the  *)
(* policy, the environment's own tags, or a file.  A tag is a tag whoever    *)
(* wrote it; all are in lower case.                                          *)
Token(is, from) == [is |-> is, from |-> from]
Opens == [search |-> "<search>", information |-> "<information>", answer |-> "<answer>"]
Closes == [search |-> "</search>", information |-> "</information>", answer |-> "</answer>"]

(* findall of <tag>(.*?)</tag>: from an opening, the first one since the     *)
(* last closing, to the next closing.  A span is [from, to] with its tags.   *)
SpansOf(raw, tag) ==
    LET opens == {i \in DOMAIN raw : raw[i].is = Opens[tag]}
        closes == {i \in DOMAIN raw : raw[i].is = Closes[tag]}
    IN {span \in [from : opens, to : closes] :
          /\ span.from < span.to /\ \A c \in closes : c \notin span.from .. span.to - 1
          /\ \A o \in opens : o < span.from => \E c \in closes : c \in o .. span.from}
Inside(raw, span) == SubSeq(raw, span.from + 1, span.to - 1)
InOrder(spans) == Sorted(spans, [a \in spans |-> {b \in spans : b.from < a.from}])
Texts(raw, tag) ==
    LET spans == InOrder(SpansOf(raw, tag)) IN [i \in DOMAIN spans |-> Inside(raw, spans[i])]

(* token_train_mask, parse_trajectory                                        *)
TrainMask(raw) ==
    LET results == UNION {span.from .. span.to : span \in SpansOf(raw, "information")}
    IN [i \in DOMAIN raw |-> i \notin results]
NonEmpty(texts) == Without(texts, {<<>>})
ParseTrajectory(raw) ==
    LET answers == Texts(raw, "answer") infos == Texts(raw, "information")
        answer == IF answers = <<>> THEN <<>> ELSE Last(answers)
    IN [raw |-> raw, searches |-> NonEmpty(Texts(raw, "search")), informations |-> infos,
        answer |-> answer, paths |-> <<>>,
        cited |-> /\ answer # <<>>
                  /\ \/ \E i \in DOMAIN answer : answer[i].is = "path"
                     \/ infos # <<>> /\ infos[1] # <<>>]

(* SearchR1Env.rollout: the searches of a policy that wrote no results of    *)
(* its own, the first few, answered together after the first of them.        *)
(* Found[word] is what the index finds: paths, and the words of their text;  *)
(* it finds nothing for any other word.                                      *)
Search(Found, word) == IF word \in DOMAIN Found THEN Found[word] ELSE [paths |-> <<>>, words |-> <<>>]
Information(found) ==
    <<Token("<information>", "env")>> \o [i \in DOMAIN found.words |-> Token(found.words[i], "file")]
    \o <<Token("</information>", "env")>>
Rollout(raw, Found) ==
    LET parsed == ParseTrajectory(raw)
        asked == FirstOf(parsed.searches, MaxSearches)
        found == [i \in DOMAIN asked |-> Search(Found, asked[i][1].is)]
        open == \E i \in DOMAIN raw : raw[i].is = "<information>"
        close == Min({i \in DOMAIN raw : raw[i].is = "</search>"})
        filled == IF open THEN raw
                  ELSE SubSeq(raw, 1, close)
                       \o FlattenSeq([i \in DOMAIN found |-> Information(found[i])])
                       \o SubSeq(raw, close + 1, Len(raw))
        again == ParseTrajectory(filled)
    IN IF parsed.searches = <<>> \/ parsed.informations # <<>> THEN parsed
       ELSE LET paths == Distinct(FlattenSeq([i \in DOMAIN found |-> found[i].paths]))
            IN [again EXCEPT !.paths = paths, !.cited = @ \/ paths # <<>>]
HeuristicRollout(question, found, answer) ==
    LET Said(text) == [i \in DOMAIN text |-> Token(text[i], "policy")]
        raw == Said(<<"<search>", question, "</search>">>) \o Information(found)
               \o Said(<<"<answer>">> \o answer \o <<"</answer>">>)
    IN [ParseTrajectory(raw) EXCEPT !.paths = found.paths, !.cited = found.paths # <<>> /\ answer # <<>>]

(* exact_match, search_r1_reward: kappa in tenths.                           *)
ExactMatch(answer, gold) == \E i \in DOMAIN answer : answer[i].is = gold
Reward(trajectory, gold, goldPaths, jury) ==
    LET ndcg == NdcgAt(trajectory.paths, goldPaths, 10)
        empty == ~trajectory.cited \/ trajectory.answer = <<>>
    IN <<ndcg[2] * ((IF ExactMatch(trajectory.answer, gold) THEN 20 ELSE 0)
                    + (IF jury.kappa >= 6 THEN 6 * jury.score ELSE 0)
                    - 2 * Len(trajectory.searches) - (IF empty THEN 20 ELSE 0))
         + 10 * ndcg[1], 20 * ndcg[2]>>

----------------------------------------------------------------------------
(* get_history_messages promises "the last 5 agent interaction messages".    *)
HasTheLastAgents(messages, history) ==
    LET said == OfType(NotesOf(messages, "assistant"), "agent")
    IN history.agents = SubSeq(said, Max({1, Len(said) - 4}), Len(said))

(* The history of a chat is every earlier turn, once and in order, with no   *)
(* more agents' words than the bound and one for each later message; files   *)
(* given with any question are named again; and code that is shown is of the *)
(* latest answer whose tool worked, so a tool that failed does not hide it.  *)
HistoryKeepsTheTurns(messages, last, history, ids) ==
    /\ history.turns \o <<Last(messages)>> = messages
    /\ Len(history.agents) <= 5 + Len(messages)
    /\ ~last.refused => last.says = Last(messages).says
    /\ \A i \in DOMAIN messages : \A n \in ToSet(messages[i].notes) :
          /\ messages[i].role = "user" /\ n.type = "document_file" =>
                /\ ToSet(n.refs) \subseteq ids
                /\ ~last.refused => ToSet(n.names) \subseteq ToSet(last.files)
          /\ messages[i].role = "assistant" /\ n.type = "tools" =>
                (/\ ~n.failed /\ Cardinality({k \in DOMAIN messages[i].notes :
                                                 messages[i].notes[k].type = "tools"}) = 1
                 /\ \A j \in i + 1 .. Len(messages) : \A k \in ToSet(messages[j].notes) :
                       k.type = "tools" => k.failed
                 => history.code = n.code)

(* What a file said is trained on only behind an end of a result that the    *)
(* file itself holds, in that result; what the policy wrote is left out only *)
(* where it opened a result of its own; and an answer that is empty earns    *)
(* less than nothing, whatever was found.                                    *)
ClosedByAFile(raw, i) ==
    \E c \in 1 .. i - 1 : /\ raw[c] = Token("</information>", "file")
                         /\ \A j \in c .. i : raw[j] # Token("<information>", "env")
TrainsOnItsOwnWords(trajectory, gold, reward) ==
    LET raw == trajectory.raw mask == TrainMask(raw)
    IN /\ \A i \in DOMAIN raw : raw[i].from # "policy" /\ mask[i] => ClosedByAFile(raw, i)
       /\ \A i \in DOMAIN raw : raw[i].from = "policy" /\ ~mask[i] =>
             \E j \in DOMAIN raw : raw[j] = Token("<information>", "policy")
       /\ trajectory.answer = <<>> => reward[1] < 0
=============================================================================
