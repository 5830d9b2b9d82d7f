------------------------------ MODULE Chunking -------------------------------
(* How a file is cut into spans (app/chunking/structure.py), which become    *)
(* the chunks of the index with byte ranges (app/eval/index_loader.py), the  *)
(* context put before a chunk (contextual.py) and the token ranges of late   *)
(* chunking (late.py).                                                       *)
(*                                                                           *)
(* A text is a sequence of lines [kind, len]; a position is a character.     *)
(* A span is [from, to, head]: the positions from+1 .. to, and the positions *)
(* 1 .. head put before them.                                                *)
EXTENDS Integers, Sequences, FiniteSets, SequencesExt, FiniteSetsExt, Lists

CONSTANTS
    WindowSize, WindowOverlap,   \* fixed windows (512, 50)
    MaxSection, SectionOverlap,  \* longest section kept whole, its windows' overlap (2000, 80)
    WholeYaml,                   \* shorter YAML files are kept whole (2000)
    ByteWidth                    \* bytes of a character of a line, by its kind

ASSUME ChunkingAssumption ==
    {WindowSize, MaxSection} \subseteq Nat \ {0} /\ {WindowOverlap, SectionOverlap} \subseteq Nat

LineStart(text, i) == Totals([j \in DOMAIN text |-> text[j].len])[i - 1]
LineEnd(text, i) == LineStart(text, i) + text[i].len
TextLen(text) == LineStart(text, Len(text) + 1)
LineAt(text, p) == CHOOSE i \in DOMAIN text : LineStart(text, i) < p /\ p <= LineEnd(text, i)
IsBlank(text, p) == text[LineAt(text, p)].kind = "blank"

Span(from, to, head) == [from |-> from, to |-> to, head |-> head]
Positions(span) == (span.from + 1) .. span.to
NotBlank(text, spans) == {s \in spans : \E p \in Positions(s) : ~IsBlank(text, p)}

(* fixed_size_chunks from position a to b.                                   *)
Overlap(size, overlap) == IF overlap >= size THEN size \div 5 ELSE overlap
(* Mutant: the last partial window is dropped.                              *)
WindowsToTheLastStep(a, b, size, overlap) ==
    LET step == size - Overlap(size, overlap)
    IN {Span(a + k * step, a + k * step + size, 0) :
        k \in {k \in 0 .. b - a : a + k * step + size <= b}}

Windows(a, b, size, overlap) ==
    LET o == Overlap(size, overlap)
        step == size - o
    IN {Span(a + k * step, Min({b, a + k * step + size}), 0) :
        k \in {k \in 0 .. b - a : a < b /\ (k = 0 \/ a + k * step + o < b)}}
FixedSizeChunks(text) == NotBlank(text, Windows(0, TextLen(text), WindowSize, WindowOverlap))

(* Cuts at the starts of lines: the sections between neighbouring cuts.      *)
Sections(cuts) ==
    {Span(a, Min({b \in cuts : b > a}), 0) : a \in {a \in cuts : \E b \in cuts : b > a}}

MarkdownHeadingChunks(text) ==
    LET cuts == {0, TextLen(text)} \union
                {LineStart(text, i) : i \in {i \in DOMAIN text : text[i].kind = "heading"}}
    IN NotBlank(text, UNION {IF s.to - s.from > MaxSection
                             THEN Windows(s.from, s.to, MaxSection, SectionOverlap) ELSE {s} :
                             s \in Sections(cuts)})

CsvRecordChunks(text) ==
    IF text = <<>> THEN {}
    ELSE {Span(0, text[1].len, 0)} \union
         {Span(LineStart(text, i), LineEnd(text, i), text[1].len) :
             i \in {i \in 2 .. Len(text) : text[i].kind # "blank"}}
JsonlRecordChunks(text) ==
    {Span(LineStart(text, i), LineEnd(text, i), 0) :
        i \in {i \in DOMAIN text : text[i].kind # "blank"}}

(* yaml_chunks: the first block is the head of the others.                   *)
YamlChunks(text) ==
    LET cuts == {0, TextLen(text)} \union
                {LineStart(text, i) : i \in {i \in 2 .. Len(text) : text[i].kind = "key"}}
        blocks == NotBlank(text, Sections(cuts))
        first == CHOOSE s \in blocks : \A t \in blocks : s.from <= t.from
    IN IF TextLen(text) < WholeYaml THEN NotBlank(text, {Span(0, TextLen(text), 0)})
       ELSE {IF s = first THEN s ELSE Span(s.from, s.to, first.to - first.from) : s \in blocks}

(* python_ast_chunks: what comes before the first definition, and each       *)
(* definition with the body that follows it.  A decorator's line belongs to  *)
(* no definition.  What does not parse is cut in windows.                    *)
BodyEnd(text, i) ==
    Max({j \in i .. Len(text) : \A k \in i + 1 .. j : text[k].kind \in {"body", "blank"}})
DefinitionLines(text, i) == i .. Max({j \in i .. BodyEnd(text, i) : text[j].kind # "blank"})
PythonAstChunks(text, parses) ==
    LET defs == {i \in DOMAIN text : text[i].kind = "def"}
        definitions == {Span(LineStart(text, i), LineEnd(text, Max(DefinitionLines(text, i))), 0) :
                        i \in defs}
        before == IF defs = {} THEN {} ELSE {Span(0, LineStart(text, Min(defs)), 0)}
    IN IF ~parses \/ defs = {} THEN FixedSizeChunks(text)
       ELSE NotBlank(text, {s \in definitions \union before : s.from < s.to})

(* chunk_text: parses tells of a Python or JSON file that its parser takes   *)
(* it; JSON that is one value is one span, and any other a line each.        *)
ChunkText(text, suffix, parses) ==
    CASE suffix = ".csv" -> CsvRecordChunks(text)
      [] suffix = ".jsonl" -> JsonlRecordChunks(text)
      [] suffix = ".py" -> PythonAstChunks(text, parses)
      [] suffix = ".json" -> IF parses THEN NotBlank(text, {Span(0, TextLen(text), 0)})
                             ELSE JsonlRecordChunks(text)
      [] suffix = ".md" -> MarkdownHeadingChunks(text)
      [] suffix = ".yaml" -> YamlChunks(text)
      [] OTHER -> FixedSizeChunks(text)

(* load_chunks: byte offsets, and whether the text of a span is verbatim.    *)
Bytes(text, p) ==
    Totals([q \in 1 .. TextLen(text) |-> ByteWidth[text[LineAt(text, q)].kind]])[p]
LoadChunks(text, suffix, parses) ==
    LET spans == ChunkText(text, suffix, parses)
        kept == IF spans = {} THEN FixedSizeChunks(text) ELSE spans
    IN {[span |-> s, start_byte |-> Bytes(text, s.from), end_byte |-> Bytes(text, s.to),
         verbatim |-> s.head = 0] : s \in kept}

(* char_spans_to_token_spans: a token is a non-blank line.                   *)
Tokens(text) ==
    LET lines == {i \in DOMAIN text : text[i].kind # "blank"}
    IN Sorted(lines, [i \in lines |-> {j \in lines : j < i}])
TokenSpan(text, span) ==
    LET tokens == Tokens(text)
        ending == {n \in DOMAIN tokens : LineEnd(text, tokens[n]) > span.from}
        beyond == {n \in DOMAIN tokens : LineStart(text, tokens[n]) >= span.to}
        start == IF ending = {} THEN 0 ELSE Min(ending) - 1
        end == IF beyond = {} THEN Len(tokens) ELSE Min(beyond) - 1
    IN <<start, Max({start + 1, end})>>

(* The lines a Python file may lose: after the first definition, and in none.*)
MayLose(text, i) ==
    /\ \E d \in 1 .. i - 1 : text[d].kind = "def"
    /\ \A d \in 1 .. i - 1 : text[d].kind = "def" => i \notin DefinitionLines(text, d)
=============================================================================
