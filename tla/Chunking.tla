------------------------------ MODULE Chunking ------------------------------
(***************************************************************************)
(* How a parsed document is cut into the chunks that are embedded: the     *)
(* recursive chunker (paragraphs, then sentences, then words, then an      *)
(* overlap with the chunk before) and the markdown chunker (a section per  *)
(* heading, each section chunked by the recursive one when it is too long).*)
(*                                                                         *)
(* A document is a sequence of blocks that blank lines separate; a block   *)
(* is a heading (level > 0) or a paragraph and consists of sentences, one  *)
(* space apart; a sentence is a sequence of characters.  Letters are       *)
(* numbered through the document, so that what a chunk carries of it can   *)
(* be told; the other characters are Space and Mark (of a heading path).   *)
(* The state is the document, written one word at a time; the chunkers are *)
(* functions of it.                                                        *)
(***************************************************************************)
EXTENDS Integers, Sequences, SequencesExt

CONSTANTS
  Size, Overlap,  \* the options of a call, as given
  Levels,         \* heading levels, with 0 for a paragraph
  WordSizes,      \* lengths of a word
  Gaps,           \* spaces between two words of a sentence
  MaxWords        \* bound: words of a document

VARIABLES blocks, words, letters

docVars == <<blocks, words, letters>>

Space == 0
Mark  == -1
Blanks(n) == [i \in 1 .. n |-> Space]

ChunkingTypeOK ==
  /\ words \in 0 .. MaxWords /\ letters \in Nat
  /\ \A i \in DOMAIN blocks : blocks[i].level \in Levels /\ blocks[i].sentences # <<>>

Init == blocks = <<>> /\ words = 0 /\ letters = 0

Word(n) == [i \in 1 .. n |-> letters + i]

\* The writer adds a word: to the last sentence, as a new sentence, or as a new block.
Write(n, lastBlock) ==
  /\ words < MaxWords
  /\ words' = words + 1 /\ letters' = letters + n
  /\ blocks' = lastBlock
NewBlock(n, level) == Write(n, Append(blocks, [level |-> level, sentences |-> <<Word(n)>>]))
NewSentence(n) ==
  /\ blocks # <<>> /\ Last(blocks).level = 0
  /\ Write(n, Front(blocks) \o <<[Last(blocks) EXCEPT !.sentences = Append(@, Word(n))]>>)
MoreWords(n, gap) ==
  /\ blocks # <<>>
  /\ Write(n, Front(blocks) \o <<[Last(blocks) EXCEPT
                 !.sentences[Len(Last(blocks).sentences)] = @ \o Blanks(gap) \o Word(n)]>>)

Next ==
  \E n \in WordSizes :
    \/ \E level \in Levels : NewBlock(n, level)
    \/ NewSentence(n)
    \/ \E gap \in Gaps : MoreWords(n, gap)

Spec == Init /\ [][Next]_docVars

-----------------------------------------------------------------------------
(* The options. *)
ChunkSize == IF Size <= 0 THEN 1000 ELSE Size
ChunkOverlap ==
  CASE Overlap < 0          -> 0
    [] Overlap >= ChunkSize -> ChunkSize \div 4
    [] OTHER                -> Overlap

Join(pieces, between) ==
  FoldLeft(LAMBDA text, p : IF text = <<>> THEN p ELSE text \o between \o p, <<>>, pieces)

Trim(text) ==
  LET ink == {i \in DOMAIN text : text[i] # Space}
  IN IF ink = {} THEN <<>>
     ELSE SubSeq(text, CHOOSE i \in ink : \A j \in ink : i <= j, CHOOSE i \in ink : \A j \in ink : j <= i)

\* The place of the last space in the second half of the first `size' characters, or `size'.
WordBoundary(text) ==
  LET at == {i \in (ChunkSize \div 2) + 1 .. ChunkSize : text[i + 1] = Space}
  IN IF at = {} THEN ChunkSize ELSE CHOOSE i \in at : \A j \in at : j <= i

HardSplit[text \in Seq(Int)] ==
  IF Len(text) > ChunkSize
  THEN LET b == WordBoundary(text)
       IN <<Trim(SubSeq(text, 1, b))>> \o HardSplit[SubSeq(text, b + 1, Len(text))]
  ELSE IF text = <<>> THEN <<>> ELSE <<Trim(text)>>

\* Variant: an oversized piece does not first close the chunk that is being filled.
PackOutOfOrder(pieces, between, Flat(_), Split(_)) ==
  LET Add(acc, piece) ==
        LET text   == Flat(piece)
            closed == IF acc.open = <<>> THEN acc.done ELSE Append(acc.done, acc.open)
        IN IF Len(text) > ChunkSize
           THEN [done |-> acc.done \o Split(piece), open |-> acc.open]
           ELSE IF acc.open = <<>> \/ Len(acc.open) + 1 + Len(text) > ChunkSize
           THEN [done |-> closed, open |-> text]
           ELSE [acc EXCEPT !.open = @ \o between \o text]
      end == FoldLeft(Add, [done |-> <<>>, open |-> <<>>], pieces)
  IN IF end.open = <<>> THEN end.done ELSE Append(end.done, end.open)

\* The loop of mergeParagraphs and splitLargeParagraph: pieces fill a chunk while they
\* fit, the separator counted as one character; one that fits in no chunk is split.
Pack(pieces, between, Flat(_), Split(_)) ==
  LET Add(acc, piece) ==
        LET text   == Flat(piece)
            closed == IF acc.open = <<>> THEN acc.done ELSE Append(acc.done, acc.open)
        IN IF Len(text) > ChunkSize
           THEN [done |-> closed \o Split(piece), open |-> <<>>]
           ELSE IF acc.open = <<>> \/ Len(acc.open) + 1 + Len(text) > ChunkSize
           THEN [done |-> closed, open |-> text]
           ELSE [acc EXCEPT !.open = @ \o between \o text]
      end == FoldLeft(Add, [done |-> <<>>, open |-> <<>>], pieces)
  IN IF end.open = <<>> THEN end.done ELSE Append(end.done, end.open)

Paragraph(sentences) == Join(sentences, Blanks(1))
SplitLargeParagraph(sentences) == Pack(sentences, Blanks(1), LAMBDA s : s, LAMBDA s : HardSplit[s])
MergeParagraphs(paragraphs) == Pack(paragraphs, Blanks(2), Paragraph, SplitLargeParagraph)

LastChars(text, n) == IF Len(text) <= n THEN text ELSE SubSeq(text, Len(text) - n + 1, Len(text))

\* Each chunk but the first starts with the end of the one before, as it was cut.
ApplyOverlap(chunks) ==
  [i \in DOMAIN chunks |->
     IF ChunkOverlap > 0 /\ i > 1
     THEN LastChars(chunks[i - 1], ChunkOverlap) \o Blanks(1) \o chunks[i] ELSE chunks[i]]

Paragraphs(bs) == [i \in DOMAIN bs |-> bs[i].sentences]
Cut(bs)   == MergeParagraphs(Paragraphs(bs))
Chunk(bs) == ApplyOverlap(Cut(bs))

(* The markdown chunker. *)

\* The titles on the way to a heading: `stack' holds one per level, 0 for a skipped one.
Push(stack, level, title) ==
  LET kept == SubSeq(stack, 1, IF Len(stack) < level - 1 THEN Len(stack) ELSE level - 1)
  IN kept \o Blanks(level - 1 - Len(kept)) \o <<title>>

\* A section: its heading's path and its blocks, the heading among them.
MarkdownSections ==
  LET Add(acc, i) ==
        LET b == blocks[i] IN
        IF b.level > 0
        THEN [done |-> IF acc.open.blocks = <<>> THEN acc.done ELSE Append(acc.done, acc.open),
              open |-> [path |-> Push(acc.open.path, b.level, i), blocks |-> <<b>>]]
        ELSE [acc EXCEPT !.open.blocks = Append(@, b)]
      end == FoldLeft(Add, [done |-> <<>>, open |-> [path |-> <<>>, blocks |-> <<>>]],
                      [i \in DOMAIN blocks |-> i])
  IN IF end.open.blocks = <<>> THEN end.done ELSE Append(end.done, end.open)

\* The path as text, in characters that are not of the document: a paragraph before the section.
PathBlock(path) ==
  [level |-> 0, sentences |->
     <<Join([k \in DOMAIN path |-> IF path[k] = 0 THEN <<>>
                                   ELSE [c \in DOMAIN Paragraph(blocks[path[k]].sentences) |-> Mark]],
            <<Mark, Mark, Mark>>)>>]

\* Small sections are kept as they are, without overlap; larger ones are chunked with
\* their path in front.
ChunkSection(section) ==
  LET text == Join([i \in DOMAIN section.blocks |-> Paragraph(section.blocks[i].sentences)], Blanks(2))
      cut  == IF Len(text) <= ChunkSize THEN <<text>>
              ELSE Chunk(IF section.path = <<>> THEN section.blocks
                         ELSE <<PathBlock(section.path)>> \o section.blocks)
  IN [i \in DOMAIN cut |-> [text |-> cut[i], path |-> section.path]]

MarkdownChunks ==
  LET sections == MarkdownSections
  IN FlattenSeq([i \in DOMAIN sections |-> ChunkSection(sections[i])])

-----------------------------------------------------------------------------
Letters(text) == SelectSeq(text, LAMBDA c : c > 0)

\* No letter of the document is lost, repeated or moved by the cutting, whatever mixture
\* of short and overlong paragraphs, sentences and words it is made of.
NothingLost == Letters(FlattenSeq(Cut(blocks))) = [i \in 1 .. letters |-> i]

\* A chunk is never longer than the chunk size plus one: the separator of paragraphs is
\* two characters and is counted as one (recursive_chunker.go:84); the overlap and its
\* line break come on top.
SizeKept ==
  LET cut == Cut(blocks) IN
  /\ \A i \in DOMAIN cut : Len(cut[i]) <= ChunkSize + 1
  /\ \A text \in ToSet(ApplyOverlap(cut)) : Len(text) <= ChunkSize + ChunkOverlap + 2

\* With an overlap, as every caller has, no chunk is an empty string, which the embedder
\* would refuse with the whole document (openai.go:115); a stretch of spaces longer than
\* half a chunk cuts an empty one (recursive_chunker.go:145).
NoneEmpty == ChunkOverlap > 0 => <<>> \notin ToSet(Chunk(blocks))

\* A chunk of a markdown document is filed under the headings that enclose it: of each
\* level up to that of the last heading before it, the last one that no heading of a
\* higher rank follows (markdown_chunker.go:74).
Enclosing(n) ==
  LET heads == {i \in 1 .. n : blocks[i].level > 0}
      last  == CHOOSE i \in heads : \A j \in heads : j <= i
      At(k) == {i \in heads : blocks[i].level = k
                              /\ \A j \in heads : j > i => blocks[j].level > k}
  IN IF heads = {} THEN <<>>
     ELSE [k \in 1 .. blocks[last].level |-> IF At(k) = {} THEN 0 ELSE CHOOSE i \in At(k) : TRUE]

\* The block a letter is in.
BlockOf(c) ==
  CHOOSE i \in DOMAIN blocks : \E k \in DOMAIN blocks[i].sentences : Contains(blocks[i].sentences[k], c)

FiledUnderHeadings ==
  \A chunk \in ToSet(MarkdownChunks) :
    LET ink == Letters(chunk.text) IN
    ink # <<>> => chunk.path = Enclosing(BlockOf(Last(ink)))

\* The chunks of a document (recursive_chunker.go, markdown_chunker.go).
ChunksConsistent == NothingLost /\ SizeKept /\ NoneEmpty /\ FiledUnderHeadings

=============================================================================
