------------------------------- MODULE Chunker -------------------------------
(***************************************************************************)
(* Section-aware chunking, app/ingestion/chunker.py: the pages of a parsed *)
(* document become chunks, each with the page and the section it is from.  *)
(*                                                                         *)
(* A line is what the heading patterns and the lengths tell of it: its     *)
(* kind, the components of its number, and its characters.  A character is *)
(* a position of the page and whether it ends a sentence; white space is   *)
(* the one character without a position.  The id of a section is its       *)
(* number, <<8, 1>> for 8.1; of a marker such as (b), <<0, 2>>.            *)
(***************************************************************************)
EXTENDS Integers, Sequences, FiniteSets, SequencesExt, FiniteSetsExt

CONSTANTS
    MaxHeadingChars,   \* _MAX_HEADING_CHARS
    MaxChars,          \* the token budget of a chunk, in characters
    MinChars           \* _MIN_CHUNK_TOKENS, in characters

ASSUME ChunkerAssumption ==
    /\ MaxHeadingChars \in Nat /\ MaxChars \in Nat \ {0} /\ MinChars \in Nat

White == [at |-> 0, stop |-> FALSE]
Kinds == {"article", "section", "sub", "text", "blank"}

Joined(texts, separator) ==
    FoldLeft(LAMBDA whole, t : IF whole = <<>> THEN t ELSE whole \o separator \o t,
             <<>>, texts)

Inked(text) == {i \in DOMAIN text : text[i] # White}
Strip(text) ==
    IF Inked(text) = {} THEN <<>>
    ELSE SubSeq(text, Min(Inked(text)), Max(Inked(text)))

-----------------------------------------------------------------------------
(***************************************************************************)
(* Headings.                                                               *)
(***************************************************************************)

NoHeading == <<>>

\* 9.0 is Article 9.
StripDecimalArticle(num) ==
    SubSeq(num, 1, Max({1} \cup {i \in DOMAIN num : num[i] # 0}))

\* The section path a line of a paragraph of that length opens, if any.
MatchHeading(line, path, length) ==
    LET short == length <= MaxHeadingChars
        parts == StripDecimalArticle(line.num)
    IN  CASE line.kind = "article" /\ short -> <<line.num>>
          [] line.kind = "section" /\ (short \/ Len(line.num) > 1) ->
               [i \in DOMAIN parts |-> SubSeq(parts, 1, i)]
          [] line.kind = "sub" /\ short -> Append(path, line.num)
          [] OTHER -> NoHeading

OpensParagraph(line) == MatchHeading(line, <<>>, Len(line.chars)) # NoHeading

\* The length of the paragraph each line opens: the lines that follow, up to
\* a blank one or one that opens a paragraph, belong to it.
LogicalLengths(lines) ==
    LET continuation[i \in 1 .. Len(lines) + 1] ==
          IF i > Len(lines) \/ lines[i].kind = "blank" \/ OpensParagraph(lines[i])
          THEN 0
          ELSE Len(lines[i].chars) + 1 + continuation[i + 1]
    IN  [i \in DOMAIN lines |-> Len(lines[i].chars) + continuation[i + 1]]

-----------------------------------------------------------------------------
(***************************************************************************)
(* Blocks: the lines of one page under one heading.                        *)
(***************************************************************************)

Block(path, heading, lines) == [path |-> path, heading |-> heading, lines |-> lines]

BlockText(b) == Strip(Joined([i \in DOMAIN b.lines |-> b.lines[i].chars], <<White>>))

IsBareHeading(b) ==
    b.heading /\ Cardinality({i \in DOMAIN b.lines : b.lines[i].kind # "blank"}) = 1

IsDescendant(child, parent) == IsStrictPrefix(parent, child)

\* Mutant: whatever follows a bare heading takes it in.
FoldBareHeadingsAnywhere(blocks) ==
    LET step(acc, i) ==
          IF IsBareHeading(blocks[i]) /\ i < Len(blocks)
          THEN [acc EXCEPT !.pending = @ \o blocks[i].lines]
          ELSE [pending |-> <<>>,
                folded |-> Append(acc.folded,
                                  [blocks[i] EXCEPT !.lines = acc.pending \o @])]
    IN  FoldLeftDomain(step, [folded |-> <<>>, pending |-> <<>>], blocks).folded

\* A heading without a body goes into the descendant that follows it.
FoldBareHeadings(blocks) ==
    LET step(acc, i) ==
          IF /\ IsBareHeading(blocks[i]) /\ i < Len(blocks)
             /\ IsDescendant(blocks[i + 1].path, blocks[i].path)
          THEN [acc EXCEPT !.pending = @ \o blocks[i].lines]
          ELSE [pending |-> <<>>,
                folded |-> Append(acc.folded,
                                  [blocks[i] EXCEPT !.lines = acc.pending \o @])]
    IN  FoldLeftDomain(step, [folded |-> <<>>, pending |-> <<>>], blocks).folded

\* The blocks of a page, the first of them under the heading carried in from
\* the page before, and the heading the page carries out.
PageBlocks(lines, carried) ==
    LET lengths == LogicalLengths(lines)
        closed(acc) == IF acc.current.lines = <<>> THEN acc.blocks
                       ELSE Append(acc.blocks, acc.current)
        step(acc, i) ==
          LET heading == MatchHeading(lines[i], acc.path, lengths[i])
          IN  IF heading = NoHeading
              THEN [acc EXCEPT !.current.lines = Append(@, lines[i])]
              ELSE [blocks |-> closed(acc), path |-> heading,
                    current |-> Block(heading, TRUE, <<lines[i]>>)]
        end == FoldLeftDomain(step, [blocks |-> <<>>, path |-> carried,
                                     current |-> Block(carried, FALSE, <<>>)], lines)
    IN  [blocks |-> SelectSeq(FoldBareHeadings(closed(end)),
                              LAMBDA b : BlockText(b) # <<>>),
         carried |-> end.path]

-----------------------------------------------------------------------------
(***************************************************************************)
(* Splitting a block that exceeds the budget.                              *)
(***************************************************************************)

\* The pieces of a text between the white space at the positions of gaps.
Pieces(text, gaps) ==
    LET first == {i \in DOMAIN text \ gaps : i = 1 \/ i - 1 \in gaps}
        piece(i) == SubSeq(text, i, Min({j \in i .. Len(text) :
                                         j = Len(text) \/ j + 1 \in gaps}))
        starts == SelectSeq([i \in DOMAIN text |-> i], LAMBDA i : i \in first)
    IN  SelectSeq([k \in DOMAIN starts |-> piece(starts[k])],
                  LAMBDA p : Inked(p) # {})

BlankPair(text, i) == {i, i + 1} \subseteq DOMAIN text \ Inked(text)
ParagraphGaps(text) ==
    {i \in DOMAIN text : BlankPair(text, i) \/ BlankPair(text, i - 1)}

SentenceGaps(text) ==
    {i \in DOMAIN text \ Inked(text) :
       \E j \in Inked(text) : /\ j < i /\ text[j].stop
                              /\ (j + 1 .. i) \cap Inked(text) = {}}

Units(text) ==
    LET paragraphs == Pieces(text, ParagraphGaps(text))
    IN  IF \E p \in Range(paragraphs) : Len(p) > MaxChars
        THEN Pieces(text, SentenceGaps(text))
        ELSE paragraphs

Ending(s, n) == SubSeq(s, Max({1, Len(s) - n + 1}), Len(s))

\* Units are packed until one does not fit; the next part starts with the
\* last characters of the part before it.
Packed(units, overlap) ==
    LET text(current) == Joined(current, <<White, White>>)
        step(acc, unit) ==
          IF acc.size + Len(unit) + 1 <= MaxChars \/ acc.current = <<>>
          THEN [acc EXCEPT !.current = Append(@, unit), !.size = @ + Len(unit) + 1]
          ELSE LET tail == Ending(text(acc.current), overlap)
               IN  [parts |-> Append(acc.parts, Strip(text(acc.current))),
                    current |-> IF overlap > 0 THEN <<tail, unit>> ELSE <<unit>>,
                    size |-> Len(tail) + Len(unit) + 1]
        end == FoldLeft(step, [parts |-> <<>>, current |-> <<>>, size |-> 0], units)
    IN  IF end.current = <<>> THEN end.parts
        ELSE Append(end.parts, Strip(text(end.current)))

\* What no boundary splits is cut by length.  An overlap beyond the budget
\* makes the step negative, and the range empty.
HardCut(part, overlap) ==
    LET step == IF overlap = MaxChars THEN MaxChars ELSE MaxChars - overlap
        slices == IF step < 0 THEN 0 ELSE (Len(part) + step - 1) \div step
        from(k) == (k - 1) * step + 1
    IN  IF Len(part) <= MaxChars THEN <<part>>
        ELSE [k \in 1 .. slices |->
                SubSeq(part, from(k), Min({from(k) + MaxChars - 1, Len(part)}))]

\* Mutant: a fragment is dropped.
DropFragments(parts) ==
    SelectSeq(parts, LAMBDA p : Len(p) >= MinChars \/ p = parts[1])

\* A fragment goes back into the part before it, one floor over the budget at
\* most.
MergeFragments(parts) ==
    LET step(merged, part) ==
          IF /\ merged # <<>> /\ Len(part) < MinChars
             /\ Len(Last(merged)) + Len(part) <= MaxChars + MinChars
          THEN [merged EXCEPT ![Len(merged)] = @ \o <<White>> \o part]
          ELSE Append(merged, part)
    IN  FoldLeft(step, <<>>, SelectSeq(parts, LAMBDA p : Inked(p) # {}))

SplitLongText(text, overlap) ==
    IF Len(text) <= MaxChars THEN <<text>>
    ELSE LET parts == Packed(Units(text), overlap)
         IN  MergeFragments(FlattenSeq([i \in DOMAIN parts |-> HardCut(parts[i], overlap)]))

-----------------------------------------------------------------------------
\* The chunks of a document, the pages one after another.  A chunk's id is
\* its place in the sequence.
ChunkDocument(pages, overlap) ==
    LET ofBlock(b, n) ==
          LET parts == SplitLongText(BlockText(b), overlap)
          IN  [k \in DOMAIN parts |-> [path |-> b.path, page |-> n, text |-> parts[k]]]
        step(acc, n) ==
          LET page == PageBlocks(pages[n], acc.carried)
          IN  [carried |-> page.carried,
               chunks |-> acc.chunks \o FlattenSeq(
                 [i \in DOMAIN page.blocks |-> ofBlock(page.blocks[i], n)])]
    IN  FoldLeftDomain(step, [carried |-> <<>>, chunks |-> <<>>], pages).chunks

-----------------------------------------------------------------------------
(***************************************************************************)
(* What chunking promises of the chunks of a document.                     *)
(***************************************************************************)

InkOf(text) == SelectSeq(text, LAMBDA c : c # White)
InkOfPage(chunks, n) ==
    FlattenSeq([i \in DOMAIN chunks |->
                  IF chunks[i].page = n THEN InkOf(chunks[i].text) ELSE <<>>])
PageInk(lines) == FlattenSeq([i \in DOMAIN lines |-> lines[i].chars])

\* Every character of every page is in a chunk of its page, in the order of
\* the page; and once, unless parts overlap.  An overlap of the whole budget
\* or more is a configuration this does not hold for.
KeepsText(pages, overlap, chunks) ==
    \A n \in DOMAIN pages :
        LET ink == InkOfPage(chunks, n)
            firsts == {i \in DOMAIN ink : \A j \in 1 .. i - 1 : ink[j] # ink[i]}
            order == SelectSeq([i \in DOMAIN ink |-> i], LAMBDA i : i \in firsts)
        IN  /\ [k \in DOMAIN order |-> ink[order[k]]] = PageInk(pages[n])
            /\ overlap = 0 => ink = PageInk(pages[n])

\* No chunk exceeds the budget by more than a floor and the line break before
\* it.
KeepsBudget(chunks) ==
    \A c \in Range(chunks) :
        Len(c.text) <= MaxChars + MinChars + 1

\* The lines of a page whose characters a chunk holds.
LinesOf(chunk, lines) ==
    {i \in DOMAIN lines : Range(lines[i].chars) \cap Range(chunk.text) # {}}

\* The section paths of the lines of a page, each that of the last heading at
\* or before it.
PathsOf(lines, carried) ==
    LET lengths == LogicalLengths(lines)
        path[i \in 0 .. Len(lines)] ==
          IF i = 0 THEN carried
          ELSE LET heading == MatchHeading(lines[i], path[i - 1], lengths[i])
               IN  IF heading = NoHeading THEN path[i - 1] ELSE heading
    IN  path

OpensSection(lines, i) ==
    MatchHeading(lines[i], <<>>, LogicalLengths(lines)[i]) # NoHeading

CarriedInto(pages) ==
    LET carried[n \in 1 .. Len(pages)] ==
          IF n = 1 THEN <<>>
          ELSE PathsOf(pages[n - 1], carried[n - 1])[Len(pages[n - 1])]
    IN  carried

\* A chunk holds no line of a section unrelated to the one it is cited by: a
\* line is of that section or of one that encloses it, and the last is of it.
KeepsSectionsApart(pages, chunks) ==
    LET carried == CarriedInto(pages)
    IN  \A c \in Range(chunks) :
          LET paths == PathsOf(pages[c.page], carried[c.page])
          IN  \A i \in LinesOf(c, pages[c.page]) : IsPrefix(paths[i], c.path)

\* No chunk is headings alone when the body of the last is one block away.
KeepsHeadingsWithBodies(pages, chunks) ==
    LET carried == CarriedInto(pages)
    IN  \A c \in Range(chunks) :
          LET lines == pages[c.page]
              paths == PathsOf(lines, carried[c.page])
              held == LinesOf(c, lines)
              after == {i \in DOMAIN lines : i > Max(held) /\ lines[i].kind # "blank"}
          IN  (\A i \in held : OpensSection(lines, i)) /\ after # {}
              => ~IsDescendant(paths[Min(after)], c.path)

\* Enumerated siblings, (a) and (b) under one section, stay apart.
KeepsSiblingsApart(pages, chunks) ==
    \A c \in Range(chunks) :
        LET lines == pages[c.page]
        IN  \A i, j \in {k \in LinesOf(c, lines) :
                           lines[k].kind = "sub" /\ OpensSection(lines, k)} :
              lines[i].num = lines[j].num

===============================================================================
