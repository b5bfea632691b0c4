-------------------------- MODULE PackageReference --------------------------
(***************************************************************************)
(* Sample documents for PackageExtraction, written as their structure      *)
(* (paragraphs, tables, slides, sheets), with two readings of each: the    *)
(* XML an office program writes for it, and the segments a reader of the   *)
(* document expects, stated on the structure and not on the tags.          *)
(***************************************************************************)
EXTENDS PackageText

\* ---- writing XML ------------------------------------------------------

Opening(name) == TagToken(name, FALSE, FALSE, <<>>)
OpeningWith(name, attrs) == TagToken(name, FALSE, FALSE, attrs)
Closing(name) == TagToken(name, TRUE, FALSE, <<>>)
Empty(name) == TagToken(name, FALSE, TRUE, <<>>)
EmptyWith(name, attrs) == TagToken(name, FALSE, TRUE, attrs)
Element(name, tokens) == <<Opening(name)>> \o tokens \o <<Closing(name)>>
Texts(name, chars) == Element(name, <<TextToken(chars)>>)
Each(sequence, Write(_)) ==
  FlattenSeq([i \in DOMAIN sequence |-> Write(sequence[i])])

\* A paragraph is a sequence of pieces: words (sequences of characters), or the
\* marks <<"TAB">> and <<"BREAK">>.
TheTab == <<"TAB">>
TheBreak == <<"BREAK">>

WordPiece(piece) ==
  CASE piece = TheTab -> <<Empty("tab")>>
    [] piece = TheBreak -> <<Empty("br")>>
    [] OTHER -> Texts("t", piece)

WordParagraph(pieces) == Element("p", Each(pieces, WordPiece))
WordCell(pieces) == Element("tc", WordParagraph(pieces))
WordRow(cells) == Element("tr", Each(cells, WordCell))
WordBlock(block) ==
  IF block.kind = "paragraph" THEN WordParagraph(block.pieces)
  ELSE Element("tbl", Each(block.rows, WordRow))
WordXml(blocks) == Element("document", Each(blocks, WordBlock))

Paragraph(pieces) == [kind |-> "paragraph", pieces |-> pieces, rows |-> <<>>]
Table(rows) == [kind |-> "table", pieces |-> <<>>, rows |-> rows]

OpenPiece(piece) ==
  CASE piece = TheTab -> <<Empty("tab")>>
    [] piece = TheBreak -> <<Empty("line-break")>>
    [] OTHER -> <<TextToken(piece)>>

\* Pretty printed: a line break between two paragraphs.
OpenParagraph(pieces) ==
  Element("p", Each(pieces, OpenPiece)) \o <<TextToken(<<"nl", "sp">>)>>
OpenTextXml(paragraphs) == Element("body", Each(paragraphs, OpenParagraph))
OpenScope(name, scope) ==
  <<OpeningWith(name, [x \in {"name"} |-> scope.name])>>
    \o Each(scope.paragraphs, OpenParagraph) \o <<Closing(name)>>
OpenScopesXml(name, scopes) ==
  Element("body", Each(scopes, LAMBDA scope : OpenScope(name, scope)))

\* ---- reading the structure --------------------------------------------

JoinedWith(parts, separator) ==
  IF parts = <<>> THEN <<>>
  ELSE FoldLeft(LAMBDA out, part : out \o separator \o part,
                parts[1], Tail(parts))

\* The maximal runs of pieces that hold no such mark, in order.
SplitAt(pieces, mark) ==
  LET marks == {0, Len(pieces) + 1} \cup {i \in DOMAIN pieces : pieces[i] = mark}
      place == SetToSortSeq(marks, LAMBDA i, j : i < j)
  IN  [k \in 1..(Len(place) - 1) |->
         SubSeq(pieces, place[k] + 1, place[k + 1] - 1)]

NonEmptyOf(sequence) == SelectSeq(sequence, LAMBDA x : x # <<>>)

\* A line: its words, a tab between them reading as one blank.
LineOf(pieces) ==
  DecodedText(JoinedWith(
    NonEmptyOf([k \in DOMAIN SplitAt(pieces, TheTab) |->
                  FlattenSeq(SplitAt(pieces, TheTab)[k])]),
    <<"sp">>))

LinesOf(pieces) ==
  NonEmptyOf([k \in DOMAIN SplitAt(pieces, TheBreak) |->
                LineOf(SplitAt(pieces, TheBreak)[k])])

\* A text: one line per non-empty line of its paragraphs.
TextOf(paragraphs) ==
  JoinedWith(FlattenSeq([i \in DOMAIN paragraphs |-> LinesOf(paragraphs[i])]),
             <<"nl">>)

CellText(pieces) == JoinedWith(LinesOf(pieces), <<"nl">>)

\* A table: one line per row that has text, a tab after each cell that has some.
TableText(rows) ==
  LET row(cells) ==
        FlattenSeq([j \in DOMAIN cells |->
                      IF CellText(cells[j]) = <<>> THEN <<>>
                      ELSE Append(CellText(cells[j]), "tab")])
  IN  TrimTrailingWhitespace(
        JoinedWith(NonEmptyOf([i \in DOMAIN rows |-> row(rows[i])]), <<"nl">>))

WordTruth(metadata, blocks) ==
  LET paragraphs == SelectSeq(blocks, LAMBDA b : b.kind = "paragraph")
      tables == SelectSeq(blocks, LAMBDA b : b.kind = "table")
      text == TextOf([i \in DOMAIN paragraphs |-> paragraphs[i].pieces])
      all == <<[text |-> metadata, label |-> <<"metadata">>, primary |-> 0],
               [text |-> text, label |-> <<"document">>, primary |-> 0]>>
             \o [i \in DOMAIN tables |->
                   [text |-> TableText(tables[i].rows),
                    label |-> <<"table", i>>, primary |-> i]]
  IN  SelectSeq(all, LAMBDA segment : segment.text # <<>>)

OpenTruth(metadata, text, scopes) ==
  LET all == <<[text |-> metadata, label |-> <<"metadata">>, primary |-> 0],
               [text |-> text, label |-> <<"document">>, primary |-> 0]>>
             \o [i \in DOMAIN scopes |->
                   [text |-> TextOf(scopes[i].paragraphs),
                    label |-> IF scopes[i].name = "" THEN <<"scope", i>>
                              ELSE <<scopes[i].name>>,
                    primary |-> i]]
  IN  SelectSeq(all, LAMBDA segment : segment.text # <<>>)

\* ---- slides -----------------------------------------------------------

\* A slide: its runs and the runs of its notes (none: no notes part).
SlideXml(runs) == Element("sld", Each(runs, LAMBDA run : Texts("t", run)))

SlideTruth(slides) ==
  LET of(runs) == JoinedWith(NonEmptyOf(
                    [k \in DOMAIN runs |-> DecodedText(runs[k])]), <<"nl">>)
      all == FlattenSeq(
               [i \in DOMAIN slides |->
                  <<[text |-> of(slides[i].runs), label |-> <<"slide", i>>,
                     primary |-> i],
                    [text |-> of(slides[i].notes),
                     label |-> <<"slide", i, "notes">>, primary |-> i]>>])
  IN  SelectSeq(all, LAMBDA segment : segment.text # <<>>)

\* ---- sheets -----------------------------------------------------------

\* A cell: how it is stored, its stored value, its formula, and what it shows.
CellXml(cell) ==
  <<OpeningWith("c", [x \in {"t"} |-> cell.type])>>
    \o (IF cell.formula = <<>> THEN <<>> ELSE Texts("f", cell.formula))
    \o (CASE cell.value = <<>> -> <<>>
          [] cell.type = "inlineStr" ->
               Element("is", Texts("t", cell.value))
          [] OTHER -> Texts("v", cell.value))
    \o <<Closing("c")>>
SheetXml(rows) ==
  Element("worksheet",
          Each(rows, LAMBDA row : Element("row", Each(row, CellXml))))

SheetTruth(sheets) ==
  LET shown(row) == JoinedWith(NonEmptyOf(
                      [k \in DOMAIN row |-> row[k].shows]), <<"tab">>)
      of(rows) == JoinedWith(NonEmptyOf(
                    [k \in DOMAIN rows |-> shown(rows[k])]), <<"nl">>)
      all == [i \in DOMAIN sheets |->
                [text |-> of(sheets[i].rows), label |-> sheets[i].label,
                 primary |-> i]]
  IN  SelectSeq(all, LAMBDA segment : segment.text # <<>>)

\* ---- packages ---------------------------------------------------------

\* A well-formed archive of these parts: <<name, tokens>> each, every second one
\* deflated to half its size.
Packed(parts) ==
  LET small(i) == IF i % 2 = 0 THEN (Len(parts[i][2]) + 1) \div 2
                  ELSE Len(parts[i][2])
      method(i) == IF i % 2 = 0 THEN "deflate" ELSE "store"
  IN  [opens |-> TRUE, directory |-> "found", count |-> Len(parts),
       headers |->
         [i \in DOMAIN parts |->
            [signature |-> TRUE, name |-> parts[i][1], whole |-> TRUE,
             compressed |-> small(i), expanded |-> Len(parts[i][2]),
             zip64 |-> FALSE, method |-> method(i), offset |-> i]],
       locals |->
         [i \in DOMAIN parts |->
            [signature |-> TRUE, name |-> parts[i][1],
             payload |-> [deflated |-> i % 2 = 0, compressed |-> small(i),
                          available |-> 1000, content |-> parts[i][2]]]]]
=============================================================================
