----------------------------- MODULE PackageText -----------------------------
(***************************************************************************)
(* What each extractor makes of the XML parts of a package: the loops of   *)
(* docx-, open-, pptx- and xlsx-document-extractor.cpp over the tags of a  *)
(* part.  A part is a sequence of tokens: a text token holds the           *)
(* characters between two tags, a tag token the lower-cased local name,    *)
(* whether it closes or closes itself, and its attributes.  Characters are *)
(* letters and digits, "sp" (blank), "nl" (newline), "tab", and whole      *)
(* entities such as "&amp;".  Each loop is a fold: one step per token.     *)
(*                                                                         *)
(* A part name and a relationship target are sequences of path segments.   *)
(***************************************************************************)
EXTENDS Naturals, Sequences, FiniteSets, SequencesExt, FiniteSetsExt

\* ---- tokens -----------------------------------------------------------

TextToken(chars) ==
  [kind |-> "text", chars |-> chars, name |-> "", closing |-> FALSE,
   self |-> FALSE, attrs |-> <<>>]

TagToken(name, closing, self, attrs) ==
  [kind |-> "tag", chars |-> <<>>, name |-> name, closing |-> closing,
   self |-> self, attrs |-> attrs]

OpensElement(t) == ~t.closing /\ ~t.self

\* attributeValue(...).value_or(""): an absent attribute reads as empty.
AttributeOr(t, attribute, default) ==
  IF attribute \in DOMAIN t.attrs THEN t.attrs[attribute] ELSE default

\* Known entities are replaced, unknown ones stay as they are written.
NamedEntityReplacement(char) ==
  CASE char = "&amp;" -> "&"
    [] char = "&lt;" -> "<"
    [] OTHER -> char

DecodedText(chars) ==
  [i \in DOMAIN chars |-> NamedEntityReplacement(chars[i])]

\* ---- building text ----------------------------------------------------

WhitespaceChars == {"sp", "nl", "tab"}

EndsWith(out, chars) == out # <<>> /\ Last(out) \in chars

DropTrailing(out, chars) ==
  LET kept == {i \in DOMAIN out : out[i] \notin chars}
  IN  SubSeq(out, 1, IF kept = {} THEN 0 ELSE Max(kept))

TrimTrailingWhitespace(out) == DropTrailing(out, WhitespaceChars)

AppendSpace(out) ==
  IF out = <<>> \/ EndsWith(out, {"nl", "sp"}) THEN out ELSE Append(out, "sp")

AppendLineBreak(out) ==
  LET bare == DropTrailing(out, {"sp"})
  IN  IF bare = <<>> \/ EndsWith(bare, {"nl"}) THEN bare
      ELSE Append(bare, "nl")

AppendCellBreak(out) ==
  LET bare == DropTrailing(out, {"sp"})
  IN  IF bare = <<>> \/ EndsWith(bare, {"nl", "tab"}) THEN bare
      ELSE Append(bare, "tab")

AppendDecoded(out, chars) == out \o DecodedText(chars)

\* Blanks of the part, pretty printing included, collapse into one space.
AppendDecodedTrimmed(out, chars) ==
  FoldLeft(LAMBDA o, c : IF c \in WhitespaceChars THEN AppendSpace(o)
                         ELSE Append(o, c),
           out, DecodedText(chars))

\* ---- the text of one element (metadata) -------------------------------

\* Open documents collapse the blanks of a field, Word documents keep them.
AppendField(out, chars, collapsing) ==
  IF collapsing THEN AppendDecodedTrimmed(out, chars) ELSE AppendDecoded(out, chars)

\* Stops at the first closing tag of that name: done is the code's break.
ElementStep(wanted, collapsing, s, t) ==
  CASE s.done -> s
    [] ~s.done /\ t.kind = "text" /\ s.inside ->
         [s EXCEPT !.value = AppendField(@, t.chars, collapsing)]
    [] ~s.done /\ t.kind = "tag" /\ t.name = wanted /\ t.closing ->
         [s EXCEPT !.done = TRUE]
    [] ~s.done /\ t.kind = "tag" /\ t.name = wanted /\ ~t.closing ->
         [s EXCEPT !.inside = ~t.self]
    [] OTHER -> s

FirstElementText(tokens, wanted, collapsing) ==
  TrimTrailingWhitespace(
    FoldLeft(LAMBDA s, t : ElementStep(wanted, collapsing, s, t),
             [value |-> <<>>, inside |-> FALSE, done |-> FALSE],
             tokens).value)

\* One line "label: value" for each field that has a value.
AppendMetadataFields(metadata, tokens, fields, collapsing) ==
  FoldLeft(
    LAMBDA out, field :
      LET value == FirstElementText(tokens, field, collapsing)
      IN  IF value = <<>> THEN out
          ELSE out \o (IF out = <<>> THEN <<>> ELSE <<"nl">>)
                   \o <<field, ":">> \o value,
    metadata, fields)

\* ---- word/document.xml ------------------------------------------------

ActiveTextTarget(s) == IF s.depth = 0 THEN s.document ELSE Last(s.tables)

OnTarget(s, text) ==
  IF s.depth = 0 THEN [s EXCEPT !.document = text]
  ELSE [s EXCEPT !.tables[Len(s.tables)] = text]

TableTag(s, t) ==
  CASE t.closing -> [s EXCEPT !.depth = IF @ > 0 THEN @ - 1 ELSE 0]
    [] OpensElement(t) ->
         [s EXCEPT !.depth = @ + 1,
                   !.tables = IF s.depth = 0 THEN Append(@, <<>>) ELSE @]
    [] OTHER -> s

WordTag(s, t) ==
  LET text == ActiveTextTarget(s) IN
  CASE t.name = "t" -> [s EXCEPT !.inside = OpensElement(t)]
    [] s.inside -> s
    [] ~s.inside /\ t.name = "tbl" -> TableTag(s, t)
    [] ~s.inside /\ t.name = "tab" -> OnTarget(s, AppendSpace(text))
    [] ~s.inside /\ t.name \in {"br", "cr"} -> OnTarget(s, AppendLineBreak(text))
    [] ~s.inside /\ t.name = "tc" /\ t.closing -> OnTarget(s, AppendCellBreak(text))
    [] ~s.inside /\ t.name = "p" /\ t.closing /\ s.depth = 0 ->
         OnTarget(s, AppendLineBreak(text))
    [] ~s.inside /\ t.name = "tr" /\ t.closing -> OnTarget(s, AppendLineBreak(text))
    [] OTHER -> s

WordStep(s, t) ==
  IF t.kind = "tag" THEN WordTag(s, t)
  ELSE IF s.inside THEN OnTarget(s, AppendDecoded(ActiveTextTarget(s), t.chars))
  ELSE s

\* The document's text and one text per outermost table.
VisibleTextFromWordDocumentXml(tokens) ==
  LET s == FoldLeft(WordStep, [document |-> <<>>, tables |-> <<>>,
                               inside |-> FALSE, depth |-> 0], tokens)
  IN  [document |-> TrimTrailingWhitespace(s.document),
       tables |-> [i \in DOMAIN s.tables |->
                     TrimTrailingWhitespace(s.tables[i])]]

\* ---- content.xml ------------------------------------------------------

ScopedElementName(kind) ==
  CASE kind = "ods" -> "table"
    [] kind = "odp" -> "page"
    [] OTHER -> "no scope"

ScopeText(s) == IF s.depth = 0 THEN s.document ELSE s.scoped

OnScope(s, text) ==
  IF s.depth = 0 THEN [s EXCEPT !.document = text] ELSE [s EXCEPT !.scoped = text]

Segment(text, label, primary) ==
  [text |-> text, label |-> label, primary |-> primary]

\* The end of the outermost table or page publishes what it gathered; an empty
\* one only counts.
ScopeEnds(s) ==
  LET text == TrimTrailingWhitespace(s.scoped)
      label == IF s.label = "" THEN <<"scope", s.index + 1>> ELSE <<s.label>>
  IN  [s EXCEPT
        !.depth = 0, !.scoped = <<>>, !.label = "", !.index = @ + 1,
        !.segments = IF text = <<>> THEN @
                     ELSE Append(@, Segment(text, label, s.index + 1))]

ScopeTag(s, t) ==
  CASE t.closing /\ s.depth = 1 -> ScopeEnds(s)
    [] t.closing /\ s.depth > 1 -> [s EXCEPT !.depth = @ - 1]
    [] OpensElement(t) /\ s.depth = 0 ->
         [s EXCEPT !.depth = 1, !.scoped = <<>>,
                   !.label = AttributeOr(t, "name", "")]
    [] OpensElement(t) /\ s.depth > 0 -> [s EXCEPT !.depth = @ + 1]
    [] OTHER -> s

IsParagraphBoundary(name) == name \in {"p", "h", "list-item", "table-row"}

\* Two appended spaces are one: text:s with c="2" is as good as any other.
ContentTag(kind, s, t) ==
  CASE t.name = ScopedElementName(kind) -> ScopeTag(s, t)
    [] t.name # ScopedElementName(kind) /\ t.name \in {"s", "tab"} ->
         OnScope(s, AppendSpace(ScopeText(s)))
    [] t.name # ScopedElementName(kind) /\ t.name = "line-break" ->
         OnScope(s, AppendLineBreak(ScopeText(s)))
    [] /\ t.name # ScopedElementName(kind)
       /\ t.closing
       /\ IsParagraphBoundary(t.name) -> OnScope(s, AppendLineBreak(ScopeText(s)))
    [] OTHER -> s

ContentStep(kind, s, t) ==
  IF t.kind = "tag" THEN ContentTag(kind, s, t)
  ELSE OnScope(s, AppendDecodedTrimmed(ScopeText(s), t.chars))

VisibleTextFromContentXml(kind, tokens) ==
  LET s == FoldLeft(LAMBDA r, t : ContentStep(kind, r, t),
                    [document |-> <<>>, scoped |-> <<>>, label |-> "",
                     depth |-> 0, index |-> 0, segments |-> <<>>], tokens)
  IN  [document |-> TrimTrailingWhitespace(s.document),
       segments |-> s.segments]

\* ---- slides and notes -------------------------------------------------

DrawingStep(s, t) ==
  CASE t.kind = "text" /\ s.inside ->
         [s EXCEPT !.text = AppendDecoded(@, t.chars)]
    [] t.kind = "tag" /\ t.name = "t" /\ t.closing ->
         [text |-> IF s.text = <<>> \/ EndsWith(s.text, {"nl"}) THEN s.text
                   ELSE Append(s.text, "nl"),
          inside |-> FALSE]
    [] t.kind = "tag" /\ t.name = "t" /\ ~t.closing ->
         [s EXCEPT !.inside = ~t.self]
    [] OTHER -> s

VisibleDrawingText(tokens) ==
  TrimTrailingWhitespace(
    FoldLeft(DrawingStep, [text |-> <<>>, inside |-> FALSE], tokens).text)

\* ---- relationships ----------------------------------------------------

JoinedTarget(base, target) ==
  IF target[1] = "/" THEN Tail(target) ELSE base \o target

\* A package target: absolute without its "/", else below the base directory,
\* with "." and ".." resolved.
NormalizedPackageTarget(base, target) ==
  FoldLeft(LAMBDA parts, part :
             CASE part = ".." -> IF parts = <<>> THEN parts ELSE Front(parts)
               [] part \in {"", "."} -> parts
               [] OTHER -> Append(parts, part),
           <<>>, IF target[1] = "/" THEN Tail(target) ELSE base \o target)

\* A workbook's targets are not resolved.
NormalizedRelationshipTarget(target) ==
  CASE target[1] = "/" -> Tail(target)
    [] target[1] = "xl" /\ Len(target) > 1 -> target
    [] OTHER -> <<"xl">> \o target

IsRelationshipTag(t) ==
  /\ t.kind = "tag"
  /\ ~t.closing
  /\ t.name = "relationship"
  /\ AttributeOr(t, "id", "") # ""
  /\ AttributeOr(t, "target", <<>>) # <<>>

PackageRelationships(tokens, base) ==
  LET usable == SelectSeq(tokens, LAMBDA t : IsRelationshipTag(t)
                                             /\ AttributeOr(t, "type", "") # "")
  IN  [i \in DOMAIN usable |->
         [id |-> usable[i].attrs["id"], type |-> usable[i].attrs["type"],
          target |-> NormalizedPackageTarget(base, usable[i].attrs["target"])]]

WorkbookRelationships(tokens) ==
  LET usable == SelectSeq(tokens, LAMBDA t : IsRelationshipTag(t)
                            /\ AttributeOr(t, "type", "") = "worksheet")
  IN  [i \in DOMAIN usable |->
         [id |-> usable[i].attrs["id"],
          target |-> NormalizedRelationshipTarget(usable[i].attrs["target"])]]

\* The relationship ids of the slides, in presentation order.
PresentationSlides(tokens) ==
  LET usable == SelectSeq(tokens, LAMBDA t : /\ t.kind = "tag"
                                             /\ ~t.closing
                                             /\ t.name = "sldid"
                                             /\ AttributeOr(t, "r:id", "") # "")
  IN  [i \in DOMAIN usable |-> usable[i].attrs["r:id"]]

WorkbookSheets(tokens) ==
  LET usable == SelectSeq(tokens, LAMBDA t : /\ t.kind = "tag"
                                             /\ ~t.closing
                                             /\ t.name = "sheet"
                                             /\ AttributeOr(t, "name", "") # "")
  IN  [i \in DOMAIN usable |->
         [name |-> usable[i].attrs["name"],
          id |-> AttributeOr(usable[i], "r:id", "")]]

\* ---- shared strings and worksheets ------------------------------------

SharedStringStep(s, t) ==
  CASE t.kind = "text" /\ s.inside ->
         [s EXCEPT !.current = AppendDecoded(@, t.chars)]
    [] t.kind = "tag" /\ t.name = "si" /\ t.closing ->
         [s EXCEPT !.values = Append(@, TrimTrailingWhitespace(s.current)),
                   !.current = <<>>, !.item = FALSE]
    [] t.kind = "tag" /\ t.name = "si" /\ ~t.closing ->
         [s EXCEPT !.item = TRUE]
    [] t.kind = "tag" /\ t.name = "t" /\ s.item ->
         [s EXCEPT !.inside = OpensElement(t)]
    [] OTHER -> s

SharedStrings(tokens) ==
  FoldLeft(SharedStringStep, [values |-> <<>>, current |-> <<>>,
                              item |-> FALSE, inside |-> FALSE], tokens).values

CellDigits == <<"0", "1", "2">>

\* parseSize on one digit; anything else is no index.
SharedStringAt(values, raw) ==
  LET index == {i \in DOMAIN values : raw = <<CellDigits[i]>>}
  IN  IF index = {} THEN <<>> ELSE values[Max(index)]

ResolveCellValue(type, rawValue, formulaValue, values) ==
  LET raw == TrimTrailingWhitespace(rawValue)
      formula == TrimTrailingWhitespace(formulaValue)
  IN  CASE type = "b" /\ raw = <<"1">> -> <<"TRUE">>
        [] type = "b" /\ raw = <<"0">> -> <<"FALSE">>
        [] type = "s" -> SharedStringAt(values, raw)
        [] type \in {"str", "inlineStr", "d", "e"} -> raw
        [] /\ ~(type = "b" /\ raw \in {<<"0">>, <<"1">>})
           /\ type \notin {"s", "str", "inlineStr", "d", "e"} ->
             IF formula = <<>> THEN raw
             ELSE IF raw = <<>> THEN formula
             ELSE formula \o <<"=">> \o raw

AppendCellValue(row, value) ==
  LET trimmed == TrimTrailingWhitespace(value)
  IN  IF trimmed = <<>> THEN row ELSE Append(row, trimmed)

AppendRow(sheet, row) ==
  IF row = <<>> THEN sheet
  ELSE sheet \o (IF sheet = <<>> THEN <<>> ELSE <<"nl">>)
             \o FoldLeft(LAMBDA line, value : line \o <<"tab">> \o value,
                         row[1], Tail(row))

CellTag(s, t, values) ==
  [s EXCEPT
    !.row = IF t.closing
              THEN AppendCellValue(@, ResolveCellValue(s.type, s.value,
                                                       s.formula, values))
              ELSE @,
    !.type = IF t.closing THEN "" ELSE AttributeOr(t, "t", ""),
    !.value = <<>>, !.formula = <<>>]

WorksheetTag(s, t, values) ==
  CASE t.name = "row" /\ t.closing ->
         [s EXCEPT !.sheet = AppendRow(@, s.row), !.row = <<>>,
                   !.inRow = FALSE]
    [] t.name = "row" /\ ~t.closing -> [s EXCEPT !.inRow = TRUE]
    [] s.inRow /\ t.name = "c" -> CellTag(s, t, values)
    [] s.inRow /\ t.name = "v" -> [s EXCEPT !.inValue = OpensElement(t)]
    [] s.inRow /\ t.name = "f" -> [s EXCEPT !.inFormula = OpensElement(t)]
    [] s.inRow /\ t.name = "t" -> [s EXCEPT !.inInline = OpensElement(t)]
    [] OTHER -> s

WorksheetStep(values, s, t) ==
  CASE t.kind = "tag" -> WorksheetTag(s, t, values)
    [] t.kind = "text" /\ s.inFormula ->
         [s EXCEPT !.formula = AppendDecoded(@, t.chars)]
    [] t.kind = "text" /\ ~s.inFormula /\ (s.inValue \/ s.inInline) ->
         [s EXCEPT !.value = AppendDecoded(@, t.chars)]
    [] OTHER -> s

WorksheetText(tokens, values) ==
  TrimTrailingWhitespace(
    FoldLeft(LAMBDA s, t : WorksheetStep(values, s, t),
             [sheet |-> <<>>, row |-> <<>>, type |-> "", value |-> <<>>,
              formula |-> <<>>, inRow |-> FALSE, inValue |-> FALSE,
              inFormula |-> FALSE, inInline |-> FALSE], tokens).sheet)
=============================================================================
