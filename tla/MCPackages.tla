----------------------------- MODULE MCPackages -----------------------------
(***************************************************************************)
(* The sample packages and damaged archives of the extraction runs.        *)
(***************************************************************************)
EXTENDS PackageReference

Unlimited == [maximumBytes |-> 0, maximumSegments |-> 0]
Limited(bytes, segments) ==
  [maximumBytes |-> bytes, maximumSegments |-> segments]

MCDefaultLimits ==
  [entryBytes |-> 80, archiveBytes |-> 150, entries |-> 6, depth |-> 5,
   ratio |-> 10]

Sample(format, archive, options, truth, outcome) ==
  [format |-> format, archive |-> archive, options |-> options,
   truth |-> truth, outcome |-> outcome]

\* ---- word -------------------------------------------------------------

MainName == <<"word", "document.xml">>
CoreXml == Element("coreproperties",
                   Texts("title", <<"T", "&amp;">>) \o <<Empty("subject")>>
                     \o Texts("creator", <<"C", "sp">>))
CorePart == <<<<"docProps", "core.xml">>, CoreXml>>
AppPart == <<<<"docProps", "app.xml">>, Texts("company", <<"M">>)>>
CoreText == <<"title", ":", "T", "&", "nl", "creator", ":", "C">>
AppText == <<"company", ":", "M">>

Words == <<Paragraph(<<<<"a">>, TheTab, <<"b", "&lt;">>, TheTab>>),
           Table(<<<<<<>>, <<<<"c">>>>>>,
                   <<<<<<"d">>, TheBreak, <<"e">>>>, <<<<"f">>>>>>>>),
           Paragraph(<<TheBreak>>),
           Table(<<<<<<>>>>>>),
           Paragraph(<<<<"g">>, TheBreak, <<"h">>>>)>>
WordArchive == Packed(<<CorePart, <<MainName, WordXml(Words)>>, AppPart>>)
WordMetadata == CoreText \o <<"nl">> \o AppText

\* A table within a cell belongs to the outer table.
Nested == Element("tbl", Element("tr", Element("tc",
            Element("tbl", Element("tr", WordCell(<<<<"a">>>>)))
            \o WordParagraph(<<<<"b">>>>))))
NestedTruth == <<[text |-> <<"a", "tab", "nl", "b">>,
                  label |-> <<"table", 1>>, primary |-> 1]>>

TotalOf(segments) ==
  FoldLeft(LAMBDA total, segment : total + Len(segment.text), 0, segments)

WordSamples ==
  LET truth == WordTruth(WordMetadata, Words)
      bytes == TotalOf(truth)
  IN  {Sample("docx", WordArchive, Unlimited, truth, "completed"),
       Sample("docx", WordArchive, Limited(0, 3), truth, "completed"),
       Sample("docx", WordArchive, Limited(0, 2), truth,
              "safetyLimitExceeded"),
       Sample("docx", WordArchive, Limited(bytes, 0), truth, "completed"),
       Sample("docx", WordArchive, Limited(bytes - 1, 0), truth,
              "safetyLimitExceeded"),
       Sample("docx", WordArchive, Limited(4, 0), truth,
              "safetyLimitExceeded"),
       Sample("docx", Packed(<<<<MainName, Nested>>>>), Unlimited, NestedTruth,
              "completed"),
       Sample("docx", Packed(<<CorePart>>), Unlimited, <<>>, "parserFailed")}

\* ---- damaged archives -------------------------------------------------

Header(archive, i, changed) ==
  [archive EXCEPT !.headers[i] = changed @@ @]

Damaged ==
  {<<[WordArchive EXCEPT !.opens = FALSE], "openFailed">>,
   <<[WordArchive EXCEPT !.directory = "zip64"], "safetyLimitExceeded">>,
   <<[WordArchive EXCEPT !.directory = "outside"], "parserFailed">>,
   <<[WordArchive EXCEPT !.count = 4], "parserFailed">>,
   <<[WordArchive EXCEPT !.count = 2], "parserFailed">>,
   <<Header(WordArchive, 1, "signature" :> FALSE), "parserFailed">>,
   <<Header(WordArchive, 2, "name" :> <<"..", "x">>), "safetyLimitExceeded">>,
   <<Header(WordArchive, 1, "method" :> "bzip2"), "safetyLimitExceeded">>,
   <<Header(WordArchive, 2, "compressed" :> 0), "safetyLimitExceeded">>,
   <<Header(WordArchive, 2, "expanded" :> 81), "safetyLimitExceeded">>,
   <<Header(WordArchive, 2, "expanded" :> 80), "parserFailed">>,
   <<Header(WordArchive, 3, "expanded" :> 4), "parserFailed">>,
   <<Header(WordArchive, 2, "offset" :> 3), "parserFailed">>,
   <<Header(WordArchive, 2, "offset" :> 9), "readFailed">>,
   <<Header(WordArchive, 3, "compressed" :> 2000 @@ "expanded" :> 4),
     "readFailed">>}

\* A damaged archive may still give its intact first parts, never other text.
DamagedSamples ==
  {Sample("docx", damaged[1], Unlimited, WordTruth(WordMetadata, Words),
          damaged[2]) : damaged \in Damaged}

\* ---- OpenDocument -----------------------------------------------------

MetaPart == <<<<"meta.xml">>, Texts("title", <<"T", "nl", "sp", "U">>)>>
MetaText == <<"title", ":", "T", "sp", "U">>
Paragraphs == <<<<<<"a">>, TheTab, <<"b">>>>, <<TheTab>>,
                <<<<"c">>, TheBreak, <<"d", "&amp;">>>>>>
Scopes == <<[name |-> "S", paragraphs |-> Paragraphs],
            [name |-> "", paragraphs |-> <<<<>>>>],
            [name |-> "", paragraphs |-> <<<<<<"e">>>>>>]>>

OpenPackage(content) == Packed(<<<<<<"content.xml">>, content>>, MetaPart>>)

OpenSamples ==
  {Sample("odt", OpenPackage(OpenTextXml(Paragraphs)), Unlimited,
          OpenTruth(MetaText, TextOf(Paragraphs), <<>>), "completed"),
   Sample("ods", OpenPackage(OpenScopesXml("table", Scopes)), Unlimited,
          OpenTruth(MetaText, <<>>, Scopes), "completed"),
   Sample("odp", OpenPackage(OpenScopesXml("page", Scopes)), Limited(0, 2),
          OpenTruth(MetaText, <<>>, Scopes), "safetyLimitExceeded"),
   Sample("ods", OpenPackage(OpenScopesXml("table", Scopes)), Limited(10, 0),
          OpenTruth(MetaText, <<>>, Scopes), "safetyLimitExceeded"),
   Sample("odt", Packed(<<MetaPart>>), Unlimited, <<>>, "parserFailed")}

\* ---- slides -----------------------------------------------------------

SlideName(file) == <<"ppt", "slides", file>>
Related(id, type, target) ==
  EmptyWith("relationship",
            [id |-> id, type |-> type, target |-> target])
PresentationPart(ids) ==
  <<<<"ppt", "presentation.xml">>,
    [i \in DOMAIN ids |-> EmptyWith("sldid", [x \in {"r:id"} |-> ids[i]])]>>
PresentationRels ==
  <<<<"ppt", "_rels", "presentation.xml.rels">>,
    <<Related("r0", "theme", <<"theme.xml">>),
      Related("r1", "slide", <<"slides", "s1.xml">>),
      Related("r2", "slide", <<"/", "ppt", "slides", "s2.xml">>)>>>>
Slide1 == [runs |-> <<<<"a">>, <<"b">>>>, notes |-> <<<<"n">>>>]
Slide2 == [runs |-> <<<<"c">>, <<>>>>, notes |-> <<>>]
SlideParts ==
  <<<<SlideName("s1.xml"), SlideXml(Slide1.runs)>>,
    <<SlideName("s2.xml"), SlideXml(Slide2.runs)>>,
    <<<<"ppt", "slides", "_rels", "s1.xml", ".rels">>,
      <<Related("n", "notesSlide", <<"..", "notesSlides", "n1.xml">>)>>>>,
    <<<<"ppt", "notesSlides", "n1.xml">>, SlideXml(Slide1.notes)>>>>

SlideSamples ==
  {Sample("pptx",
          Packed(<<PresentationPart(<<"r2", "r1">>), PresentationRels>>
                   \o SlideParts),
          Unlimited, SlideTruth(<<Slide2, Slide1>>), "completed"),
   Sample("pptx", Packed(SlideParts), Unlimited,
          SlideTruth(<<Slide1, Slide2>>), "completed"),
   Sample("pptx", Packed(SlideParts), Limited(0, 2),
          SlideTruth(<<Slide1, Slide2>>), "safetyLimitExceeded"),
   Sample("pptx",
          Packed(<<PresentationPart(<<"r1", "r0">>), PresentationRels>>
                   \o SlideParts),
          Unlimited, <<>>, "parserFailed")}

\* ---- workbooks --------------------------------------------------------

SheetName(file) == <<"xl", "worksheets", file>>
Cell(type, value, formula, shows) ==
  [type |-> type, value |-> value, formula |-> formula, shows |-> shows]
StringsPart == <<<<"xl", "sharedStrings.xml">>,
                 Each(<<<<"p">>, <<"q", "sp">>>>,
                      LAMBDA chars : Element("si", Texts("t", chars)))>>
Rows1 == <<<<Cell("s", <<"1">>, <<>>, <<"q">>), Cell("", <<>>, <<>>, <<>>),
             Cell("b", <<"0">>, <<>>, <<"FALSE">>)>>>>
Rows2 == <<<<Cell("", <<"7">>, <<"F">>, <<"F", "=", "7">>)>>,
           <<Cell("s", <<"2">>, <<>>, <<>>)>>,
           <<Cell("inlineStr", <<"i", "&amp;">>, <<>>, <<"i", "&">>)>>>>
SheetParts == <<StringsPart, <<SheetName("s1.xml"), SheetXml(Rows1)>>,
                <<SheetName("s2.xml"), SheetXml(Rows2)>>>>
WorkbookPart(ids) ==
  <<<<"xl", "workbook.xml">>,
    [i \in DOMAIN ids |->
       EmptyWith("sheet", [x \in {"name", "r:id"} |->
                             IF x = "name" THEN "Sheet" ELSE ids[i]])]>>
WorkbookRels ==
  <<<<"xl", "_rels", "workbook.xml.rels">>,
    <<Related("r1", "worksheet", <<"worksheets", "s1.xml">>),
      Related("r2", "worksheet", <<"/", "xl", "worksheets", "s2.xml">>),
      Related("r3", "chartsheet", <<"chartsheets", "c.xml">>)>>>>
Listed(ids) == Packed(<<WorkbookPart(ids), WorkbookRels>> \o SheetParts)
Labelled(label, rows) == [label |-> label, rows |-> rows]

SheetSamples ==
  {Sample("xlsx", Listed(<<"r2", "r1">>), Unlimited,
          SheetTruth(<<Labelled(<<"Sheet">>, Rows2),
                       Labelled(<<"Sheet">>, Rows1)>>), "completed"),
   Sample("xlsx", Packed(SheetParts), Unlimited,
          SheetTruth(<<Labelled(<<"sheet", 1>>, Rows1),
                       Labelled(<<"sheet", 2>>, Rows2)>>), "completed"),
   Sample("xlsx", Packed(Append(SheetParts, <<SheetName("s1.xml"), SheetXml(Rows2)>>)),
          Unlimited,
          SheetTruth(<<Labelled(<<"sheet", 1>>, Rows1), Labelled(<<"sheet", 2>>, Rows2),
                       Labelled(<<"sheet", 3>>, Rows2)>>), "completed"),
   Sample("xlsx", Packed(SheetParts), Limited(0, 1),
          SheetTruth(<<Labelled(<<"sheet", 1>>, Rows1),
                       Labelled(<<"sheet", 2>>, Rows2)>>),
          "safetyLimitExceeded"),
   Sample("xlsx", Listed(<<"r1", "r3">>), Unlimited, <<>>, "parserFailed"),
   Sample("xlsx", Packed(<<StringsPart>>), Unlimited, <<>>, "parserFailed")}

MCPackageNameOrder ==
  <<SlideName("s1.xml"), SlideName("s2.xml"),
    SheetName("s1.xml"), SheetName("s2.xml")>>

MCPackageDocuments ==
  WordSamples \cup DamagedSamples \cup OpenSamples \cup SlideSamples
    \cup SheetSamples

\* What another program may leave at the path: a shorter document, or nothing.
MCOtherArchives ==
  {Packed(<<CorePart, <<MainName, WordXml(<<Paragraph(<<<<"z">>>>)>>)>>>>),
   [WordArchive EXCEPT !.opens = FALSE]}
=============================================================================
