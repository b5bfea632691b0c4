-------------------------- MODULE PackageExtraction --------------------------
(***************************************************************************)
(* One extraction of a ZIP-backed document (docx, odt/ods/odp, pptx, xlsx):*)
(* the catalog, the parts the format asks for one by one, the text, and    *)
(* the segments handed to the sink.  The package is opened again for every *)
(* part, so another program may replace it between two reads; a stop may   *)
(* be requested at any time, also while a part is being turned into text.  *)
(*                                                                         *)
(*   package     the archive now at the path                               *)
(*   job         the extraction: the document asked for, the phase, the    *)
(*              catalog, the parts read so far, the text made of them, the *)
(*              status (summary.status)                                    *)
(*   handedOver  the segments the sink took                                *)
(*   stopAsked   the stop token                                            *)
(***************************************************************************)
EXTENDS ZipArchive, PackageText

CONSTANTS
  PackageDocuments,   \* records: format, archive, options, truth, outcome
  OtherArchives,      \* archives that may replace the one being read
  PackageNameOrder,   \* names of the slide and sheet parts, in byte order
  XmlSafetyMultiplier,\* expanded bytes allowed per byte of text (16)
  DefaultLimits       \* RichFormatSafetyLimits{}

VARIABLES package, job, handedOver, stopAsked

packageVars == <<package, job, handedOver, stopAsked>>

NoJob == [phase |-> "idle", status |-> "completed", document |-> <<>>,
          entries |-> <<>>, parts |-> <<>>, queue |-> <<>>, index |-> 0,
          segments |-> <<>>, replaced |-> FALSE]

PackageInit ==
  /\ package = <<>>
  /\ job = NoJob
  /\ handedOver = <<>>
  /\ stopAsked = FALSE

Format == job.document.format
Options == job.document.options

\* ---- limits -----------------------------------------------------------

\* ooxmlSafetyLimits / openDocumentSafetyLimits: a limit on the text limits the
\* XML too, four parts' worth (eight for workbooks and presentations) in all.
SafetyLimits ==
  LET scaled == Min({DefaultLimits.entryBytes,
                     Options.maximumBytes * XmlSafetyMultiplier})
      parts == IF Format \in {"pptx", "xlsx"} THEN 8 ELSE 4
  IN  IF Options.maximumBytes = 0 THEN DefaultLimits
      ELSE [DefaultLimits EXCEPT !.entryBytes = scaled,
                                 !.archiveBytes = Min({@, scaled * parts})]

WouldExceedByteLimit(bytes) ==
  Options.maximumBytes > 0 /\ bytes > Options.maximumBytes

WouldExceedSegmentLimit(count) ==
  Options.maximumSegments > 0 /\ count > Options.maximumSegments

StatusFromZipStatus(status) ==
  CASE status \in {"completed", "cancelled", "openFailed", "readFailed"} ->
         status
    [] status \in {"safetyLimitExceeded", "unsafeEntryName",
                   "unsupportedCompressionMethod", "unsupportedZip64"} ->
         "safetyLimitExceeded"
    [] OTHER -> "parserFailed"

\* ---- phases -----------------------------------------------------------

\* The parts each format reads before its text: <<part, name, needed>>.
WordParts ==
  <<<<"core", <<"docProps", "core.xml">>, FALSE>>,
    <<"app", <<"docProps", "app.xml">>, FALSE>>,
    <<"main", <<"word", "document.xml">>, TRUE>>>>

OpenDocumentParts ==
  <<<<"meta", <<"meta.xml">>, FALSE>>, <<"main", <<"content.xml">>, TRUE>>>>

PresentationParts ==
  <<<<"main", <<"ppt", "presentation.xml">>, FALSE>>,
    <<"rels", <<"ppt", "_rels", "presentation.xml.rels">>, FALSE>>>>

WorkbookParts ==
  <<<<"shared", <<"xl", "sharedStrings.xml">>, FALSE>>,
    <<"main", <<"xl", "workbook.xml">>, FALSE>>,
    <<"rels", <<"xl", "_rels", "workbook.xml.rels">>, FALSE>>>>

FirstParts ==
  CASE Format = "docx" -> WordParts
    [] Format \in {"odt", "ods", "odp"} -> OpenDocumentParts
    [] Format = "pptx" -> PresentationParts
    [] Format = "xlsx" -> WorkbookParts

TheEntry(found) == CHOOSE entry \in found : TRUE

PartTokens(part) ==
  IF part \in DOMAIN job.parts THEN job.parts[part] ELSE <<>>

Ended(status) ==
  job' = [job EXCEPT !.phase = "done", !.status = status]

\* ---- beginning --------------------------------------------------------

Begin(document) ==
  /\ job.phase = "idle"
  /\ package' = document.archive
  /\ job' = [NoJob EXCEPT !.phase = "catalog", !.document = document]
  /\ handedOver' = <<>>
  /\ UNCHANGED stopAsked

ReadTheCatalog ==
  LET catalog == ReadCatalog(package, SafetyLimits, stopAsked)
  IN  /\ job.phase = "catalog"
      /\ IF catalog.status = "completed"
           THEN job' = [job EXCEPT !.phase = "parts", !.index = 1,
                                   !.entries = catalog.entries]
           ELSE Ended(StatusFromZipStatus(catalog.status))
      /\ UNCHANGED <<package, handedOver, stopAsked>>

\* ---- order of slides and sheets ---------------------------------------

\* The entries of a directory, sorted by name; a name that comes twice is listed
\* twice.
EntriesBelow(directory) ==
  FlattenSeq([i \in DOMAIN PackageNameOrder |->
    SelectSeq(job.entries,
              LAMBDA entry : /\ entry.rawName = PackageNameOrder[i]
                             /\ SubSeq(entry.rawName, 1, 2) = directory)])

\* The first relationship of that id, if there is one.
LinkedBy(relationships, id) ==
  LET same == SelectSeq(relationships, LAMBDA r : r.id = id)
  IN  IF same = <<>> THEN {} ELSE {same[1]}

\* A presentation that lists slides is followed, and refused when one of them
\* cannot be found; without a list the slide parts are taken in name order.
OrderedSlideEntries(tokens, rels) ==
  LET ids == PresentationSlides(tokens)
      all == PackageRelationships(rels, <<"ppt">>)
      found(id) == {r \in LinkedBy(all, id) :
                      r.type = "slide" /\ FindEntry(job.entries, r.target) # {}}
  IN  IF ids = <<>> THEN EntriesBelow(<<"ppt", "slides">>)
      ELSE IF \E i \in DOMAIN ids : found(ids[i]) = {} THEN <<>>
      ELSE [i \in DOMAIN ids |->
              TheEntry(UNION {FindEntry(job.entries, r.target) : r \in found(ids[i])})]

WorksheetEntries == EntriesBelow(<<"xl", "worksheets">>)

\* The sheets the workbook lists, each with the part it leads to, if any.
WorkbookOrder(sheets, relationships) ==
  [i \in DOMAIN sheets |->
     [part |-> UNION {FindEntry(WorksheetEntries, r.target) :
                        r \in LinkedBy(relationships, sheets[i].id)},
      label |-> sheets[i].name]]

\* Without sheets or relationships: every worksheet, in name order, labelled with
\* the workbook's name at the same place if there is one.
NameOrder(sheets) ==
  [i \in DOMAIN WorksheetEntries |->
     [part |-> {WorksheetEntries[i]},
      label |-> IF i \in DOMAIN sheets THEN sheets[i].name ELSE ""]]

\* The workbook and its relationships both say something.
WorkbookListed(parts) ==
  LET part(p) == IF p \in DOMAIN parts THEN parts[p] ELSE <<>>
  IN  /\ WorkbookSheets(part("main")) # <<>>
      /\ WorkbookRelationships(part("rels")) # <<>>

\* ---- parts ------------------------------------------------------------

\* What follows the last of the first parts: the text, or the slides or sheets in
\* their order.  No slide, or no worksheet part at all, is a broken package.
AfterFirstParts(parts) ==
  LET part(p) == IF p \in DOMAIN parts THEN parts[p] ELSE <<>>
      sheets == WorkbookSheets(part("main"))
      order == CASE Format = "pptx" ->
                      OrderedSlideEntries(part("main"), part("rels"))
                 [] Format = "xlsx" /\ WorksheetEntries = <<>> -> <<>>
                 [] /\ Format = "xlsx"
                    /\ WorksheetEntries # <<>>
                    /\ WorkbookListed(parts) ->
                      WorkbookOrder(sheets, WorkbookRelationships(part("rels")))
                 [] /\ Format = "xlsx"
                    /\ WorksheetEntries # <<>>
                    /\ ~WorkbookListed(parts) -> NameOrder(sheets)
                 [] OTHER -> <<>>
      refused == Format \in {"pptx", "xlsx"} /\ order = <<>>
  IN  [job EXCEPT
        !.parts = parts, !.queue = order, !.index = 1,
        !.phase = CASE Format \in {"docx", "odt", "ods", "odp"} -> "text"
                    [] Format = "pptx" /\ ~refused -> "slide"
                    [] Format = "xlsx" /\ ~refused -> "sheet"
                    [] OTHER -> "done",
        !.status = IF refused THEN "parserFailed" ELSE @]

\* The entry found, read as the archive is now.
ReadFound(entry) ==
  ReadEntry(package, TheEntry(entry), SafetyLimits, stopAsked)

\* The next of the first parts: read, absent and optional, or the end.  After
\* the metadata of a docx the stop token is looked at once more.
ReadPart ==
  LET wanted == FirstParts[job.index]
      part == wanted[1]
      entry == FindEntry(job.entries, wanted[2])
      read == ReadFound(entry)
      parts == IF entry = {} THEN job.parts
               ELSE (part :> read.content) @@ job.parts
  IN  /\ job.phase = "parts"
      /\ CASE entry = {} /\ wanted[3] ->
                Ended(IF Format = "docx" /\ stopAsked THEN "cancelled"
                      ELSE "parserFailed")
           [] entry # {} /\ read.status # "completed" ->
                Ended(StatusFromZipStatus(read.status))
           [] OTHER ->
                job' = IF job.index < Len(FirstParts)
                         THEN [job EXCEPT !.parts = parts, !.index = @ + 1]
                         ELSE AfterFirstParts(parts)
      /\ UNCHANGED <<package, handedOver, stopAsked>>

\* ---- text -------------------------------------------------------------

CoreFields == <<"title", "subject", "creator">>
AppFields == <<"company", "manager">>

WordMetadataText ==
  AppendMetadataFields(
    AppendMetadataFields(<<>>, PartTokens("core"), CoreFields, FALSE),
    PartTokens("app"), AppFields, FALSE)

OpenDocumentMetadataText ==
  AppendMetadataFields(<<>>, PartTokens("meta"), CoreFields, TRUE)

NonEmptySegments(segments) ==
  SelectSeq(segments, LAMBDA segment : segment.text # <<>>)

WordSegments(tokens) ==
  LET visible == VisibleTextFromWordDocumentXml(tokens)
  IN  NonEmptySegments(
        <<Segment(WordMetadataText, <<"metadata">>, 0),
          Segment(visible.document, <<"document">>, 0)>>
        \o [i \in DOMAIN visible.tables |->
              Segment(visible.tables[i], <<"table", i>>, i)])

OpenDocumentSegments(tokens) ==
  LET visible == VisibleTextFromContentXml(Format, tokens)
  IN  NonEmptySegments(<<Segment(OpenDocumentMetadataText, <<"metadata">>, 0),
                         Segment(visible.document, <<"document">>, 0)>>)
      \o visible.segments

TotalBytes(segments) ==
  FoldLeft(LAMBDA total, segment : total + Len(segment.text), 0, segments)

\* A docx is refused as a whole before anything is handed over.
WordLimitExceeded(segments) ==
  \/ WouldExceedByteLimit(TotalBytes(segments))
  \/ WouldExceedSegmentLimit(Len(segments))

MakeText ==
  LET tokens == PartTokens("main")
      segments == IF Format = "docx" THEN WordSegments(tokens)
                  ELSE OpenDocumentSegments(tokens)
  IN  /\ job.phase = "text"
      /\ IF stopAsked THEN Ended("cancelled")
         ELSE IF Format = "docx" /\ WordLimitExceeded(segments)
                THEN Ended("safetyLimitExceeded")
         ELSE job' = [job EXCEPT !.phase = "publish", !.segments = segments]
      /\ UNCHANGED <<package, handedOver, stopAsked>>

\* ---- slides and sheets ------------------------------------------------

NotesTarget(tokens) ==
  LET usable == SelectSeq(PackageRelationships(tokens, <<"ppt", "slides">>),
                          LAMBDA r : /\ r.type = "notesSlide"
                                     /\ SubSeq(r.target, 1, 2)
                                          = <<"ppt", "notesSlides">>)
  IN  IF usable = <<>> THEN {} ELSE {usable[1].target}

SlideRelationshipPath(name) ==
  IF SubSeq(name, 1, 2) = <<"ppt", "slides">> /\ Len(name) > 2
    THEN <<"ppt", "slides", "_rels">> \o SubSeq(name, 3, Len(name))
           \o <<".rels">>
    ELSE <<>>

\* What the loop over a part sees of it: all of it, or, if a stop arrives in the
\* middle, the tokens up to some tag.  The loop leaves its text as it is then, and
\* only some of its callers look at the stop token again.
Walks(tokens, stops) ==
  IF stops
    THEN {SubSeq(tokens, 1, n) :
            n \in {m \in DOMAIN tokens : tokens[m].kind = "tag"} \cup {0}}
    ELSE {tokens}

\* readSlideText, first half: the slide itself.
ReadSlide(stops) ==
  LET read == ReadFound({job.queue[job.index]})
  IN  /\ job.phase = "slide"
      /\ \/ /\ read.status # "completed"
            /\ ~stops
            /\ Ended(StatusFromZipStatus(read.status))
         \/ /\ read.status = "completed"
            /\ \E walk \in Walks(read.content, stops) :
                 job' = [job EXCEPT
                           !.phase = "notes",
                           !.parts = ("slide" :> VisibleDrawingText(walk)) @@ @]
      /\ stopAsked' = (stopAsked \/ stops)
      /\ UNCHANGED <<package, handedOver>>

\* What is handed over of one slide: its text, then its notes.
SlideSegments(notes) ==
  NonEmptySegments(<<Segment(job.parts["slide"], <<"slide", job.index>>,
                             job.index),
                     Segment(notes, <<"slide", job.index, "notes">>,
                             job.index)>>)

\* readSlideText, second half: the notes the slide's relationships lead to.  A
\* slide without any is handed over without a look at the stop token.
ReadNotes(stops) ==
  LET link == FindEntry(job.entries,
                        SlideRelationshipPath(job.queue[job.index].rawName))
      linkRead == IF link = {} THEN [status |-> "completed", content |-> <<>>]
                  ELSE ReadFound(link)
      notes == UNION {FindEntry(job.entries, target) :
                        target \in NotesTarget(linkRead.content)}
      read == IF notes = {} THEN linkRead
              ELSE ReadFound(notes)
      tokens == IF notes = {} THEN <<>> ELSE read.content
  IN  /\ job.phase = "notes"
      /\ \/ /\ read.status # "completed"
            /\ ~stops
            /\ Ended(StatusFromZipStatus(read.status))
         \/ /\ read.status = "completed"
            /\ stops => notes # {}
            /\ \E walk \in Walks(tokens, stops) :
                 job' = [job EXCEPT
                           !.phase = "publish",
                           !.segments = SlideSegments(VisibleDrawingText(walk))]
      /\ stopAsked' = (stopAsked \/ stops)
      /\ UNCHANGED <<package, handedOver>>

SheetLabel(index) ==
  IF job.queue[index].label = "" THEN <<"sheet", index>>
  ELSE <<job.queue[index].label>>

\* The place of the next sheet, or the end of the loop: a listed sheet without a
\* part makes the workbook a broken one.
AfterSheet(segments) ==
  CASE job.index < Len(job.queue) ->
         [job EXCEPT !.segments = segments, !.index = @ + 1]
    [] /\ job.index = Len(job.queue)
       /\ Len(segments) = Len(job.queue) ->
         [job EXCEPT !.segments = segments, !.phase = "publish"]
    [] OTHER -> [job EXCEPT !.status = "parserFailed", !.phase = "done"]

\* The worksheets are all read before the first one is handed over.  The listed ones
\* are read under the default limits, the others under the scaled ones.
ReadSheet(stops) ==
  LET limits == IF WorkbookListed(job.parts) THEN DefaultLimits
                ELSE SafetyLimits
      read(entry) == ReadEntry(package, entry, limits, stopAsked)
      text(walk) == WorksheetText(walk, SharedStrings(PartTokens("shared")))
  IN  /\ job.phase = "sheet"
      /\ \/ stopAsked /\ ~stops /\ Ended("cancelled")
         \/ /\ ~stopAsked
            /\ ~stops
            /\ job.queue[job.index].part = {}
            /\ job' = AfterSheet(job.segments)
         \/ \E entry \in job.queue[job.index].part :
              /\ ~stopAsked
              /\ ~stops
              /\ read(entry).status # "completed"
              /\ Ended(StatusFromZipStatus(read(entry).status))
         \/ \E entry \in job.queue[job.index].part :
              /\ ~stopAsked
              /\ read(entry).status = "completed"
              /\ \E walk \in Walks(read(entry).content, stops) :
                   job' = AfterSheet(
                            Append(job.segments,
                                   Segment(text(walk), SheetLabel(job.index),
                                           job.index)))
      /\ stopAsked' = (stopAsked \/ stops)
      /\ UNCHANGED <<package, handedOver>>

\* ---- publishing -------------------------------------------------------

\* After the last segment of one slide comes the next slide; anything else is done.
Published ==
  IF Format = "pptx" /\ job.index < Len(job.queue)
    THEN [job EXCEPT !.phase = "slide", !.index = @ + 1, !.segments = <<>>]
    ELSE [job EXCEPT !.phase = "done", !.segments = <<>>]

SegmentOverLimit(segment) ==
  /\ Format # "docx"
  /\ \/ WouldExceedByteLimit(TotalBytes(Append(handedOver, segment)))
     \/ WouldExceedSegmentLimit(Len(handedOver) + 1)

\* The next segment is handed over.  Only the workbook's loop looks at the stop
\* token here; an empty sheet is passed over.
PublishSegment ==
  LET segment == Head(job.segments)
  IN  /\ job.phase = "publish"
      /\ job.segments # <<>>
      /\ ~(Format = "xlsx" /\ stopAsked)
      /\ \/ segment.text = <<>> /\ UNCHANGED handedOver
         \/ /\ segment.text # <<>>
            /\ ~SegmentOverLimit(segment)
            /\ handedOver' = Append(handedOver, segment)
      /\ job' = [job EXCEPT !.segments = Tail(@)]
      /\ UNCHANGED <<package, stopAsked>>

PublishStops ==
  /\ job.phase = "publish"
  /\ job.segments # <<>>
  /\ \/ /\ Format = "xlsx"
        /\ stopAsked
        /\ Ended("cancelled")
     \/ /\ ~(Format = "xlsx" /\ stopAsked)
        /\ Head(job.segments).text # <<>>
        /\ SegmentOverLimit(Head(job.segments))
        /\ Ended("safetyLimitExceeded")
  /\ UNCHANGED <<package, handedOver, stopAsked>>

\* The sink refuses a segment.
SinkRefuses ==
  /\ job.phase = "publish"
  /\ job.segments # <<>>
  /\ ~(Format = "xlsx" /\ stopAsked)
  /\ Head(job.segments).text # <<>>
  /\ ~SegmentOverLimit(Head(job.segments))
  /\ Ended("cancelled")
  /\ UNCHANGED <<package, handedOver, stopAsked>>

PublishedAll ==
  /\ job.phase = "publish"
  /\ job.segments = <<>>
  /\ job' = Published
  /\ UNCHANGED <<package, handedOver, stopAsked>>

\* ---- the world --------------------------------------------------------

AskToStop ==
  /\ job.phase \notin {"idle", "done"}
  /\ ~stopAsked
  /\ stopAsked' = TRUE
  /\ UNCHANGED <<package, job, handedOver>>

ReplacePackage(archive) ==
  /\ job.phase \notin {"idle", "done", "publish"}
  /\ ~job.replaced
  /\ package' = archive
  /\ job' = [job EXCEPT !.replaced = TRUE]
  /\ UNCHANGED <<handedOver, stopAsked>>

PackageNext ==
  \/ \E document \in PackageDocuments : Begin(document)
  \/ ReadTheCatalog
  \/ ReadPart
  \/ MakeText
  \/ \E stops \in BOOLEAN : ReadSlide(stops) \/ ReadNotes(stops)
  \/ \E stops \in BOOLEAN : ReadSheet(stops)
  \/ PublishSegment
  \/ PublishStops
  \/ SinkRefuses
  \/ PublishedAll
  \/ AskToStop
  \/ \E archive \in OtherArchives : ReplacePackage(archive)

PackageSpec == PackageInit /\ [][PackageNext]_packageVars

\* ---- correctness ------------------------------------------------------

\* Whatever is handed to the sink is the document's own text, in order, segment by
\* segment, as it reads from the document's structure; an extraction that says
\* "completed" handed over all of it, and one that fails (other than by being
\* cancelled) says what is wrong with the package.  Two cases are left out, in
\* which the code promises less: the package was replaced meanwhile (its parts are
\* then of two versions), and a stop that arrives while a slide or its notes are
\* turned into text (pptx-document-extractor.cpp:279), where the last segment may
\* be cut short and the status still "completed".
ExtractionIsFaithful ==
  LET truth == job.document.truth
      cut == Format = "pptx" /\ stopAsked
      certain == IF cut /\ handedOver # <<>> THEN Front(handedOver) ELSE handedOver
  IN  job.phase # "idle" /\ ~job.replaced =>
        /\ IsPrefix(certain, truth)
        /\ job.phase = "done" /\ job.status = "completed" /\ ~cut =>
             handedOver = truth /\ job.document.outcome = "completed"
        /\ job.phase = "done" /\ job.status \notin {"completed", "cancelled"} =>
             job.status = job.document.outcome
=============================================================================
