----------------------------- MODULE ZipArchive -----------------------------
(***************************************************************************)
(* The ZIP layer every archive-backed document goes through: the catalog   *)
(* ZipArchiveReader::readCatalog builds from the central directory, and    *)
(* the one entry ZipArchiveReader::readEntry reads, with the limits of     *)
(* rich-format-safety.cpp.  An archive on disk is                          *)
(*   opens      the file can be opened                                     *)
(*   directory  "found", "zip64", "outside" (the end-of-directory record   *)
(*              points past the file) or "missing" (no such record)        *)
(*   count      the number of entries the end record announces             *)
(*   headers    the central directory, a sequence of headers               *)
(*   locals     what lies at each local header's place                     *)
(* A name is a sequence of segments: the last one is "" for a directory,   *)
(* the first one "/" or "C:" for an absolute name; a segment "\\" or "NUL"  *)
(* stands for one that holds that character.  The content of an entry is a *)
(* sequence of XML tokens; a size is a number of tokens.                   *)
(*                                                                         *)
(* The two operations are operators: a stop that arrives during one gives  *)
(* the same answers as a stop before or after it.                          *)
(***************************************************************************)
EXTENDS Naturals, Sequences, FiniteSets, SequencesExt, FiniteSetsExt

\* ---- rich-format-safety.cpp --------------------------------------------

ExceedsCompressionRatio(compressed, expanded, limits) ==
  /\ expanded # 0
  /\ \/ compressed = 0
     \/ limits.ratio = 0
     \/ expanded > compressed * limits.ratio

EntryIsSafe(header, limits) ==
  /\ header.expanded <= limits.entryBytes
  /\ ~ExceedsCompressionRatio(header.compressed, header.expanded, limits)

\* ---- names ------------------------------------------------------------

IsDirectoryName(name) == Last(name) = ""

\* Code: the segment after the first separator is cut with substr(start, end),
\* whose second argument is a count.  It reaches past the next separator unless
\* the segment is the first or the last one, so only those two are compared.
HasUnsafeSegment(name) ==
  {name[1], Last(name)} \cap {".", ".."} # {}

IsUnsafeEntryName(name) ==
  \/ name \in {<<>>, <<"">>}
  \/ name[1] \in {"/", "C:"}
  \/ ToSet(name) \cap {"\\", "NUL"} # {}
  \/ HasUnsafeSegment(name)

\* An empty last segment (a directory) adds no depth; an empty one in the middle
\* is counted, the cut that reads it reaching into the following segment.
ZipEntryNestingDepth(name) ==
  Len(name) - (IF IsDirectoryName(name) THEN 1 ELSE 0)

ArchiveIsSafe(headers, count, limits) ==
  /\ FoldLeft(LAMBDA total, h : total + h.expanded, 0, headers)
       <= limits.archiveBytes
  /\ count <= limits.entries
  /\ \A i \in DOMAIN headers : ZipEntryNestingDepth(headers[i].name) <= limits.depth

IsSupportedCompressionMethod(method) == method \in {"store", "deflate"}

\* ---- the catalog ------------------------------------------------------

Catalogued(header) ==
  [rawName |-> header.name, method |-> header.method,
   offset |-> header.offset, compressed |-> header.compressed,
   expanded |-> header.expanded, directory |-> IsDirectoryName(header.name)]

\* What is wrong with one header, "completed" if nothing is.
HeaderStatus(header, limits) ==
  CASE ~header.signature -> "invalidArchive"
    [] header.zip64 -> "unsupportedZip64"
    [] ~header.whole -> "invalidArchive"
    [] IsUnsafeEntryName(header.name) -> "unsafeEntryName"
    [] /\ ~IsDirectoryName(header.name)
       /\ ~IsSupportedCompressionMethod(header.method)
         -> "unsupportedCompressionMethod"
    [] ~EntryIsSafe(header, limits) -> "safetyLimitExceeded"
    [] OTHER -> "completed"

\* The first of the announced headers that is refused decides; a directory with
\* fewer headers than announced ends at its last one, one with more has bytes
\* left over.
ParseCentralDirectory(archive, limits) ==
  LET announced == SubSeq(archive.headers, 1,
                          Min({archive.count, Len(archive.headers)}))
      refused == {i \in DOMAIN announced :
                    HeaderStatus(announced[i], limits) # "completed"}
  IN  CASE refused # {} -> HeaderStatus(announced[Min(refused)], limits)
        [] refused = {} /\ archive.count # Len(archive.headers)
             -> "invalidArchive"
        [] /\ refused = {}
           /\ archive.count = Len(archive.headers)
           /\ ~ArchiveIsSafe(announced, archive.count, limits)
             -> "safetyLimitExceeded"
        [] OTHER -> "completed"

\* Finding the directory from the end of the file: the last end record there
\* is, what it says of the directory, and the bytes of the directory.
DirectoryStatus(archive) ==
  CASE archive.directory = "zip64" -> "unsupportedZip64"
    [] archive.directory \in {"missing", "outside"} -> "invalidArchive"
    [] OTHER -> "completed"

CatalogStatus(archive, limits) ==
  CASE ~archive.opens -> "openFailed"
    [] archive.opens /\ DirectoryStatus(archive) # "completed" ->
         DirectoryStatus(archive)
    [] OTHER -> ParseCentralDirectory(archive, limits)

ReadCatalog(archive, limits, stopped) ==
  LET status == IF stopped THEN "cancelled" ELSE CatalogStatus(archive, limits)
  IN  [status |-> status,
       entries |-> IF status = "completed"
                     THEN [i \in DOMAIN archive.headers |->
                             Catalogued(archive.headers[i])]
                     ELSE <<>>]

\* The first entry of that name, if there is one: std::ranges::find on rawName.
FindEntry(entries, name) ==
  LET same == SelectSeq(entries, LAMBDA e : e.rawName = name)
  IN  IF same = <<>> THEN {} ELSE {same[1]}

\* ---- one entry --------------------------------------------------------

ReadFailure(status) == [status |-> status, content |-> <<>>]

\* The local header where the catalog said it is, in the archive of now.
LocalHeaderStatus(archive, entry) ==
  CASE entry.offset \notin DOMAIN archive.locals -> "readFailed"
    [] /\ entry.offset \in DOMAIN archive.locals
       /\ \/ ~archive.locals[entry.offset].signature
          \/ archive.locals[entry.offset].name # entry.rawName
         -> "invalidArchive"
    [] OTHER -> "completed"

\* inflate() is called once with room for exactly the catalogued size.
InflateRawDeflatePayload(payload, entry) ==
  IF entry.expanded = 0
    THEN [status |-> "completed", content |-> <<>>]
    ELSE IF /\ payload.deflated
            /\ payload.compressed <= entry.compressed
            /\ Len(payload.content) = entry.expanded
           THEN [status |-> "completed", content |-> payload.content]
           ELSE ReadFailure("decompressionFailed")

\* A stored payload is the bytes at that place, whatever the archive holds there.
StoredPayload(payload, entry) ==
  IF entry.compressed # entry.expanded
    THEN ReadFailure("invalidArchive")
    ELSE [status |-> "completed",
          content |-> SubSeq(payload.content, 1,
                             Min({entry.compressed, Len(payload.content)}))]

ReadPayload(archive, entry) ==
  LET payload == archive.locals[entry.offset].payload
  IN  IF entry.compressed > payload.available
        THEN ReadFailure("readFailed")
        ELSE IF entry.method = "store"
               THEN StoredPayload(payload, entry)
               ELSE InflateRawDeflatePayload(payload, entry)

ReadEntry(archive, entry, limits, stopped) ==
  CASE stopped -> ReadFailure("cancelled")
    [] ~stopped /\ entry.directory -> ReadFailure("entryNotFound")
    [] ~stopped /\ ~entry.directory
       /\ ~IsSupportedCompressionMethod(entry.method)
         -> ReadFailure("unsupportedCompressionMethod")
    [] ~stopped /\ ~entry.directory
       /\ IsSupportedCompressionMethod(entry.method)
       /\ ~EntryIsSafe(entry, limits)
         -> ReadFailure("safetyLimitExceeded")
    [] OTHER ->
         IF ~archive.opens
           THEN ReadFailure("openFailed")
           ELSE IF LocalHeaderStatus(archive, entry) # "completed"
                  THEN ReadFailure(LocalHeaderStatus(archive, entry))
                  ELSE ReadPayload(archive, entry)
=============================================================================
