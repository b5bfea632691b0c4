----------------------------- MODULE TextReader -----------------------------
(***************************************************************************)
(* readTextFileLines (src/core/text/text-file-reader.cpp): the encoding    *)
(* of a file, and its lines, read block by block and handed to a sink.     *)
(*                                                                         *)
(* A file is a sequence of bytes, a line a sequence of code points, and a  *)
(* block is BlockSize bytes long where the code's is 64 KiB.  What the     *)
(* code keeps in "pending" is here what it has not decoded yet.            *)
(***************************************************************************)
EXTENDS Integers, FiniteSets, SequencesExt

CONSTANTS
  TextFiles,          \* files, sequences of 0..255
  TextChoices,        \* records [policy, fallback, includeBinary, taken]: the
                      \* options, and how many lines the sink accepts
  BlockSize,
  BinarySampleSize,
  BinarySampleMinimum,\* a shorter sample is not binary for its control bytes
  MaximumLineLength   \* in bytes of UTF-8

VARIABLES
  file, asked,        \* the file and the choice
  reader,
  textStop            \* the stop token

textVars == <<file, asked, reader, textStop>>

BytesFrom(i, n) == SubSeq(file, i, IF i + n - 1 < Len(file) THEN i + n - 1 ELSE Len(file))

LF == 10
CR == 13
ReplacementCharacter == 65533

-----------------------------------------------------------------------------
(* Decoding.  At(bytes, i) is the scalar that begins at the i-th byte.     *)
Scalar(value, width) == [value |-> value, width |-> width, valid |-> TRUE]
Invalid == [value |-> ReplacementCharacter, width |-> 1, valid |-> FALSE]

isUtf8Continuation(byte) == byte \in 128..191

decodeUtf8At(bytes, i) ==
  LET b(n)     == bytes[i + n]
      Long(n)  == /\ i + n <= Len(bytes)
                  /\ \A k \in 1..n : isUtf8Continuation(b(k))
      Tail6(n) == b(n) % 64
  IN  CASE b(0) <= 127 -> Scalar(b(0), 1)
        [] b(0) \in 194..223 /\ Long(1) -> Scalar((b(0) % 32) * 64 + Tail6(1), 2)
        [] b(0) \in 224..239 /\ Long(2)
             /\ (b(0) = 224 => b(1) >= 160) /\ (b(0) = 237 => b(1) <= 159) ->
             Scalar((b(0) % 16) * 4096 + Tail6(1) * 64 + Tail6(2), 3)
        [] b(0) \in 240..244 /\ Long(3)
             /\ (b(0) = 240 => b(1) >= 144) /\ (b(0) = 244 => b(1) <= 143) ->
             Scalar((b(0) % 8) * 262144 + Tail6(1) * 4096 + Tail6(2) * 64 + Tail6(3), 4)
        [] OTHER -> Invalid

readUtf16CodeUnit(bytes, i, encoding) ==
  IF encoding = "utf16Le" THEN bytes[i] + 256 * bytes[i + 1]
  ELSE 256 * bytes[i] + bytes[i + 1]

HighSurrogates == 55296..56319
LowSurrogates  == 56320..57343

decodeUtf16At(bytes, i, encoding) ==
  LET unit == readUtf16CodeUnit(bytes, i, encoding)
      low  == IF i + 3 <= Len(bytes) THEN readUtf16CodeUnit(bytes, i + 2, encoding) ELSE 0
  IN  CASE unit \in HighSurrogates /\ low \in LowSurrogates ->
             Scalar(65536 + (unit - 55296) * 1024 + (low % 1024), 4)
        [] unit \in HighSurrogates \cup LowSurrogates -> [Invalid EXCEPT !.width = 2]
        [] OTHER -> Scalar(unit, 2)

decodeLatin1At(bytes, i) ==
  Scalar(IF bytes[i] \in 128..159 THEN ReplacementCharacter ELSE bytes[i], 1)

Utf8Width(value) ==
  IF value <= 127 THEN 1 ELSE IF value <= 2047 THEN 2 ELSE IF value <= 65535 THEN 3 ELSE 4

-----------------------------------------------------------------------------
(* The encoding is told by a byte order mark, or by the sample, which may  *)
(* end within a character.                                                 *)
RECURSIVE sampleLooksValidUtf8(_, _)
sampleLooksValidUtf8(sample, i) ==
  IF i > Len(sample) THEN TRUE
  ELSE LET scalar == decodeUtf8At(sample, i)
           left   == Len(sample) - i + 1
       IN  IF scalar.valid THEN sampleLooksValidUtf8(sample, i + scalar.width)
           ELSE CASE sample[i] \in 194..223 -> left < 2
                  [] sample[i] \in 224..239 -> left < 3
                  [] sample[i] \in 240..244 -> left < 4
                  [] OTHER -> FALSE

Detected(encoding, bomSize) == [encoding |-> encoding, bomSize |-> bomSize]

detectEncoding(sample, fallback) ==
  CASE IsPrefix(<<239, 187, 191>>, sample) -> Detected("utf8", 3)
    [] IsPrefix(<<255, 254>>, sample) -> Detected("utf16Le", 2)
    [] IsPrefix(<<254, 255>>, sample) -> Detected("utf16Be", 2)
    [] sampleLooksValidUtf8(sample, 1) -> Detected("utf8", 0)
    [] OTHER -> Detected(fallback, 0)

isBinaryControlByte(byte) == (byte < 32 /\ byte \notin {9, LF, CR}) \/ byte = 127

sampleLooksBinary(sample, encoding) ==
  /\ encoding \notin {"utf16Le", "utf16Be"}
  /\ \/ 0 \in ToSet(sample)
     \/ /\ Len(sample) >= BinarySampleMinimum
        /\ Cardinality({i \in DOMAIN sample : isBinaryControlByte(sample[i])}) * 10
             > Len(sample) * 3

-----------------------------------------------------------------------------
(* LineEmitter.  A refusal, or a line that is too long, sets "failed"; the *)
(* decoder then returns.                                                   *)
Idle == [phase |-> "start", encoding |-> "none", bomSize |-> 0, at |-> 0, eof |-> FALSE,
         lastRead |-> 0, pending |-> <<>>, pendingCr |-> FALSE,
         line |-> <<>>, lineOffset |-> 0, next |-> 0, lines |-> <<>>,
         invalid |-> FALSE, failed |-> FALSE, status |-> "none"]

emit(r, ending, width) ==
  LET lines == Append(r.lines, [text |-> r.line, offset |-> r.lineOffset, ending |-> ending])
  IN  IF textStop THEN [r EXCEPT !.failed = TRUE]
      ELSE IF Len(lines) > asked.taken THEN [r EXCEPT !.lines = lines, !.failed = TRUE]
      ELSE [r EXCEPT !.lines = lines, !.line = <<>>, !.next = @ + width,
                     !.lineOffset = r.next + width]

appendScalar(r, value, width) ==
  LET text == Append(r.line, value) IN
    [r EXCEPT !.line = text, !.next = @ + width,
              !.lineOffset = IF r.line = <<>> THEN r.next ELSE @,
              !.failed = FoldSeq(LAMBDA v, n : Utf8Width(v) + n, 0, text) > MaximumLineLength]

processDecodedScalar(r, value, width) ==
  IF value = LF THEN emit(r, "lf", width)
  ELSE IF value = CR THEN emit(r, "cr", width)
  ELSE appendScalar(r, value, width)

ReturnWith(r, status) == [r EXCEPT !.phase = "done", !.status = status, !.pending = <<>>]

(* n bytes of the pending ones are decoded, which gave r. *)
Decoded(r, n, whyNot) ==
  IF r.failed THEN ReturnWith(r, whyNot) ELSE [r EXCEPT !.pending = SubSeq(@, n + 1, Len(@))]

TooLong == IF textStop THEN "cancelled" ELSE "lineTooLong"
MoreBytes == [reader EXCEPT !.phase = "read"]

-----------------------------------------------------------------------------
TextInitOf(aFile, choice) ==
  /\ file = aFile /\ asked = choice
  /\ reader = Idle /\ textStop = FALSE

TextInit == \E aFile \in TextFiles, choice \in TextChoices : TextInitOf(aFile, choice)

OpenText ==
  /\ reader.phase = "start"
  /\ LET sample   == BytesFrom(1, BinarySampleSize)
         detected == detectEncoding(sample, asked.fallback)
         start    == [Idle EXCEPT !.encoding = detected.encoding, !.phase = "read",
                        !.bomSize = detected.bomSize, !.at = detected.bomSize,
                        !.next = detected.bomSize]
     IN  reader' = IF ~asked.includeBinary /\ sampleLooksBinary(sample, detected.encoding)
                   THEN ReturnWith(start, "binarySkipped") ELSE start
  /\ UNCHANGED <<file, asked, textStop>>

(* The next block.  The end of the file is noticed when a block comes in   *)
(* short; the decoders of UTF-8 and Latin-1 leave at an empty one.         *)
LeavesAtEmptyBlock(encoding) == encoding \in {"utf8", "latin1"}

ReadBlock ==
  /\ reader.phase = "read" /\ ~textStop
  /\ LET block == BytesFrom(reader.at + 1, BlockSize) IN
       reader' = [reader EXCEPT
                    !.phase = IF block = <<>> /\ LeavesAtEmptyBlock(reader.encoding)
                              THEN "end" ELSE "decode",
                    !.at = @ + Len(block), !.eof = Len(block) < BlockSize,
                    !.lastRead = Len(block), !.pending = @ \o block]
  /\ UNCHANGED <<file, asked, textStop>>

(* A stop, or a read that fails. *)
ReadNoMore ==
  /\ reader.phase = "read"
  /\ reader' = IF textStop THEN ReturnWith(reader, "cancelled") ELSE ReturnWith(reader, "readFailed")
  /\ UNCHANGED <<file, asked, textStop>>

NeverAwaits(left) == FALSE
AwaitsBytes(left) == left < 4 /\ ~reader.eof

(* decodeUtf8Lines: one turn of the inner loop.  A character or a CR that  *)
(* the block cuts off waits for the next block.                            *)
Utf8Turn ==
  LET scalar == decodeUtf8At(reader.pending, 1)
      left   == Len(reader.pending)
      crlf   == scalar.value = CR /\ left > 1 /\ reader.pending[2] = LF
      bad    == [reader EXCEPT !.invalid = TRUE]
  IN  CASE left = 0 -> MoreBytes
        [] left > 0 /\ ~scalar.valid /\ AwaitsBytes(left) -> MoreBytes
        [] left > 0 /\ ~scalar.valid /\ ~AwaitsBytes(left) ->
             (CASE asked.policy = "fail" -> ReturnWith(bad, "invalidEncoding")
               [] asked.policy = "replace" ->
                    Decoded(appendScalar(bad, ReplacementCharacter, 1), 1, "cancelled")
               [] asked.policy = "ignore" -> Decoded(bad, 1, "cancelled"))
        [] left > 0 /\ scalar.valid /\ crlf -> Decoded(emit(reader, "crlf", 2), 2, "cancelled")
        [] left > 0 /\ scalar.valid /\ scalar.value = CR /\ left = 1 /\ ~reader.eof -> MoreBytes
        [] OTHER -> Decoded(processDecodedScalar(reader, scalar.value, scalar.width),
                            scalar.width, TooLong)

(* decodeLatin1Lines: one byte.  A CR at the end of a block is pending.    *)
Latin1Turn ==
  LET byte  == Head(reader.pending)
      left  == Len(reader.pending)
      clear == [reader EXCEPT !.pendingCr = FALSE]
  IN  CASE left = 0 -> MoreBytes
        [] left > 0 /\ reader.pendingCr ->
             IF byte = LF THEN Decoded(emit(clear, "crlf", 2), 1, "cancelled")
             ELSE Decoded(emit(clear, "cr", 1), 0, "cancelled")
        [] left > 0 /\ ~reader.pendingCr /\ byte = CR ->
             IF left = 1 THEN Decoded([reader EXCEPT !.pendingCr = TRUE], 1, "cancelled")
             ELSE IF reader.pending[2] = LF THEN Decoded(emit(reader, "crlf", 2), 2, "cancelled")
             ELSE Decoded(emit(reader, "cr", 1), 1, "cancelled")
        [] left > 0 /\ ~reader.pendingCr /\ byte = LF ->
             Decoded(emit(reader, "lf", 1), 1, "cancelled")
        [] OTHER -> Decoded(appendScalar(reader, decodeLatin1At(reader.pending, 1).value, 1),
                            1, "lineTooLong")

(* decodeUtf16Lines: one turn of the inner loop. *)
Utf16Turn ==
  LET scalar == decodeUtf16At(reader.pending, 1, reader.encoding)
      left   == Len(reader.pending)
      unit   == readUtf16CodeUnit(reader.pending, 1, reader.encoding)
      noted  == [reader EXCEPT !.invalid = @ \/ ~scalar.valid]
      more   == IF reader.lastRead = 0 THEN [reader EXCEPT !.phase = "end"] ELSE MoreBytes
      isCr   == scalar.value = CR
  IN  CASE left < 2 -> more
        [] left >= 2 /\ unit \in HighSurrogates /\ AwaitsBytes(left) -> more
        [] left >= 2 /\ isCr /\ AwaitsBytes(left) -> more
        [] left >= 4 /\ isCr /\ readUtf16CodeUnit(reader.pending, 3, reader.encoding) = LF ->
             Decoded(emit(reader, "crlf", 4), 4, "cancelled")
        [] OTHER -> Decoded(processDecodedScalar(noted, scalar.value, scalar.width),
                            scalar.width, TooLong)

DecodeStep ==
  /\ reader.phase = "decode"
  /\ reader' = CASE reader.encoding = "utf8"   -> Utf8Turn
                 [] reader.encoding = "latin1" -> Latin1Turn
                 [] OTHER -> IF textStop THEN ReturnWith(reader, "cancelled") ELSE Utf16Turn
  /\ UNCHANGED <<file, asked, textStop>>

(* What a decoder does after its last block. *)
FinishText ==
  /\ reader.phase = "end"
  /\ LET afterCr == IF reader.pendingCr THEN emit(reader, "cr", 1) ELSE reader
         odd     == reader.encoding \in {"utf16Le", "utf16Be"} /\ reader.pending # <<>>
         last    == IF afterCr.line = <<>> \/ afterCr.failed THEN afterCr
                    ELSE emit(afterCr, "none", 0)
     IN  reader' = CASE textStop -> ReturnWith(reader, "cancelled")
                     [] ~textStop /\ odd /\ asked.policy = "fail" ->
                          ReturnWith([reader EXCEPT !.invalid = TRUE], "invalidEncoding")
                     [] OTHER -> ReturnWith([last EXCEPT !.invalid = @ \/ odd],
                                   IF last.failed THEN "cancelled" ELSE "completed")
  /\ UNCHANGED <<file, asked, textStop>>

StopText ==
  /\ reader.phase # "done" /\ ~textStop
  /\ textStop' = TRUE
  /\ UNCHANGED <<file, asked, reader>>

TextNext == OpenText \/ ReadBlock \/ ReadNoMore \/ DecodeStep \/ FinishText \/ StopText

TextSpec == TextInit /\ [][TextNext]_textVars

-----------------------------------------------------------------------------
(* The scalars of the whole file, decoded in one piece, with their place.  *)
(* The odd byte at the end of a UTF-16 file is none.                       *)
IsUtf16 == reader.encoding \in {"utf16Le", "utf16Be"}

At(i) ==
  CASE reader.encoding = "utf8"   -> decodeUtf8At(file, i)
    [] reader.encoding = "latin1" -> decodeLatin1At(file, i)
    [] IsUtf16 -> IF i = Len(file) THEN Invalid ELSE decodeUtf16At(file, i, reader.encoding)

RECURSIVE ScalarsFrom(_)
ScalarsFrom(i) ==
  IF i > Len(file) THEN <<>>
  ELSE <<At(i) @@ [at |-> i - 1]>> \o ScalarsFrom(i + At(i).width)

WholeText == ScalarsFrom(reader.bomSize + 1)

Meant ==
  SelectSeq(WholeText, LAMBDA s : IF IsUtf16 THEN s.width > 1
                                  ELSE s.valid \/ asked.policy = "replace")

Ending == [lf |-> <<LF>>, cr |-> <<CR>>, crlf |-> <<CR, LF>>, none |-> <<>>]
Printed(lines) == FlattenSeq([i \in DOMAIN lines |-> lines[i].text \o Ending[lines[i].ending]])

(* Bytes that are ignored do not count for the offsets of later lines.     *)
Dropped == reader.invalid /\ asked.policy = "ignore"

LinesAreTheText ==
  LET lines == reader.lines
      Start(i) == Len(Printed(SubSeq(lines, 1, i - 1))) + 1
  IN  /\ Printed(lines) = [i \in DOMAIN Meant |-> Meant[i].value]
      /\ reader.invalid = (\E i \in DOMAIN WholeText : ~WholeText[i].valid)
      /\ asked.policy = "fail" /\ reader.encoding = "utf8" => ~reader.invalid
      /\ \A i \in DOMAIN lines :
           /\ ToSet(lines[i].text) \cap {LF, CR} = {}
           /\ lines[i].ending = "none" => i = Len(lines) /\ lines[i].text # <<>>
           /\ ~Dropped /\ lines[i].ending = "cr" /\ i < Len(lines) =>
                lines[i + 1].text # <<>> \/ lines[i + 1].ending # "lf"
           /\ ~Dropped /\ (i > 1 \/ lines[i].text # <<>>) =>
                lines[i].offset = Meant[Start(i)].at

(* Where the last block of a UTF-8 file is full, what waits for the next   *)
(* one waits in vain.                                                      *)
LeftWaiting ==
  /\ reader.encoding = "utf8" /\ (Len(file) - reader.bomSize) % BlockSize = 0
  /\ file # <<>>
  /\ \/ Last(file) = CR
     \/ \E i \in DOMAIN WholeText : ~WholeText[i].valid /\ WholeText[i].at >= Len(file) - 3

(* A reading that completes has told the text of the file: "Include UTF-8, *)
(* UTF-16 LE/BE, Latin-1 fallback, LF, CRLF, standalone CR, empty files,   *)
(* and files without a final newline | Text, offsets, line numbers ...     *)
(* remain correct" (docs/development/validation.md:89).                    *)
CompletedTextIsTheFile == reader.status = "completed" => LinesAreTheText

(* The lines and their offsets are those of the file decoded in one piece, *)
(* wherever the blocks cut its characters and line ends, in each encoding  *)
(* and with each policy, whatever stops and failures come in between;      *)
(* except for what a full last block leaves waiting.                       *)
TextIsBlindToBlocks == reader.status = "completed" => LeftWaiting \/ LinesAreTheText
=============================================================================
