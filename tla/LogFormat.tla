------------------------------ MODULE LogFormat ------------------------------
(***************************************************************************)
(* The log of src/hdr_histogram_log.c: a header and a line for each        *)
(* histogram, written to a file and read back from it.                     *)
(*                                                                         *)
(* The file is a sequence of characters, since a write that fails or a     *)
(* crash may cut it anywhere, and the reader goes on at the character      *)
(* after the last one it looked at.  What the header says in many          *)
(* characters is one: the version, the names.                              *)
(***************************************************************************)
EXTENDS Codec

CONSTANTS
    Headers,            \* [user_prefix, timestamp] of hdr_log_write_header; both may be NULL.
    Lines,              \* What is logged: [entry, histogram], with entry.tag,
                        \* entry.start_timestamp and entry.interval.
    Foreign,            \* Lines of other programs: [entry, histogram, max, version, text].
    Callers,            \* How a reader calls: [tag_len, keeps, had, target].
    Second,             \* 10^9 in the code.
    Shown,              \* 10^3 in the code, for "%.3f".
    HeaderLineLength,   \* 128 in the code.
    Capacity,           \* 1024 in the code.
    MaxLines,           \* Bounds the lines of a log.
    MaxFaults           \* Bounds what goes wrong in the environment.

\* The characters that stand for a version in the header.
Versions == {"1.0", "1.1", "1.2", "1.3", "1.4", "2.0"}

LogVersion == "1.2"

Accepted_Old == {"1.0", "1.1"}      \* A mutant: the writer's own version is missing.

\* validate_log_version.
Accepted == {"1.0", "1.1", "1.2", "1.3"}

Digits == <<"0", "1", "2", "3", "4", "5", "6", "7", "8", "9">>

NewLines == {"\r", "\n"}

Time == [sec : Nat, nsec : 0 .. Second - 1]

Entry == [tag : Seq(STRING), start_timestamp : Time, interval : Time]

\* What hdr_init and recording make.
IsHistogram(h) ==
    /\ h.c = BucketConfig(h.c.lowest_discernible_value, h.c.highest_trackable_value,
                          h.c.significant_figures)
    /\ CountsFit(h.c, h.s)

ASSUME LogAssumption ==
    /\ Second \in Nat /\ Shown \in Nat \ {0} /\ Second % (2 * Shown) = 0
    /\ HeaderLineLength \in Nat \ {0, 1} /\ Capacity \in Nat \ {0}
    /\ MaxLines \in Nat /\ MaxFaults \in Nat
    /\ \A h \in Headers : h.timestamp = NULL \/ h.timestamp \in Time
    /\ \A l \in Lines : l.entry \in Entry /\ IsHistogram(l.histogram)
    /\ \A f \in Foreign :
          /\ f.entry \in Entry /\ f.text \in Text
          /\ f.histogram = NULL \/ IsHistogram(f.histogram)

VARIABLES
    file,       \* What has been written.
    position,   \* Of the next character that is read.
    mode,       \* "created", "writing", "opened", "reading", "done"
    zlib,
    string,     \* What hdr_log_encode returned, and for which histogram.
    caller,     \* If it keeps a target: the histogram it had, and merges into.
    reader,     \* struct hdr_log_reader
    outcome,    \* Of the last call: [result, left, histogram].
    faults,     \* How often the environment failed.
    header,     \* History: what hdr_log_write_header was to write, and whether it is whole.
    written,    \* History: the lines, with the position after each and whether it is whole.
    got,        \* History: the entries that were read.
    lost,       \* History: how many reads the environment made fail.
    reads       \* History: the number of reads modulo 2, so that each of them is a step.

log_vars == <<file, position, mode, zlib, string, caller, reader, outcome, faults,
              header, written, got, lost, reads>>

reader_vars == <<position, string, caller, reader, got, lost, reads>>

writer_vars == <<file, zlib, string, header, written>>

-----------------------------------------------------------------------------
(***************************************************************************)
(* Numbers in the file.                                                    *)
(***************************************************************************)
Decimal(n) ==
    LET digits[k \in Nat] ==
            (IF k < 10 THEN <<>> ELSE digits[k \div 10]) \o <<Digits[(k % 10) + 1]>>
    IN  digits[n]

Number(digits) ==
    FoldLeft(LAMBDA n, d : 10 * n + (CHOOSE k \in DOMAIN Digits : Digits[k] = d) - 1, 0, digits)

\* hdr_timespec_as_double, in units of a nanosecond.
AsDouble(timestamp) == timestamp.sec * Second + timestamp.nsec

\* "%.3f" rounds to the nearest that is shown.
Rounded(timestamp) ==
    LET unit == Second \div Shown
        shown == (AsDouble(timestamp) + unit \div 2) \div unit
    IN  [sec |-> shown \div Shown, nsec |-> (shown % Shown) * unit]

\* hdr_timespec_from_double, which rounds what is left of a second.
TimespecFromDouble(value) ==
    LET unit == Second \div Shown
    IN  [sec |-> value \div Second,
         nsec |-> (((value % Second) + unit \div 2) \div unit) * unit]

\* The digits after the point, with the zeros in front.
Fraction(n) == Tail(Decimal(Shown + n))

Printed(timestamp) ==
    LET rounded == Rounded(timestamp)
    IN  Decimal(rounded.sec) \o <<".">> \o Fraction(rounded.nsec \div (Second \div Shown))

-----------------------------------------------------------------------------
(***************************************************************************)
(* What is written.                                                        *)
(***************************************************************************)
HeaderText(user_prefix, timestamp) ==
    (IF user_prefix = NULL THEN <<>> ELSE <<"#", "[">> \o user_prefix \o <<"]", "\n">>)
        \o <<"#", LogVersion, "\n">>
        \o (IF timestamp = NULL THEN <<>>
            ELSE <<"#", "StartTime">> \o Printed(timestamp) \o <<" ", "\n">>)
        \o <<"\"", "names", "\n">>

LineText(entry, max, buffer) ==
    (IF entry.tag = <<>> THEN <<>> ELSE <<"T", "a", "g", "=">> \o entry.tag \o <<",">>)
        \o Printed(entry.start_timestamp) \o <<",">> \o Printed(entry.interval) \o <<",">>
        \o Decimal(max) \o <<".", "0", ",">> \o Base64Encode(buffer) \o <<"\n">>

Returns(result, left) == outcome' = [result |-> result, left |-> left, histogram |-> NULL]

\* fprintf writes all of it, or fails after a part of it.
Printf(text, left) ==
    \/ file' = file \o text /\ Returns(OK, left) /\ UNCHANGED faults
    \/ /\ faults < MaxFaults
       /\ faults' = faults + 1
       /\ Returns("EIO", left)
       /\ \E n \in 0 .. Len(text) - 1 : file' = file \o SubSeq(text, 1, n)

\* hdr_log_write_header.
WriteHeader(h) ==
    /\ mode = "created" /\ mode' = "writing"
    /\ \E text \in {HeaderText(h.user_prefix, h.timestamp)} : Printf(text, {})
    /\ header' = [arguments |-> h, whole |-> outcome'.result = OK, end |-> Len(file')]
    /\ UNCHANGED reader_vars /\ UNCHANGED <<zlib, written>>

WrittenLine(entry, histogram, max) ==
    [entry |-> entry, histogram |-> histogram, max |-> max,
     whole |-> outcome'.result = OK, end |-> Len(file')]

\* What the cleanup of hdr_log_write_entry frees, whether it was allocated or not.
WriteFreed == {"compressed_histogram", "encoded_histogram"}

\* What hdr_log_write_entry and the encoder leave allocated.  The base64 is allocated for a
\* histogram that could be encoded only.
WriteLeft(fails) ==
    LET held == IF EncodeResult(fails) = OK THEN {"compressed_histogram", "encoded_histogram"}
                ELSE {}
    IN  EncodeLeft(fails) \union (held \ WriteFreed)

\* hdr_log_write_entry; hdr_log_write is the same for an entry without a tag.
WriteEntry(entry, h) ==
    /\ mode = "writing" /\ Len(written) < MaxLines
    /\ \E encoded \in {EncodedText(h)}, max \in {HdrMax(h.c, h.s)} :
          /\ zlib' = Compress(zlib, encoded)
          /\ \E text \in {LineText(entry, max, Buffer(zlib', 2, encoded))} :
                 Printf(text, WriteLeft(Fine))
          /\ written' = Append(written, WrittenLine(entry, h, max))
    /\ UNCHANGED reader_vars /\ UNCHANGED <<mode, header>>

\* A histogram that cannot be encoded leaves no trace in the file.
EncodeFails(fails) ==
    /\ mode = "writing" /\ faults < MaxFaults
    /\ faults' = faults + 1
    /\ Returns(EncodeResult(fails), WriteLeft(fails))
    /\ UNCHANGED reader_vars /\ UNCHANGED <<mode, file, zlib, header, written>>

\* Another program has written a line of the same log.
WriteForeign(f) ==
    /\ mode = "writing" /\ Len(written) < MaxLines
    /\ zlib' = Compress(zlib, f.text)
    /\ file' = file \o LineText(f.entry, f.max, Buffer(zlib', f.version, f.text))
    /\ Returns(OK, {})
    /\ written' = Append(written, WrittenLine(f.entry, f.histogram, f.max))
    /\ UNCHANGED reader_vars /\ UNCHANGED <<mode, faults, header>>

\* The program that writes dies, and what the stream still buffered is lost.
Crash ==
    /\ mode = "writing" /\ mode' = "opened"
    /\ faults < MaxFaults
    /\ faults' = faults + 1
    /\ \E n \in 0 .. Len(file) - 1 : file' = SubSeq(file, 1, n)
    /\ header' = [header EXCEPT !.whole = @ /\ header.end <= Len(file')]
    /\ written' = [k \in DOMAIN written |->
                      [written[k] EXCEPT !.whole = @ /\ written[k].end <= Len(file')]]
    /\ UNCHANGED reader_vars /\ UNCHANGED <<zlib, outcome>>

Open ==
    /\ mode = "writing" /\ mode' = "opened"
    /\ UNCHANGED reader_vars /\ UNCHANGED writer_vars /\ UNCHANGED <<outcome, faults>>

-----------------------------------------------------------------------------
(***************************************************************************)
(* What is read.  Every operator takes the position of the next character. *)
(***************************************************************************)
Past_Peek(k) == k       \* A mutant: the character that is not wanted stays.

\* The position after reading the character at k, if there is one.
Past(k) == Min({k + 1, Len(file) + 1})

NextOf(at, chars) ==
    Min({Len(file) + 1} \union {k \in at .. Len(file) : file[k] \in chars})

NextNotOf(at, chars) ==
    Min({Len(file) + 1} \union {k \in at .. Len(file) : file[k] \notin chars})

IsAt(k, char) == k <= Len(file) /\ file[k] = char

Value_Units(chars) ==       \* A mutant: the digits after the point count as nanoseconds.
    LET point == Min({Len(chars) + 1} \union {k \in DOMAIN chars : chars[k] = "."})
    IN  [sec |-> Number(SubSeq(chars, 1, point - 1)),
         nsec |-> Number(SelectSeq(SubSeq(chars, point, Len(chars)), LAMBDA char : char # "."))]

\* Digits and points; the digits after the first point are a fraction.
Value(chars) ==
    LET point == Min({Len(chars) + 1} \union {k \in DOMAIN chars : chars[k] = "."})
        fraction == SelectSeq(SubSeq(chars, point, Len(chars)), LAMBDA char : char # ".")
    IN  [sec |-> Number(SubSeq(chars, 1, point - 1)),
         nsec |-> Number(fraction) * (Second \div 10^Len(fraction))]

\* read_ahead of "ag=".
ReadAhead(at) ==
    LET differs == {k \in 0 .. 2 : ~IsAt(at + k, <<"a", "g", "=">>[k + 1])}
    IN  [ok |-> differs = {}, next |-> IF differs = {} THEN at + 3 ELSE Past(at + Min(differs))]

ReadTag(at) ==
    LET stop == NextOf(at, NewLines \union {","})
    IN  [ok |-> IsAt(stop, ","), next |-> Past(stop), chars |-> SubSeq(file, at, stop - 1)]

\* read_ahead_timestamp up to a comma.
ReadTimestamp(at) ==
    LET stop == NextNotOf(at, ToSet(Digits) \union {"."})
    IN  [ok |-> IsAt(stop, ","), next |-> Past(stop), chars |-> SubSeq(file, at, stop - 1)]

\* hdr_log_read_entry up to the end of the line: the parts of an entry, or where and
\* with which result it was given up.
ReadLine(at) ==
    LET first == NextNotOf(at, NewLines)
        tagged == IsAt(first, "T")
        ahead == ReadAhead(first + 1)
        tag == ReadTag(ahead.next)
        start == ReadTimestamp(IF tagged THEN tag.next ELSE first)
        interval == ReadTimestamp(start.next)
        max == ReadTimestamp(interval.next)
        parts == (IF tagged THEN <<ahead, tag>> ELSE <<>>) \o <<start, interval, max>>
        failed == {k \in DOMAIN parts : ~parts[k].ok}
        stop == NextOf(max.next, NewLines)
    IN  IF first > Len(file) THEN [result |-> "EOF", next |-> first]
        ELSE IF file[first] \notin ToSet(Digits) \union {"T"}
        THEN [result |-> "-EINVAL", next |-> Past(first)]
        ELSE IF failed # {} THEN [result |-> "-EINVAL", next |-> parts[Min(failed)].next]
        ELSE [result |-> OK,
              next |-> Past(stop),
              tag |-> IF tagged THEN SubSeq(tag.chars, 1, Min({Len(tag.chars), caller.tag_len}))
                      ELSE <<>>,
              start_timestamp |-> Value(start.chars),
              interval |-> Value(interval.chars),
              max |-> Value(max.chars),
              base64 |-> max.next,
              chars |-> SubSeq(file, max.next, stop - 1)]

\* What fgets reads into a buffer of HeaderLineLength.
HeaderLine(at) ==
    SubSeq(file, at, Min({NextOf(at, {"\n"}), at + HeaderLineLength - 2, Len(file)}))

\* The lines that hdr_log_read_header takes, or pieces of long ones.
HeaderLines(at) ==
    LET lines[k \in Nat] ==
            IF IsAt(k, "#") THEN <<HeaderLine(k)>> \o lines[k + Len(HeaderLine(k))]
            ELSE IF IsAt(k, "\"") THEN <<HeaderLine(k)>>
            ELSE <<>>
    IN  lines[at]

\* scan_header_line, for each line in turn.
ScannedVersion(lines, before) ==
    FoldLeft(LAMBDA version, line :
                 IF line[1] = "#" /\ Len(line) > 1 /\ line[2] \in Versions
                 THEN line[2] ELSE version,
             before, lines)

ScannedStart(lines, before) ==
    LET Stop(line) == Min({Len(line) + 1} \union
                          {k \in 3 .. Len(line) : line[k] \notin ToSet(Digits) \union {"."}})
    IN  FoldLeft(LAMBDA start, line :
                     IF line[1] = "#" /\ Len(line) > 1 /\ line[2] = "StartTime" /\ Stop(line) > 3
                     THEN TimespecFromDouble(AsDouble(Value(SubSeq(line, 3, Stop(line) - 1))))
                     ELSE start,
                 before, lines)

ReadHeader ==
    LET lines == HeaderLines(position)
        version == ScannedVersion(lines, reader.version)
        result == IF version \in Accepted THEN OK ELSE "HDR_LOG_INVALID_VERSION"
    IN  /\ mode = "opened"
        /\ reader' = [version |-> version,
                      start_timestamp |-> ScannedStart(lines, reader.start_timestamp)]
        /\ position' = position + Len(FlattenSeq(lines))
        /\ mode' = IF result = OK THEN "reading" ELSE "done"
        /\ Returns(result, {})
        /\ UNCHANGED writer_vars /\ UNCHANGED <<caller, faults, got, lost>>

\* What the caller does with decoded: it passes its target, or NULL and takes what it
\* gets.  left is what the functions around the decoder leave allocated.
Deliver(decoded, left) ==
    LET target == IF caller.keeps THEN caller.target ELSE NULL
    IN  /\ caller' = [caller EXCEPT !.target = IF caller.keeps THEN Merged(decoded, target) ELSE @]
        /\ outcome' = [result |-> decoded.result,
                       left |-> left \union LeftBy(decoded, target),
                       histogram |-> decoded.histogram]

ReadFailures == DecodeFailures \union {"realloc"}

DecodedLine_Fixed(line, fails) ==     \* A mutant: the array for base64 does not grow.
    IF line.result # OK THEN Refused(line.result, {})
    ELSE IF Len(line.chars) > Capacity \/ ~DecodesBase64(line.chars)
    THEN Refused("-EINVAL", {})
    ELSE DecodeCompressed(zlib, Base64Decode(line.chars), fails)

\* Base64 is decoded only when the array for it could grow.
DecodedLine(line, fails) ==
    IF line.result # OK THEN Refused(line.result, {})
    ELSE IF fails = "realloc" THEN Refused("-ENOMEM", {})
    ELSE IF ~DecodesBase64(line.chars) THEN Refused("-EINVAL", {})
    ELSE DecodeCompressed(zlib, Base64Decode(line.chars), fails)

\* The blocks that hdr_log_read_entry itself has allocated when its cleanup begins.
ReadHeld(line, fails) ==
    {"base64_histogram"}
        \union (IF line.result = OK /\ fails # "realloc" THEN {"compressed_histogram"} ELSE {})

\* What the cleanup frees.  The result of a realloc that failed has replaced the pointer
\* to the buffer for base64, which is still allocated.
ReadFreed(fails) ==
    {"compressed_histogram"} \union (IF fails = "realloc" THEN {} ELSE {"base64_histogram"})

\* How many characters of the line fill the buffer, each time that it grows.
Full(line) ==
    {n \in 0 .. Len(line.chars) - 1 :
        \E k \in 0 .. Len(line.chars) \div Capacity : n = Capacity * 2^k}

\* hdr_log_read_entry with what the environment lets fail; hdr_log_read is the same
\* without a buffer for the tag.  A realloc that fails has read one character more than
\* the buffer holds.
ReadEntry(fails) ==
    /\ mode = "reading"
    /\ \E line \in {ReadLine(position)} :
       \E decoded \in {DecodedLine(line, fails)} :
          /\ fails # Fine => faults < MaxFaults /\ line.result = OK
          /\ position' \in IF fails = "realloc" THEN {line.base64 + n + 1 : n \in Full(line)}
                          ELSE {line.next}
          /\ mode' = IF line.result = "EOF" THEN "done" ELSE mode
          /\ Deliver(decoded, ReadHeld(line, fails) \ ReadFreed(fails))
          /\ got' = IF decoded.result # OK THEN got
                    ELSE Append(got, [tag |-> line.tag,
                                      start_timestamp |-> line.start_timestamp,
                                      interval |-> line.interval,
                                      max |-> line.max,
                                      histogram |-> decoded.histogram])
    /\ faults' = faults + (IF fails = Fine THEN 0 ELSE 1)
    /\ lost' = lost + (IF fails = Fine THEN 0 ELSE 1)
    /\ UNCHANGED writer_vars /\ UNCHANGED reader

\* hdr_log_read_entry without an entry returns before it reads, and without its cleanup.
ReadNoEntry ==
    /\ mode = "reading" /\ faults < MaxFaults
    /\ faults' = faults + 1
    /\ Returns("-EINVAL", {"base64_histogram"})
    /\ UNCHANGED writer_vars /\ UNCHANGED <<position, mode, caller, reader, got, lost>>

-----------------------------------------------------------------------------
(***************************************************************************)
(* hdr_log_encode and hdr_log_decode: the histogram of a line by itself.   *)
(***************************************************************************)
\* The base64 is the caller's; the compressed histogram is freed in any case.
LogEncode(h, fails) ==
    /\ mode = "created"
    /\ fails # Fine => faults < MaxFaults
    /\ faults' = faults + (IF fails = Fine THEN 0 ELSE 1)
    /\ Returns(EncodeResult(fails), EncodeLeft(fails))
    /\ IF fails # Fine THEN mode' = "done" /\ UNCHANGED <<zlib, string>>
       ELSE /\ mode' = "string"
            /\ zlib' = Compress(zlib, EncodedText(h))
            /\ string' = [chars |-> Base64Encode(Buffer(zlib', 2, EncodedText(h))),
                          histogram |-> h]
    /\ UNCHANGED <<file, position, caller, reader, header, written, got, lost, reads>>

LogDecode(fails) ==
    /\ mode = "string" /\ mode' = "done"
    /\ fails # Fine => faults < MaxFaults
    /\ faults' = faults + (IF fails = Fine THEN 0 ELSE 1)
    /\ \E decoded \in {IF DecodesBase64(string.chars)
                       THEN DecodeCompressed(zlib, Base64Decode(string.chars), fails)
                       ELSE Refused("-EINVAL", {})} : Deliver(decoded, {})
    /\ UNCHANGED writer_vars /\ UNCHANGED <<position, reader, got, lost>>

-----------------------------------------------------------------------------
LogInit ==
    /\ file = <<>> /\ position = 1 /\ mode = "created" /\ zlib = <<>> /\ string = NULL
    /\ caller \in Callers
    /\ reader = [version |-> "0.0", start_timestamp |-> [sec |-> 0, nsec |-> 0]]
    /\ outcome = [result |-> OK, left |-> {}, histogram |-> NULL]
    /\ faults = 0
    /\ header = NULL /\ written = <<>> /\ got = <<>> /\ lost = 0 /\ reads = 0

WriteStep ==
    \/ \E h \in Headers : WriteHeader(h)
    \/ \E l \in Lines : WriteEntry(l.entry, l.histogram)
    \/ \E fails \in EncodeFailures \ {Fine} : EncodeFails(fails)
    \/ \E f \in Foreign : WriteForeign(f)
    \/ Crash
    \/ Open
    \/ \E l \in Lines, fails \in EncodeFailures : LogEncode(l.histogram, fails)

ReadStep ==
    /\ reads' = 1 - reads
    /\ \/ ReadHeader
       \/ \E fails \in ReadFailures : ReadEntry(fails)
       \/ ReadNoEntry
       \/ \E fails \in DecodeFailures : LogDecode(fails)

LogNext == WriteStep \/ ReadStep

LogSpec == LogInit /\ [][LogNext]_log_vars

\* A caller that has opened a log reads on until it is told that there is no more: weak
\* fairness of ReadStep, which is enabled in these modes and disabled in the others, and is
\* the only step that changes reads.  A read that goes over the same characters again is
\* a step as well.
ReadFairness == []<>(mode \notin {"opened", "reading", "string"}) \/ []<><<reads' # reads>>_reads

LogFairSpec == LogSpec /\ ReadFairness

-----------------------------------------------------------------------------
(***************************************************************************)
(* Properties.                                                             *)
(***************************************************************************)
\* The reader's position is in the file or behind it, a time it returns has less than a
\* second of nanoseconds, a histogram it returns has counts in its array only, and their
\* number fits the total.
LogTypeOK ==
    /\ mode \in {"created", "writing", "opened", "reading", "string", "done"}
    /\ position \in 1 .. Len(file) + 1
    /\ reader.version \in Versions \union {"0.0"} /\ reader.start_timestamp \in Time
    /\ faults \in 0 .. MaxFaults /\ lost \in 0 .. faults /\ reads \in {0, 1}
    /\ \A k \in DOMAIN got :
          LET h == got[k].histogram
          IN  /\ {got[k].start_timestamp, got[k].interval, got[k].max} \subseteq Time
              /\ Len(got[k].tag) <= caller.tag_len
              /\ BagToSet(h.s.counts) \subseteq Indexes(h.c)
              /\ h.s.total_count = BagCardinality(h.s.counts)

\* What was logged and what is read: the same counts in the same ranges.  A recount
\* ignores the offset, so that the extremes agree only without one.
SameHistogram(logged, read) ==
    /\ logged # NULL
    /\ read.c = logged.c
    /\ read.s.counts = logged.s.counts
    /\ read.s.total_count = logged.s.total_count
    /\ read.s.normalizing_index_offset = logged.s.normalizing_index_offset
    /\ read.s.normalizing_index_offset = 0 =>
          /\ HdrMin(read.c, read.s) = HdrMin(logged.c, logged.s)
          /\ HdrMax(read.c, read.s) = HdrMax(logged.c, logged.s)

SameEntry(line, read) ==
    /\ read.tag = SubSeq(line.entry.tag, 1, Min({Len(line.entry.tag), caller.tag_len}))
    /\ read.start_timestamp = Rounded(line.entry.start_timestamp)
    /\ read.interval = Rounded(line.entry.interval)
    /\ read.max = [sec |-> line.max, nsec |-> 0]

\* The first line that is cut off; none is told from the header if that is.
FirstDamaged ==
    IF header # NULL /\ ~header.whole THEN 0
    ELSE Min({Len(written) + 1} \union {k \in DOMAIN written : ~written[k].whole})

\* What is read was logged, and in this order: every histogram that a read returns is
\* that of a line, complete, whatever was cut off in the file, and behind each other's
\* lines.  Up to the first damage the tag and the times are the line's too; behind it
\* the reader may start in the middle of a line and return what is left of them.  A
\* line whose histogram is malformed is never returned.  And what hdr_log_decode returns
\* is the histogram that went into hdr_log_encode; it fails for want of memory only.
ReadsInOrder ==
    LET Matches(k, read) == /\ SameHistogram(written[k].histogram, read.histogram)
                            /\ k <= FirstDamaged => SameEntry(written[k], read)
        line[n \in 0 .. Len(got)] ==
            IF n = 0 THEN 0
            ELSE Min({Len(written) + 1} \union
                         {k \in DOMAIN written : k > line[n - 1] /\ Matches(k, got[n])})
    IN  /\ line[Len(got)] <= Len(written)
        /\ (string # NULL /\ mode = "done") =>
              IF outcome.result = OK THEN SameHistogram(string.histogram, outcome.histogram)
              ELSE faults > 0

\* A reader that is told that there is no more has been given every line in front of
\* the first damaged one, but for malformed histograms and the reads that failed for
\* want of memory.
AllReadAtEnd ==
    outcome.result = "EOF" =>
        Len(got) + lost >= Cardinality({k \in DOMAIN written :
                                           k < FirstDamaged /\ written[k].histogram # NULL})

\* The header of hdr_log_write_header is accepted and its time is read, unless a long
\* user_prefix does not fit a line of the reader.
HeaderReadable ==
    (mode \in {"reading", "done"} /\ header # NULL /\ header.whole) =>
        LET h == header.arguments
        IN  (h.user_prefix = NULL \/ Len(h.user_prefix) + 4 < HeaderLineLength) =>
                /\ reader.version = LogVersion /\ outcome.result # "HDR_LOG_INVALID_VERSION"
                /\ h.timestamp # NULL => reader.start_timestamp = Rounded(h.timestamp)

\* What h has counted, as a histogram with configuration c would count it.
CountsIn(c, h) ==
    LET index == [i \in {i \in Indexes(h.c) : CountAtIndex(h.c, h.s, i) > 0} |->
                      CountsIndexFor(c, ValueAtIndex(h.c, i))]
        used == {i \in DOMAIN index : Accepts(c, ValueAtIndex(h.c, i))}
    IN  [k \in {index[i] : i \in used} |->
            MapThenSumSet(LAMBDA i : CountAtIndex(h.c, h.s, i), {i \in used : index[i] = k})]

\* The histogram that a caller merges into holds what it held and what was read since
\* then: each count at its value, unless that is above its range.  A read that is
\* refused, however late, adds nothing.
TargetIsSum ==
    (mode = "reading" /\ caller.keeps /\ caller.target # NULL) =>
        LET c == caller.target.c
            had == IF caller.had = NULL THEN <<>> ELSE <<caller.had>>
            read == [n \in DOMAIN got |-> got[n].histogram]
        IN  CountsIn(c, caller.target) =
                FoldLeft(LAMBDA counts, h : counts (+) CountsIn(c, h), EmptyBag, had \o read)

\* A call that returns an error has freed all that it allocated, wherever it gave up.  Two
\* reads have not, and leave the buffer for base64 and nothing else: one that is given no
\* entry, and one that realloc could not enlarge this buffer for.
ErrorsLeaveNothing ==
    [][outcome'.result # OK /\ outcome'.left # {} =>
          /\ outcome'.left = {"base64_histogram"}
          /\ ReadNoEntry \/ ReadEntry("realloc")]_log_vars

\* "The histogram should be released with hdr_close": no call that succeeds leaves
\* anything allocated that its caller cannot release.
SuccessLeavesNothing ==
    outcome.result = OK => outcome.left = {}

\* Whoever opens a log and reads on until EOF comes to an end: a line that is refused
\* is not read for ever.
ReadingEnds == mode = "opened" ~> mode = "done"
=============================================================================
