------------------------------- MODULE Codec -------------------------------
(***************************************************************************)
(* hdr_encode_compressed and hdr_decode_compressed of                      *)
(* src/hdr_histogram_log.c.  A histogram is a record of its configuration  *)
(* c and its other fields s.  What goes into zlib is a text: a record of   *)
(* the flyweight's fields and the counts, which are bytes in version 2 and *)
(* words in versions 0 and 1.  A buffer holds bytes: a cookie, a length,   *)
(* and a stream of zlib.                                                   *)
(***************************************************************************)
EXTENDS Recording, Encoding

CONSTANTS
    NULL,
    Fine        \* No failure of the environment: every allocation, and zlib, succeed.

OK == "OK"

\* The low digits of the cookies of versions 0, 1 and 2; the next digit of an encoding
\* cookie is the word size.
CompressionCookie == 0 :> 9 @@ 1 :> 2 @@ 2 :> 4

EncodingCookie == 0 :> 8 @@ 1 :> 1 @@ 2 :> 3

\* The cookie and the length are a byte each.
SizeofCompressionFlyweight == 2

-----------------------------------------------------------------------------
(***************************************************************************)
(* External: zlib is the sequence of the texts compressed so far.  Texts   *)
(* have streams of different lengths, none of which is a prefix of         *)
(* another.  Inflating stops at the end of the stream and does not look at *)
(* what follows, and fails if the stream is cut off or damaged.            *)
(***************************************************************************)
Stream(k) == [i \in 1 .. 2 + (k % 3) |-> k]

Compress(zlib, text) == IF text \in ToSet(zlib) THEN zlib ELSE Append(zlib, text)

StreamOf(zlib, text) == Stream(CHOOSE k \in DOMAIN zlib : zlib[k] = text)

Inflates(zlib, data) == \E k \in DOMAIN zlib : IsPrefix(Stream(k), data)

Inflate(zlib, data) == zlib[CHOOSE k \in DOMAIN zlib : IsPrefix(Stream(k), data)]

Buffer(zlib, version, text) ==
    LET stream == StreamOf(zlib, text)
    IN  <<CompressionCookie[version], Len(stream)>> \o stream

-----------------------------------------------------------------------------
(***************************************************************************)
(* hdr_encode_compressed.                                                  *)
(***************************************************************************)
CountsLimit_ToMax(h) == Min({CountsIndexFor(h.c, h.s.max_value), h.c.counts_len})   \* A mutant.

CountsLimit(h) == Min({CountsIndexFor(h.c, h.s.max_value) + 1, h.c.counts_len})

\* Counts in the order of the array, whatever the offset, and each run of zeros as one
\* negative number.
EncodedCounts(h) ==
    LET counts_limit == CountsLimit(h)
        used == {i \in BagToSet(h.s.counts) : i < counts_limit}
        encoded[i \in 0 .. counts_limit] ==
            IF i = counts_limit THEN <<>>
            ELSE IF i \in used
            THEN ZigZagEncode(CopiesIn(i, h.s.counts)) \o encoded[i + 1]
            ELSE LET next == Min({counts_limit} \union {k \in used : k > i})
                 IN  ZigZagEncode(i - next) \o encoded[next]
    IN  encoded[0]

\* The fields of the flyweight that are looked at, and the counts.
Text ==
    [cookie : Int, word_size : Nat, normalizing_index_offset : Int, significant_figures : Int,
     lowest_discernible_value : Int, highest_trackable_value : Int, counts : Seq(Int)]

EncodedText(h) ==
    [cookie |-> EncodingCookie[2], word_size |-> 1,
     normalizing_index_offset |-> h.s.normalizing_index_offset,
     significant_figures |-> h.c.significant_figures,
     lowest_discernible_value |-> h.c.lowest_discernible_value,
     highest_trackable_value |-> h.c.highest_trackable_value,
     counts |-> EncodedCounts(h)]

EncodeFailures == {Fine, "encoded", "compressed", "compress"}

EncodeResult(fails) ==
    CASE fails = Fine -> OK
      [] fails \in {"encoded", "compressed"} -> "ENOMEM"
      [] fails = "compress" -> "HDR_DEFLATE_FAIL"

\* The blocks that hdr_encode_compressed has allocated when its cleanup begins.
EncodeHeld(fails) ==
    CASE fails = "encoded" -> {}
      [] fails = "compressed" -> {"encoded"}
      [] OTHER -> {"encoded", "compressed"}

EncodeFreed(fails) ==
    {"encoded"} \union (IF EncodeResult(fails) = "HDR_DEFLATE_FAIL" THEN {"compressed"} ELSE {})

\* What stays allocated and was not handed to the caller.
EncodeLeft(fails) ==
    LET handed == IF EncodeResult(fails) = OK THEN {"compressed"} ELSE {}
    IN  EncodeHeld(fails) \ (EncodeFreed(fails) \union handed)

-----------------------------------------------------------------------------
(***************************************************************************)
(* hdr_decode_compressed: decoded.result, the histogram read, and the      *)
(* blocks that are allocated when the cleanup begins.                      *)
(***************************************************************************)

\* apply_to_counts_zz.  The array that was inflated is followed by zeros, so that a
\* last number which is cut off ends in them.
ApplyToCountsZZ(c, data) ==
    LET buffer == data \o [k \in 1 .. MaxBytes |-> 0]
        apply[data_index \in 0 .. Len(buffer), counts_index \in 0 .. c.counts_len] ==
            IF data_index >= Len(data) \/ counts_index >= c.counts_len
            THEN [result |-> IF data_index > Len(data) THEN "HDR_VALUE_TRUNCATED"
                             ELSE IF data_index < Len(data) THEN "HDR_ENCODED_INPUT_TOO_LONG"
                             ELSE OK,
                  counts |-> EmptyBag]
            ELSE LET number == SubSeq(buffer, data_index + 1, Len(buffer))
                     value == ZigZagDecode(number)
                     next == data_index + BytesRead(number)
                     after == apply[next, counts_index + (IF value < 0 THEN -value ELSE 1)]
                 IN  IF counts_index - value > c.counts_len
                     THEN [result |-> "HDR_TRAILING_ZEROS_INVALID", counts |-> EmptyBag]
                     ELSE IF value <= 0 THEN after
                     ELSE [after EXCEPT !.counts = @ (+) (counts_index :> value)]
    IN  apply[0, 0]

\* apply_to_counts: the words of the counts or, if they are bytes, numbers as in version 2.
\* A word of another size is not applied.  Versions 0 and 1 do not look at the result.
ApplyToCounts(c, word_size, words) ==
    IF word_size = 1 THEN ApplyToCountsZZ(c, words).counts
    ELSE [i \in {i \in 0 .. Len(words) - 1 : word_size \in {2, 4, 8} /\ words[i + 1] # 0}
             |-> words[i + 1]]

Refused(result, held) == [result |-> result, histogram |-> NULL, held |-> held]

\* What hdr_init is called with.
Unusable(text) ==
    Rejected(text.lowest_discernible_value, text.highest_trackable_value,
             text.significant_figures)

Config(text) ==
    BucketConfig(text.lowest_discernible_value, text.highest_trackable_value,
                 text.significant_figures)

Blocks == {"histogram", "counts"}

Decoded(text, counts, offset) ==
    [result |-> OK,
     histogram |-> [c |-> Config(text),
                    s |-> RecountFields(Config(text),
                                        [EmptyFields(offset) EXCEPT !.counts = counts])],
     held |-> Blocks \union {"counts_array"}]

\* hdr_decode_compressed_v0 when the flyweight is inflated, with an array for exactly
\* counts_len words.
DecodeV0(text, fails) ==
    IF Unusable(text) \/ fails = "histogram" THEN Refused("ENOMEM", {})
    ELSE IF fails = "counts_array" THEN Refused("ENOMEM", Blocks)
    ELSE IF Len(text.counts) > Config(text).counts_len
    THEN Refused("HDR_INFLATE_FAIL", Blocks \union {"counts_array"})
    ELSE Decoded(text, ApplyToCounts(Config(text), text.word_size, text.counts), 0)

\* hdr_decode_compressed_v1, with an array for as many words as are announced.  Nothing
\* compares their number with counts_len, and the words behind the last count are written
\* behind the array of counts: no text that is decoded here has so many.
DecodeV1(text, fails) ==
    IF text.word_size = 0 THEN Refused("HDR_INVALID_WORD_SIZE", {})
    ELSE IF Unusable(text) \/ fails = "histogram" THEN Refused("ENOMEM", {})
    ELSE IF fails = "counts_array" THEN Refused("ENOMEM", Blocks)
    ELSE Decoded(text, ApplyToCounts(Config(text), text.word_size, text.counts),
                 text.normalizing_index_offset)

\* hdr_decode_compressed_v2, which passes on the result of hdr_init and of applying.
DecodeV2(text, fails) ==
    LET applied == ApplyToCountsZZ(Config(text), text.counts)
    IN  IF Unusable(text) THEN Refused("EINVAL", {})
        ELSE IF fails = "histogram" THEN Refused("ENOMEM", {})
        ELSE IF fails = "counts_array" THEN Refused("ENOMEM", Blocks)
        ELSE IF applied.result # OK
        THEN Refused(applied.result, Blocks \union {"counts_array"})
        ELSE Decoded(text, applied.counts, text.normalizing_index_offset)

DecodeFailures == {Fine, "inflateInit", "histogram", "counts_array"}

\* hdr_decode_compressed, and what the three versions have in common up to the cookie of
\* the text.  Inflating may fail as late as with the counts.
DecodeCompressed(zlib, buffer, fails) ==
    LET versions == {v \in 0 .. 2 : Len(buffer) > 0 /\ CompressionCookie[v] = buffer[1]}
        data == SubSeq(buffer, SizeofCompressionFlyweight + 1, Len(buffer))
        compressed_length == buffer[2]
        stream == SubSeq(data, 1, compressed_length)
        text == Inflate(zlib, stream)
    IN  IF Len(buffer) < SizeofCompressionFlyweight THEN Refused("EINVAL", {})
        ELSE IF versions = {} THEN Refused("HDR_COMPRESSION_COOKIE_MISMATCH", {})
        ELSE IF fails = "inflateInit" THEN Refused("HDR_INFLATE_FAIL", {})
        ELSE IF Len(data) < compressed_length THEN Refused("EINVAL", {})
        ELSE IF ~Inflates(zlib, stream)
        THEN Refused("HDR_INFLATE_FAIL", Blocks \union {"counts_array"})
        ELSE IF \A v \in versions : text.cookie # EncodingCookie[v]
        THEN Refused("HDR_ENCODING_COOKIE_MISMATCH", {})
        ELSE CASE 0 \in versions -> DecodeV0(text, fails)
               [] 1 \in versions -> DecodeV1(text, fails)
               [] 2 \in versions -> DecodeV2(text, fails)

Freed_NoCounts(result, target) ==     \* A mutant: hdr_free instead of hdr_close.
    {"counts_array"} \union (IF result # OK \/ target # NULL THEN {"histogram"} ELSE {})

\* What the cleanup frees: hdr_close(h) after an error, hdr_free(h) after adding.
Freed(result, target) ==
    {"counts_array"}
        \union (IF result # OK THEN Blocks
                ELSE IF target # NULL THEN {"histogram"}
                ELSE {})

\* What stays allocated and was not handed to the caller.
LeftBy(decoded, target) ==
    LET handed == IF decoded.result = OK /\ target = NULL THEN Blocks ELSE {}
    IN  decoded.held \ (Freed(decoded.result, target) \union handed)

Merged_Replace(decoded, target) ==    \* A mutant: the target is replaced.
    IF decoded.result # OK THEN target ELSE decoded.histogram

\* The caller's histogram after the cleanup.
Merged(decoded, target) ==
    IF decoded.result # OK THEN target
    ELSE IF target = NULL THEN decoded.histogram
    ELSE [target EXCEPT !.s = AddFields(target.c, @, decoded.histogram.c, decoded.histogram.s,
                                        FALSE, 0).fields]
=============================================================================
