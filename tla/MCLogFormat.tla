----------------------------- MODULE MCLogFormat -----------------------------
(* LogFormat for TLC: headers, lines of this and other programs, and callers. *)
EXTENDS LogFormat

\* What is left of a histogram after recording value copies[value] times for each value.
Recorded(arguments, copies) ==
    LET c == BucketConfig(arguments[1], arguments[2], arguments[3])
    IN  [c |-> c,
         s |-> FoldLeft(LAMBDA s, v : RecordValues(c, s, v, copies[v]),
                        EmptyFields(0), SetToSortSeq(DOMAIN copies, <))]

\* Base64 shares characters with numbers and tags.
MCAlphabet == <<"A", "T", "a", "g", "x", "0", "1", "+">>

At(sec, nsec) == [sec |-> sec, nsec |-> nsec]

\* A prefix that fits a line of the header, one that does not, and none.
MCHeaders ==
    {[user_prefix |-> <<"f", "o">>, timestamp |-> At(12, 4)],
     [user_prefix |-> <<"f", "o", "o", "b", "a", "r", "1", "2">>, timestamp |-> At(1, 0)],
     [user_prefix |-> NULL, timestamp |-> NULL]}

\* Times that are rounded down, up, and up to the next second; a tag longer than some
\* buffers; nothing, and counts at both ends with zeros before, between and after them.
MCLines ==
    LET plain == [tag |-> <<>>, start_timestamp |-> At(2, 51), interval |-> At(1, 0)]
        tagged == [tag |-> <<"x", "1", "0">>, start_timestamp |-> At(0, 36), interval |-> At(9, 98)]
        empty == Recorded(<<1, 63, 1>>, <<>>)
        full == Recorded(<<1, 63, 1>>, 0 :> 1 @@ 40 :> 300)
    IN  {[entry |-> tagged, histogram |-> full], [entry |-> plain, histogram |-> empty]}

MCForeignEntry == [tag |-> <<"g">>, start_timestamp |-> At(3, 0), interval |-> At(4, 0)]

MCText(version, word_size, offset, counts) ==
    [cookie |-> EncodingCookie[version], word_size |-> word_size,
     normalizing_index_offset |-> offset, significant_figures |-> 1,
     lowest_discernible_value |-> 1, highest_trackable_value |-> 63, counts |-> counts]

MCLine(version, text, counts) ==
    LET c == BucketConfig(1, 63, 1)
    IN  [entry |-> MCForeignEntry, max |-> 9, version |-> version, text |-> text,
         histogram |-> IF counts = NULL THEN NULL
                       ELSE [c |-> c,
                             s |-> RecountFields(c,
                                 [EmptyFields(text.normalizing_index_offset) EXCEPT !.counts = counts])]]

\* Counts as words in version 0, and in version 1 rotated by an offset; in version 2 all
\* counts and no zeros at the end; zeros that leave the array, a last number that is cut
\* off, numbers for more counts than there are, arguments that no histogram has, and words
\* of no size; and zeros that leave the array in version 1, which are not refused.
MCForeign ==
    {MCLine(0, MCText(0, 2, 0, [i \in 1 .. 48 |-> i % 2]), [i \in {2 * k : k \in 0 .. 23} |-> 1]),
     MCLine(1, MCText(1, 8, 3, <<0, 7, 0, 2>>), 1 :> 7 @@ 3 :> 2),
     MCLine(2, MCText(2, 1, 0, ZigZagEncode(-47) \o ZigZagEncode(5)), 47 :> 5),
     MCLine(2, MCText(2, 1, 0, ZigZagEncode(4) \o ZigZagEncode(-48)), NULL),
     MCLine(2, MCText(2, 1, 0, ZigZagEncode(4) \o <<9>>), NULL),
     MCLine(2, MCText(2, 1, 0, ZigZagEncode(-48) \o ZigZagEncode(1)), NULL),
     MCLine(2, [MCText(2, 1, 0, ZigZagEncode(4)) EXCEPT !.significant_figures = 0], NULL),
     MCLine(1, MCText(1, 0, 0, <<4>>), NULL),
     MCLine(1, MCText(1, 1, 0, ZigZagEncode(4) \o ZigZagEncode(-48)), 0 :> 4)}

\* Callers that take each histogram, with a buffer for the tag and without one; that
\* merge them all; and that merge them into one with fewer and wider ranges.
MCCallers ==
    {[tag_len |-> 2, keeps |-> FALSE, had |-> NULL, target |-> NULL],
     [tag_len |-> 0, keeps |-> TRUE, had |-> NULL, target |-> NULL]}
    \union {[tag_len |-> 3, keeps |-> TRUE, had |-> h, target |-> h] :
                h \in {Recorded(<<2, 39, 1>>, 5 :> 2)}}
=============================================================================
