------------------------------ MODULE MCFetch ------------------------------
\* Constants for TLC: the lengths of three keys of the sketch, a pool in which
\* two of them fit, and answers with isActive before, between and after others,
\* the chunked ones in chunks of two pieces and of four.
EXTENDS Fetch, SequencesExt

MCKeyLength == [day |-> 3, lenght |-> 6, isActive |-> 8]

Day    == [name |-> "day", value |-> 31]
Lenght == [name |-> "lenght", value |-> 18]
Active(b) == [name |-> "isActive", value |-> b]

Documents ==
  {<<Day, Active(1)>>, <<Active(1), Lenght>>, <<Day, Active(0)>>,
   <<Lenght, Active(1), Day>>, <<Day, Lenght, Active(1)>>, <<>>}

Numbered(first, last) == [i \in 1 .. last - first + 1 |-> Piece(first + i - 1)]

\* The k-th chunk of a text of len pieces.
ChunkOf(len, chunk, k) ==
  LET first == (k - 1) * chunk + 1
      last  == IF k * chunk < len THEN k * chunk ELSE len
  IN  <<Size(last - first + 1)>> \o Numbered(first, last) \o <<Crlf>>

Chunks(len, chunk) ==
  FlattenSeq([k \in 1 .. (len + chunk - 1) \div chunk |-> ChunkOf(len, chunk, k)])
    \o <<Size(0)>>

Plain(framing, ms) ==
  [code |-> 200, framing |-> framing, members |-> ms,
   stream |-> <<Header>> \o Numbered(1, Len(Text(ms)))]

InChunks(chunk, ms) ==
  [code |-> 200, framing |-> "chunked", members |-> ms,
   stream |-> <<Header>> \o Chunks(Len(Text(ms)), chunk)]

\* A page that is not HTTP, and one in a coding that is not understood.
Odd(status, framing) ==
  [code |-> status, framing |-> framing, members |-> <<>>,
   stream |-> <<Header>> \o Numbered(1, 1)]

MCReplies ==
  {Plain(f, ms) : f \in {"length", "close"}, ms \in Documents}
    \cup {InChunks(c, ms) : c \in {2, 4}, ms \in Documents}
    \cup {Odd(0, "close"), Odd(200, "other")}
=============================================================================
