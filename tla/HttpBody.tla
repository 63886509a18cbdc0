------------------------------ MODULE HttpBody ------------------------------
\* Bodies on the wire (http.go, streaming.go).  What follows the header of a
\* message is a sequence of tokens: a byte of a body, a chunk size with its
\* line end, a line end, a trailer line.  A body is a sequence of tokens too,
\* so that bytes taken from the wrong place are seen to be wrong.
EXTENDS Integers, Sequences, SequencesExt

CONSTANTS
  BufSize,      \* the buffer of copyBufPool: the largest chunk written
  ReadCap,      \* the capacity of the slice readBodyIdentity reads into
  Prefetch      \* how much readBodyWithStreaming reads ahead at most

Byte == [t |-> "byte"]
Size(n) == [t |-> "size", n |-> n]
CRLF == [t |-> "crlf"]
TrailerLine(kv) == [t |-> "line", k |-> kv.k, v |-> kv.v]

Bytes(n) == [i \in 1..n |-> Byte]

\* Streams: n bytes, then io.EOF or, if not ok, another error.  limited is the
\* size an io.LimitedReader tells, -1 for other readers.
NoStream == [id |-> 0, n |-> 0, ok |-> TRUE, limited |-> -1]

limitedReaderSize(stream) == stream.limited

\* Chunks of at most BufSize bytes and, unless the stream failed, the chunk of
\* size 0, whose line end comes with the trailer.
writeBodyChunked(stream) ==
  LET count == (stream.n + BufSize - 1) \div BufSize
      size(i) == IF i < count THEN BufSize ELSE stream.n - (count - 1) * BufSize
      chunk(i) == <<Size(size(i))>> \o Bytes(size(i)) \o <<CRLF>>
  IN  [out |-> FlattenSeq([i \in 1..count |-> chunk(i)])
                 \o (IF stream.ok THEN <<Size(0)>> ELSE <<>>),
       err |-> ~stream.ok]

\* Mutant: the number of bytes written is not compared with the size announced.
writeBodyFixedSizeUnchecked(stream, size) == [out |-> Bytes(stream.n), err |-> ~stream.ok]

\* Everything the stream gives is copied; another number than size is an error.
writeBodyFixedSize(stream, size) ==
  [out |-> Bytes(stream.n), err |-> ~stream.ok \/ stream.n # size]

writeTrailer(lines) == [i \in DOMAIN lines |-> TrailerLine(lines[i])] \o <<CRLF>>

Drop(in, n) == SubSeq(in, n + 1, Len(in))

\* Results of a read: the body, what is left of the input and the outcome:
\* "ok", "error", or "wait" when more input is needed and none will come.
Result(body, rest, outcome) == [body |-> body, rest |-> rest, outcome |-> outcome]

appendBodyFixedSize(in, n) ==
  IF Len(in) < n THEN Result(in, <<>>, "wait")
  ELSE Result(SubSeq(in, 1, n), Drop(in, n), "ok")

\* maxBodySize 0 is no limit.
readBody(in, n, maxBodySize) ==
  IF maxBodySize > 0 /\ n > maxBodySize THEN Result(<<>>, in, "too large")
  ELSE appendBodyFixedSize(in, n)

\* Until the peer closes; a read takes what there is, up to the capacity, which
\* grows to one byte more than the limit.
readBodyIdentity(in, maxBodySize, closed) ==
  IF maxBodySize > 0 /\ Len(in) > maxBodySize
  THEN LET cap == IF ReadCap > maxBodySize THEN ReadCap ELSE maxBodySize + 1
           n == IF Len(in) < cap THEN Len(in) ELSE cap
       IN  Result(SubSeq(in, 1, n), Drop(in, n), "too large")
  ELSE IF closed THEN Result(in, <<>>, "ok") ELSE Result(in, <<>>, "wait")

\* at[i] reads the chunks from position i on, body being what came before.
readBodyChunked(in, maxBodySize) ==
  LET bytesUpTo(i) == SelectSeq(SubSeq(in, 1, i - 1), LAMBDA tok : tok = Byte)
      at[i \in 1..Len(in) + 1] ==
        IF i > Len(in) THEN Result(<<>>, <<>>, "wait")
        ELSE IF in[i].t # "size" THEN Result(<<>>, <<>>, "error")
        ELSE LET n == in[i].n
             IN IF n = 0 THEN Result(bytesUpTo(i), Drop(in, i), "ok")
                ELSE IF maxBodySize > 0 /\ Len(bytesUpTo(i)) + n > maxBodySize
                THEN Result(<<>>, <<>>, "too large")
                ELSE IF i + n + 1 > Len(in) THEN Result(<<>>, <<>>, "wait")
                ELSE IF in[i + n + 1] # CRLF THEN Result(<<>>, <<>>, "error")
                ELSE at[i + n + 2]
  IN  at[1]

\* ReadTrailer: the lines up to the empty one; a chunk of size 0 in front of
\* them is skipped.
readTrailerLines(in) ==
  LET t == IF in # <<>> /\ Head(in) = Size(0) THEN Tail(in) ELSE in
      ends == {i \in DOMAIN t : t[i] = CRLF}
      e == CHOOSE i \in ends : \A j \in ends : i <= j
  IN  IF ends = {} THEN Result(<<>>, in, "wait")
      ELSE IF \E i \in 1..e - 1 : t[i].t # "line" THEN Result(<<>>, in, "error")
      ELSE Result([i \in 1..e - 1 |-> [k |-> t[i].k, v |-> t[i].v]], Drop(t, e), "ok")

\* What a stream with a known length has before the first Read of its user.
\* maxBodySize is positive: the server has a default.
readBodyWithStreaming(in, n, maxBodySize) ==
  LET readN == Min({maxBodySize, n, Prefetch})
      read == IF maxBodySize >= n THEN appendBodyFixedSize(in, readN)
              ELSE readBodyIdentity(in, readN, FALSE)
  IN  IF read.outcome = "ok" /\ n > maxBodySize
      THEN [read EXCEPT !.outcome = "too large"] ELSE read

\* requestStream.Read until io.EOF, for a body of n bytes of which `prefetched`
\* were read ahead: all of these are handed out first.
requestStreamReadAll(prefetched, in, n) ==
  IF Len(prefetched) > n THEN Result(prefetched, in, "error")
  ELSE LET read == appendBodyFixedSize(in, n - Len(prefetched))
       IN  [read EXCEPT !.body = prefetched \o @]
=============================================================================
