------------------------------ MODULE Response ------------------------------
\* Response of http.go: every operation is an operator on responses, with the
\* name it has in the code.  Lengths stand for bodies; Nil is a nil buffer.
\* closes counts, for every stream, how often Close was called on it.
EXTENDS HttpBody

CONSTANTS
  Streams,         \* the streams handed to SetBodyStream
  MinCompressLen   \* bodies below it are not compressed

H == INSTANCE ResponseHeader

Nil == -1

New == [header |-> H!New, bodyStream |-> NoStream, body |-> Nil, bodyRaw |-> Nil,
        skipBody |-> FALSE, streamBody |-> FALSE, keepBodyBuffer |-> FALSE,
        closes |-> [s \in Streams |-> 0]]

IsBodyStream(m) == m.bodyStream # NoStream

closeBodyStream(m) ==
  IF IsBodyStream(m)
  THEN [m EXCEPT !.bodyStream = NoStream, !.closes[m.bodyStream.id] = @ + 1]
  ELSE m

\* The buffer, allocated if there is none; it is used instead of bodyRaw.
bodyBuffer(m) == [m EXCEPT !.body = IF @ = Nil THEN 0 ELSE @, !.bodyRaw = Nil]

bodyBytes(m) == IF m.bodyRaw # Nil THEN m.bodyRaw ELSE IF m.body = Nil THEN 0 ELSE m.body

\* Body: a stream is read into the buffer and closed.  (On a read error the
\* buffer holds the error's text, of no particular length: n of the stream.)
Body(m) ==
  IF IsBodyStream(m)
  THEN closeBodyStream([bodyBuffer(m) EXCEPT !.body = m.bodyStream.n])
  ELSE m

AppendBody(m, n) ==
  LET b == bodyBuffer(closeBodyStream(m)) IN [b EXCEPT !.body = @ + n]

SetBody(m, n) == [bodyBuffer(closeBodyStream(m)) EXCEPT !.body = n]

\* Mutant: the body stream is dropped without being closed.
ResetBodyNoClose(m) ==
  [m EXCEPT !.bodyRaw = Nil, !.bodyStream = NoStream,
            !.body = IF @ # Nil /\ m.keepBodyBuffer THEN 0 ELSE Nil]

ResetBody(m) ==
  LET c == closeBodyStream([m EXCEPT !.bodyRaw = Nil])
  IN  [c EXCEPT !.body = IF @ # Nil /\ m.keepBodyBuffer THEN 0 ELSE Nil]

SetBodyRaw(m, n) == [ResetBody(m) EXCEPT !.bodyRaw = n]

\* size is compared with the capacity of the buffer, here its length.
ReleaseBody(m, size) ==
  LET r == [m EXCEPT !.bodyRaw = Nil]
  IN  IF m.body # Nil /\ m.body > size THEN [closeBodyStream(r) EXCEPT !.body = Nil] ELSE r

SwapBody(m, n) == [Body(bodyBuffer(m)) EXCEPT !.body = n, !.bodyRaw = Nil]

SetBodyStream(m, stream, size) ==
  LET r == [ResetBody(m) EXCEPT !.bodyStream = stream]
  IN  [r EXCEPT !.header = H!SetContentLength(@, size)]

Reset(m) ==
  [ResetBody(m) EXCEPT !.header = H!Reset(@), !.skipBody = FALSE, !.streamBody = FALSE]

\* The stream is not copied.
CopyTo(m, dst) ==
  LET d == [Reset(dst) EXCEPT !.header = H!CopyTo(m.header, @), !.skipBody = m.skipBody]
  IN  IF m.bodyRaw # Nil
      THEN [d EXCEPT !.bodyRaw = m.bodyRaw, !.body = IF @ # Nil THEN 0 ELSE Nil]
      ELSE IF m.body # Nil THEN [bodyBuffer(d) EXCEPT !.body = m.body]
      ELSE [d EXCEPT !.body = IF @ # Nil THEN 0 ELSE Nil]

\* A compressed body has another length.  (gzipBody, deflateBody and brotliBody
\* are the same but for the coding.)
gzipBody(m) ==
  LET coded(r) == [r EXCEPT !.header =
                     H!addVaryBytes([@ EXCEPT !.contentEncoding = <<"gzip">>],
                                    <<"Accept-Encoding">>)]
  IN  IF m.header.contentEncoding # <<>> \/ ~H!isCompressibleContentType(m.header) THEN m
      ELSE IF IsBodyStream(m)
      THEN coded([m EXCEPT !.header = H!SetContentLength(@, -1),
                           !.bodyStream = [@ EXCEPT !.n = @ + 1, !.limited = -1,
                                                    !.ok = TRUE]])
      ELSE IF bodyBytes(m) < MinCompressLen THEN m
      ELSE coded([m EXCEPT !.body = bodyBytes(m) - 1, !.bodyRaw = Nil])

mustSkipBody(m) == m.skipBody \/ H!mustSkipContentLength(m.header)

\* What is written: the first line, the header's lines and the rest.
Wire(m, rest) ==
  [first |-> [protocol |-> H!Protocol(m.header), code |-> H!StatusCode(m.header)],
   lines |-> H!AppendBytes(m.header), rest |-> rest]

writeBodyStream(m) ==
  LET sendBody == ~mustSkipBody(m)
      limited == limitedReaderSize(m.bodyStream)
      known == m.header.contentLength >= 0 \/ limited >= 0
      length == IF m.header.contentLength >= 0 THEN m.header.contentLength ELSE limited
      sized == [m EXCEPT !.header =
                  IF m.header.contentLength >= 0 THEN @
                  ELSE H!SetContentLength(@, IF known THEN length ELSE -1)]
      body == IF ~sendBody THEN [out |-> <<>>, err |-> FALSE]
              ELSE IF known THEN writeBodyFixedSize(m.bodyStream, length)
              ELSE writeBodyChunked(m.bodyStream)
      trailer == IF known \/ body.err THEN <<>>
                 ELSE writeTrailer(H!TrailerHeader(sized.header))
  IN  [m |-> closeBodyStream(sized), wire |-> Wire(sized, body.out \o trailer),
       err |-> body.err]

Write(m) ==
  LET n == bodyBytes(m)
      sized == IF ~mustSkipBody(m) \/ n > 0
               THEN [m EXCEPT !.header = H!SetContentLength(@, n)] ELSE m
  IN  IF IsBodyStream(m) THEN writeBodyStream(m)
      ELSE [m |-> sized, err |-> FALSE,
            wire |-> Wire(sized, IF mustSkipBody(m) THEN <<>> ELSE Bytes(n))]

\* ReadBody.  With streamBody a body that is chunked or larger than the limit
\* is left in the connection for the reader of the stream (outcome "stream").
ReadBody(m, in, maxBodySize, closed) ==
  LET n == m.header.contentLength
      read == IF n >= 0 THEN readBody(in, n, maxBodySize)
              ELSE IF n = -1 THEN readBodyChunked(in, maxBodySize)
              ELSE readBodyIdentity(in, maxBodySize, closed)
  IN  IF m.streamBody /\ (n = -1 \/ (n >= 0 /\ read.outcome = "too large"))
      THEN Result(<<>>, in, "stream") ELSE read

\* The trailer of a chunked body; header.err is whether it was refused.
ReadTrailer(m, read) ==
  LET lines == readTrailerLines(read.rest)
      header == H!ReadTrailer(m.header, lines.body)
  IN  IF lines.outcome # "ok" THEN [m |-> m, read |-> [read EXCEPT !.outcome = lines.outcome]]
      ELSE [m |-> [m EXCEPT !.header = header.hd],
            read |-> [read EXCEPT !.rest = lines.rest,
                                  !.outcome = IF header.err THEN "error" ELSE "ok"]]

\* ReadLimitBody after the body, and after the header.  The second header read
\* after a 100 Continue is left out: no writer of the model sends that status.
afterBody(m, read) ==
  LET sized == IF ~mustSkipBody(m) /\ m.header.contentLength = -2
               THEN [m EXCEPT !.header = H!SetContentLength(@, Len(read.body))] ELSE m
  IN  IF read.outcome = "ok" /\ m.header.contentLength = -1 /\ ~m.streamBody
      THEN ReadTrailer(sized, read)
      ELSE [m |-> sized, read |-> read]

afterHeader(m, err, in, maxBodySize, closed) ==
  IF err THEN [m |-> m, read |-> Result(<<>>, in, "error")]
  ELSE afterBody(m, IF mustSkipBody(m) THEN Result(<<>>, in, "ok")
                    ELSE ReadBody(m, in, maxBodySize, closed))

\* ReadLimitBody.  closed: the peer closes the connection after the message.
ReadLimitBody(m, wire, maxBodySize, closed) ==
  LET header == H!Read(m.header, wire.first, wire.lines)
  IN  afterHeader([ResetBody(m) EXCEPT !.header = header.hd], header.err,
                  wire.rest, maxBodySize, closed)

\* The user of a streamed body reads it to its end.
ReadStream(m, in) ==
  IF m.header.contentLength = -1
  THEN LET read == readBodyChunked(in, 0)
       IN  IF read.outcome = "ok" THEN ReadTrailer(m, read) ELSE [m |-> m, read |-> read]
  ELSE [m |-> m, read |-> requestStreamReadAll(<<>>, in, m.header.contentLength)]
=============================================================================
