------------------------------- MODULE Request ------------------------------
\* Request of http.go: every operation is an operator on requests, with the
\* name it has in the code.  Lengths stand for bodies; Nil is a nil buffer.
\* form tells whether there is a multipart form; closes counts the calls of
\* Close on every stream.  The host of the URI is in the Host header already.
EXTENDS HttpBody

CONSTANTS
  Streams,         \* the streams handed to SetBodyStream
  FormLen          \* the length of the marshalled multipart form

H == INSTANCE RequestHeader

Nil == -1

New == [header |-> H!New, bodyStream |-> NoStream, body |-> Nil, bodyRaw |-> Nil,
        postArgs |-> 0, form |-> FALSE, keepBodyBuffer |-> FALSE,
        closes |-> [s \in Streams |-> 0]]

IsBodyStream(m) == m.bodyStream # NoStream

closeBodyStream(m) ==
  IF IsBodyStream(m)
  THEN [m EXCEPT !.bodyStream = NoStream, !.closes[m.bodyStream.id] = @ + 1]
  ELSE m

RemoveMultipartFormFiles(m) == [m EXCEPT !.form = FALSE]

\* The buffer, allocated if there is none; it is used instead of bodyRaw.
bodyBuffer(m) == [m EXCEPT !.body = IF @ = Nil THEN 0 ELSE @, !.bodyRaw = Nil]

\* A stream is read into the buffer and closed, unless bodyRaw hides it.
readStreamToBody(m) ==
  IF m.bodyRaw = Nil /\ IsBodyStream(m)
  THEN closeBodyStream([bodyBuffer(m) EXCEPT !.body = m.bodyStream.n])
  ELSE m

bodyBytes(m) == IF m.bodyRaw # Nil THEN m.bodyRaw ELSE IF m.body = Nil THEN 0 ELSE m.body

onlyMultipartForm(m) == m.form /\ m.body \in {Nil, 0}

\* The body is asked for: bodyRaw and a form are given as they are.
Body(m) == IF m.bodyRaw # Nil \/ onlyMultipartForm(m) THEN m ELSE readStreamToBody(m)

AppendBody(m, n) ==
  LET b == bodyBuffer(closeBodyStream(RemoveMultipartFormFiles(m)))
  IN  [b EXCEPT !.body = @ + n]

SetBody(m, n) ==
  [bodyBuffer(closeBodyStream(RemoveMultipartFormFiles(m))) EXCEPT !.body = n]

ResetBody(m) ==
  LET c == closeBodyStream(RemoveMultipartFormFiles([m EXCEPT !.bodyRaw = Nil]))
  IN  [c EXCEPT !.body = IF @ # Nil /\ m.keepBodyBuffer THEN 0 ELSE Nil]

SetBodyRaw(m, n) == [ResetBody(m) EXCEPT !.bodyRaw = n]

\* size is compared with the capacity of the buffer, here its length.
ReleaseBody(m, size) ==
  LET r == [m EXCEPT !.bodyRaw = Nil]
  IN  IF m.body # Nil /\ m.body > size THEN [closeBodyStream(r) EXCEPT !.body = Nil] ELSE r

SwapBody(m, n) == [readStreamToBody(bodyBuffer(m)) EXCEPT !.body = n, !.bodyRaw = Nil]

SetBodyStream(m, stream, size) ==
  LET r == [ResetBody(m) EXCEPT !.bodyStream = stream]
  IN  [r EXCEPT !.header = H!SetContentLength(@, size)]

\* MultipartForm: the form is read from the body, which stays.  The boundary
\* is that of the Content-Type.
MultipartForm(m) ==
  IF m.form \/ H!ContentType(m.header) # <<"multipart/form-data">> THEN m
  ELSE IF bodyBytes(m) > 0 /\ ~IsBodyStream(m) THEN [m EXCEPT !.form = TRUE] ELSE m

resetSkipHeader(m) == [ResetBody(m) EXCEPT !.postArgs = 0]

Reset(m) == [resetSkipHeader(m) EXCEPT !.header = H!Reset(@)]

\* Neither the stream nor the form is copied.
CopyTo(m, dst) ==
  LET d == [Reset(dst) EXCEPT !.header = H!CopyTo(m.header, @), !.postArgs = m.postArgs]
  IN  IF m.bodyRaw # Nil
      THEN [d EXCEPT !.bodyRaw = m.bodyRaw, !.body = IF @ # Nil THEN 0 ELSE Nil]
      ELSE IF m.body # Nil THEN [bodyBuffer(d) EXCEPT !.body = m.body]
      ELSE [d EXCEPT !.body = IF @ # Nil THEN 0 ELSE Nil]

\* What is written: the first line, the header's lines and the rest.
Wire(m, rest) ==
  [first |-> [protocol |-> H!Protocol(m.header), code |-> H!Method(m.header)],
   lines |-> H!AppendBytes(m.header), rest |-> rest]

writeBodyStream(m) ==
  LET limited == limitedReaderSize(m.bodyStream)
      known == m.header.contentLength >= 0 \/ limited >= 0
      length == IF m.header.contentLength >= 0 THEN m.header.contentLength ELSE limited
      sized == [m EXCEPT !.header =
                  IF m.header.contentLength >= 0 THEN @
                  ELSE H!SetContentLength(@, IF known THEN length ELSE -1)]
      body == IF known THEN writeBodyFixedSize(m.bodyStream, length)
              ELSE writeBodyChunked(m.bodyStream)
      trailer == IF known \/ body.err THEN <<>>
                 ELSE writeTrailer(H!TrailerHeader(sized.header))
  IN  [m |-> closeBodyStream(sized), wire |-> Wire(sized, body.out \o trailer),
       err |-> body.err]

\* The length of what Write sends when there is no stream: the body, else the
\* form, else the post arguments.
outgoing(m) ==
  LET n == IF onlyMultipartForm(m) THEN FormLen ELSE bodyBytes(m)
  IN  IF n = 0 THEN m.postArgs ELSE n

Write(m) ==
  LET typed == IF onlyMultipartForm(m)
               THEN [m EXCEPT !.header.contentType = <<"multipart/form-data">>] ELSE m
      n == outgoing(m)
      sized == IF n # 0 \/ ~H!ignoreBody(m.header)
               THEN [typed EXCEPT !.header = H!SetContentLength(@, n)] ELSE typed
  IN  IF H!Host(m.header) = <<>> THEN [m |-> m, wire |-> Wire(m, <<>>), err |-> TRUE]
      ELSE IF IsBodyStream(m) THEN writeBodyStream(m)
      ELSE [m |-> sized, wire |-> Wire(sized, Bytes(n)), err |-> FALSE]

MayContinue(m) == H!peek(m.header, "Expect") = <<"100-continue">>

\* The trailer of a chunked body.
ReadTrailer(m, read) ==
  LET lines == readTrailerLines(read.rest)
      header == H!ReadTrailer(m.header, lines.body)
  IN  IF lines.outcome # "ok" THEN [m |-> m, read |-> [read EXCEPT !.outcome = lines.outcome]]
      ELSE [m |-> [m EXCEPT !.header = header.hd],
            read |-> [read EXCEPT !.rest = lines.rest,
                                  !.outcome = IF header.err THEN "error" ELSE "ok"]]

\* A multipart body of known length is read as a form.
readsForm(m) ==
  /\ m.header.contentLength > 0
  /\ H!ContentType(m.header) = <<"multipart/form-data">>
  /\ H!peek(m.header, "Content-Encoding") = <<>>

ignored(m) ==
  IF H!ignoreBody(m.header) THEN m ELSE [m EXCEPT !.header = H!SetContentLength(@, 0)]

ContinueReadBody(m, in, maxBodySize) ==
  LET n == m.header.contentLength
      form == appendBodyFixedSize(in, n)
      read == IF n >= 0 THEN readBody(in, n, maxBodySize)
              ELSE readBodyChunked(in, maxBodySize)
      emptied == IF n = -1 /\ read.outcome = "ok" /\ read.body = <<>>
                 THEN [m EXCEPT !.header = H!SetContentLength(@, 0)] ELSE m
  IN  IF maxBodySize > 0 /\ n > maxBodySize THEN [m |-> m, read |-> Result(<<>>, in, "too large")]
      ELSE IF readsForm(m)
      THEN [m |-> IF form.outcome = "ok" THEN [m EXCEPT !.form = TRUE] ELSE Reset(m),
            read |-> form]
      ELSE IF n = -2 THEN [m |-> ignored(m), read |-> Result(<<>>, in, "ok")]
      ELSE IF read.outcome # "ok" THEN [m |-> Reset(m), read |-> read]
      ELSE IF n = -1 THEN ReadTrailer(emptied, read)
      ELSE [m |-> m, read |-> read]

\* With StreamRequestBody: the user of the stream reads it to its end.
ContinueReadBodyStream(m, in, maxBodySize) ==
  LET n == m.header.contentLength
      form == appendBodyFixedSize(in, n)
      chunks == readBodyChunked(in, 0)
      ahead == readBodyWithStreaming(in, n, maxBodySize)
  IN  IF readsForm(m)
      THEN [m |-> IF form.outcome = "ok" THEN [m EXCEPT !.form = TRUE] ELSE Reset(m),
            read |-> form]
      ELSE IF n = -2 THEN [m |-> ignored(m), read |-> Result(<<>>, in, "ok")]
      ELSE IF n = -1
      THEN IF chunks.outcome = "ok" THEN ReadTrailer(m, chunks) ELSE [m |-> m, read |-> chunks]
      ELSE IF ahead.outcome \notin {"ok", "too large"} THEN [m |-> Reset(m), read |-> ahead]
      ELSE [m |-> [m EXCEPT !.header = H!SetContentLength(@, n)],
            read |-> requestStreamReadAll(ahead.body, ahead.rest, n)]

\* readLimitBody and readBodyStream after Header.Read.  A request that expects
\* 100 Continue is left to the caller, who then calls ContinueReadBody.
afterHeader(m, err, in, maxBodySize, stream) ==
  IF err THEN [m |-> m, read |-> Result(<<>>, in, "error")]
  ELSE IF MayContinue(m) THEN [m |-> m, read |-> Result(<<>>, in, "continue")]
  ELSE IF stream THEN ContinueReadBodyStream(m, in, maxBodySize)
  ELSE ContinueReadBody(m, in, maxBodySize)

ReadLimitBody(m, wire, maxBodySize, stream) ==
  LET header == H!Read(m.header, wire.first, wire.lines)
  IN  afterHeader([resetSkipHeader(m) EXCEPT !.header = header.hd], header.err,
                  wire.rest, maxBodySize, stream)
=============================================================================
