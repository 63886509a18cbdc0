--------------------------- MODULE ResponseHeader ---------------------------
\* ResponseHeader of header.go: every operation is an operator from headers to
\* headers, with the name it has in the code.
EXTENDS HeaderKeys

New == [disableNormalizing |-> FALSE, noHTTP11 |-> FALSE, connectionClose |-> FALSE,
        noDefaultContentType |-> FALSE, noDefaultDate |-> FALSE, statusCode |-> 0,
        protocol |-> "", contentLength |-> 0, contentLengthBytes |-> <<>>,
        contentType |-> <<>>, contentEncoding |-> <<>>, server |-> <<>>,
        h |-> <<>>, trailer |-> <<>>, cookies |-> <<>>]

resetSkipNormalize(hd) ==
  [New EXCEPT !.disableNormalizing = hd.disableNormalizing,
              !.noDefaultContentType = hd.noDefaultContentType,
              !.noDefaultDate = hd.noDefaultDate]

Reset(hd) ==
  resetSkipNormalize([hd EXCEPT !.disableNormalizing = FALSE,
                                !.noDefaultContentType = FALSE, !.noDefaultDate = FALSE])

\* Mutant: the protocol is forgotten.
CopyToNoProtocol(hd, dst) ==
  [Reset(dst) EXCEPT
     !.disableNormalizing = hd.disableNormalizing, !.noHTTP11 = hd.noHTTP11,
     !.connectionClose = hd.connectionClose,
     !.noDefaultContentType = hd.noDefaultContentType,
     !.noDefaultDate = hd.noDefaultDate, !.statusCode = hd.statusCode,
     !.contentLength = hd.contentLength,
     !.contentLengthBytes = hd.contentLengthBytes, !.contentType = hd.contentType,
     !.contentEncoding = hd.contentEncoding, !.server = hd.server, !.h = hd.h,
     !.cookies = hd.cookies, !.trailer = hd.trailer]

\* Every field by name, as the code does: one left out would keep its reset
\* value.
CopyTo(hd, dst) ==
  [Reset(dst) EXCEPT
     !.disableNormalizing = hd.disableNormalizing, !.noHTTP11 = hd.noHTTP11,
     !.connectionClose = hd.connectionClose,
     !.noDefaultContentType = hd.noDefaultContentType,
     !.noDefaultDate = hd.noDefaultDate, !.statusCode = hd.statusCode,
     !.protocol = hd.protocol, !.contentLength = hd.contentLength,
     !.contentLengthBytes = hd.contentLengthBytes, !.contentType = hd.contentType,
     !.contentEncoding = hd.contentEncoding, !.server = hd.server, !.h = hd.h,
     !.cookies = hd.cookies, !.trailer = hd.trailer]

StatusCode(hd) == IF hd.statusCode = 0 THEN 200 ELSE hd.statusCode

SetStatusCode(hd, code) == [hd EXCEPT !.statusCode = code]

Protocol(hd) == IF hd.protocol = "" THEN "HTTP/1.1" ELSE hd.protocol

SetProtocol(hd, protocol) == [hd EXCEPT !.protocol = protocol]

\* Mutant: only the header line is set.
SetConnectionCloseLine(hd) == [hd EXCEPT !.h = setArg(@, "Connection", <<"close">>)]

SetConnectionClose(hd) == [hd EXCEPT !.connectionClose = TRUE]

ResetConnectionClose(hd) ==
  IF hd.connectionClose
  THEN [hd EXCEPT !.connectionClose = FALSE, !.h = delAllArgs(@, "Connection")]
  ELSE hd

mustSkipContentLength(hd) ==
  LET code == StatusCode(hd) IN code >= 100 /\ (code \in {204, 304} \/ code < 200)

\* -1 is chunked, -2 identity: the end of the connection ends the body.
SetContentLength(hd, n) ==
  IF mustSkipContentLength(hd) THEN hd
  ELSE IF n >= 0
  THEN [hd EXCEPT !.contentLength = n, !.contentLengthBytes = AppendUint(n),
                  !.h = delAllArgs(@, "Transfer-Encoding")]
  ELSE [hd EXCEPT !.contentLength = n, !.contentLengthBytes = <<>>,
                  !.connectionClose = @ \/ n = -2,
                  !.h = setArg(@, "Transfer-Encoding",
                               IF n = -2 THEN <<"identity">> ELSE <<"chunked">>)]

ContentType(hd) ==
  IF hd.contentType = <<>> /\ ~hd.noDefaultContentType
  THEN <<"text/plain">> ELSE hd.contentType

isCompressibleContentType(hd) == ContentType(hd) # <<>> /\ ContentType(hd) # <<"image/png">>

setNonSpecial(hd, key, value) == [hd EXCEPT !.h = setArg(@, key, value)]

SetTrailer(hd, value) ==
  [hd EXCEPT !.trailer = addTrailerNames(<<>>, value, hd.disableNormalizing).trailer]

AddTrailer(hd, value) ==
  [hd EXCEPT !.trailer = addTrailerNames(@, value, hd.disableNormalizing).trailer]

SpecialKeys == {"Content-Type", "Content-Length", "Content-Encoding", "Connection",
                "Server", "Set-Cookie", "Transfer-Encoding", "Trailer", "Date"}

\* For a key of SpecialKeys, in any spelling.
setSpecialHeader(hd, key, value) ==
  LET k == Canon(key)
  IN CASE k = "Content-Type"     -> [hd EXCEPT !.contentType = value]
       [] k = "Content-Length"   ->
            IF parseContentLength(value) = -1 THEN hd
            ELSE [hd EXCEPT !.contentLength = parseContentLength(value),
                            !.contentLengthBytes = value]
       [] k = "Content-Encoding" -> [hd EXCEPT !.contentEncoding = value]
       [] k = "Connection"       ->
            IF value = <<"close">> THEN SetConnectionClose(hd)
            ELSE setNonSpecial(ResetConnectionClose(hd), key, value)
       [] k = "Server"           -> [hd EXCEPT !.server = value]
       [] k = "Set-Cookie"       ->
            [hd EXCEPT !.cookies = appendArg(@, getCookieKey(value[1]), value)]
       [] k = "Trailer"          -> SetTrailer(hd, value)
       [] OTHER                  -> hd  \* Transfer-Encoding and Date are managed

SetCanonical(hd, key, value) ==
  IF Canon(key) \in SpecialKeys THEN setSpecialHeader(hd, key, value)
  ELSE setNonSpecial(hd, key, value)

Set(hd, key, value) ==
  SetCanonical(hd, normalizeHeaderKey(key, hd.disableNormalizing), value)

Add(hd, key, value) ==
  IF Canon(key) \in SpecialKeys THEN setSpecialHeader(hd, key, value)
  ELSE [hd EXCEPT !.h = appendArg(@, normalizeHeaderKey(key, hd.disableNormalizing), value)]

\* The special fields are found by the exact, not the case insensitive, name.
del(hd, key) ==
  LET cleared ==
        CASE key = "Content-Type"     -> [hd EXCEPT !.contentType = <<>>]
          [] key = "Content-Encoding" -> [hd EXCEPT !.contentEncoding = <<>>]
          [] key = "Server"           -> [hd EXCEPT !.server = <<>>]
          [] key = "Set-Cookie"       -> [hd EXCEPT !.cookies = <<>>]
          [] key = "Content-Length"   ->
               [hd EXCEPT !.contentLength = 0, !.contentLengthBytes = <<>>]
          [] key = "Connection"       -> [hd EXCEPT !.connectionClose = FALSE]
          [] key = "Trailer"          -> [hd EXCEPT !.trailer = <<>>]
          [] OTHER                    -> hd
  IN  [cleared EXCEPT !.h = delAllArgs(@, key)]

Del(hd, key) == del(hd, normalizeHeaderKey(key, hd.disableNormalizing))

SetCookie(hd, token) == [hd EXCEPT !.cookies = setArg(@, getCookieKey(token), <<token>>)]

DelCookie(hd, key) == [hd EXCEPT !.cookies = delAllArgs(@, key)]

DelAllCookies(hd) == [hd EXCEPT !.cookies = <<>>]

peek(hd, key) ==
  CASE key = "Content-Type"     -> ContentType(hd)
    [] key = "Content-Encoding" -> hd.contentEncoding
    [] key = "Server"           -> hd.server
    [] key = "Connection"       ->
         IF hd.connectionClose THEN <<"close">> ELSE peekArg(hd.h, key, <<>>)
    [] key = "Content-Length"   -> hd.contentLengthBytes
    [] key = "Set-Cookie"       -> [i \in DOMAIN hd.cookies |-> hd.cookies[i].v[1]]
    [] key = "Trailer"          -> peekArgsKeys(hd.trailer)
    [] OTHER                    -> peekArg(hd.h, key, <<>>)

\* Special names have one value (none when a textual one is empty).
peekAll(hd, key) ==
  IF key \in {"Content-Type", "Content-Encoding", "Server"}
  THEN IF peek(hd, key) = <<>> THEN <<>> ELSE <<peek(hd, key)>>
  ELSE IF key \in {"Content-Length", "Set-Cookie", "Trailer"} \/
          (key = "Connection" /\ hd.connectionClose)
  THEN <<peek(hd, key)>>
  ELSE peekAllArg(hd.h, key)

PeekAll(hd, key) == peekAll(hd, normalizeHeaderKey(key, hd.disableNormalizing))

addVaryBytes(hd, value) ==
  LET v == peek(hd, "Vary")
  IN  IF v = <<>> THEN Set(hd, "Vary", value)
      ELSE IF value[1] \in {v[i] : i \in DOMAIN v} THEN hd
      ELSE Set(hd, "Vary", v \o value)

\* The lines of the header, in order.
AppendBytes(hd) ==
  LineIfSet("Server", hd.server)
    \o (IF hd.noDefaultDate THEN <<>> ELSE appendHeaderLine("Date", <<"now">>))
    \o (IF hd.contentLength # 0 \/ hd.contentType # <<>>
        THEN LineIfSet("Content-Type", ContentType(hd)) ELSE <<>>)
    \o LineIfSet("Content-Encoding", hd.contentEncoding)
    \o LineIfSet("Content-Length", hd.contentLengthBytes)
    \o (IF hd.noDefaultDate THEN notTrailers(hd.h, hd.trailer)
        ELSE delAllArgs(notTrailers(hd.h, hd.trailer), "Date"))
    \o LineIfSet("Trailer", peekArgsKeys(hd.trailer))
    \o [i \in DOMAIN hd.cookies |-> [k |-> "Set-Cookie", v |-> hd.cookies[i].v]]
    \o (IF hd.connectionClose THEN appendHeaderLine("Connection", <<"close">>) ELSE <<>>)

\* Mutant: the trailer's value is taken when it is declared.
TrailerHeaderStored(hd) == [i \in DOMAIN hd.trailer |-> [k |-> hd.trailer[i].k, v |-> <<>>]]

\* The lines after a chunked body.
TrailerHeader(hd) ==
  [i \in DOMAIN hd.trailer |-> [k |-> hd.trailer[i].k, v |-> peek(hd, hd.trailer[i].k)]]

parseFirstLine(hd, first) ==
  [hd EXCEPT !.noHTTP11 = first.protocol # "HTTP/1.1", !.statusCode = first.code]

\* One header line.  acc is the header read so far and the variable err of
\* parseHeaders, which a later line may clear again.
parseLine(acc, key, value) ==
  LET hd == acc.hd
      k == Canon(key)
      to(new) == [acc EXCEPT !.hd = new]
  IN CASE k = "Content-Type"      -> to([hd EXCEPT !.contentType = value])
       [] k = "Content-Encoding"  -> to([hd EXCEPT !.contentEncoding = value])
       [] k = "Content-Length"    ->
            IF hd.contentLength = -1 THEN acc
            ELSE IF parseContentLength(value) = -1
            THEN [hd |-> [hd EXCEPT !.contentLength = -2], err |-> TRUE]
            ELSE [hd |-> [hd EXCEPT !.contentLength = parseContentLength(value),
                                    !.contentLengthBytes = value], err |-> FALSE]
       [] k = "Connection"        ->
            to(IF value = <<"close">> THEN SetConnectionClose(hd)
               ELSE [hd EXCEPT !.connectionClose = FALSE, !.h = appendArg(@, key, value)])
       [] k = "Server"            -> to([hd EXCEPT !.server = value])
       [] k = "Set-Cookie"        ->
            to([hd EXCEPT !.cookies = appendArg(@, getCookieKey(value[1]), value)])
       [] k = "Transfer-Encoding" ->
            IF value = <<>> \/ value = <<"identity">> THEN acc
            ELSE to([hd EXCEPT !.contentLength = -1,
                               !.h = setArg(@, "Transfer-Encoding", <<"chunked">>)])
       [] k = "Trailer"           ->
            [hd |-> SetTrailer(hd, value),
             err |-> addTrailerNames(<<>>, value, hd.disableNormalizing).err]
       [] OTHER                   -> to([hd EXCEPT !.h = appendArg(@, key, value)])

\* What parseHeaders does after the last line.
sized(hd) == IF hd.contentLength < 0 THEN [hd EXCEPT !.contentLengthBytes = <<>>] ELSE hd

\* Without a length the body goes on to the end of the connection.
identity(hd) ==
  IF /\ hd.contentLength = -2
     /\ ~hasHeaderValue(peek(hd, "Connection"), "upgrade")
     /\ ~mustSkipContentLength(hd)
  THEN [hd EXCEPT !.h = setArg(@, "Transfer-Encoding", <<"identity">>), !.connectionClose = TRUE]
  ELSE hd

\* A connection of HTTP/1.0 is kept only if the peer asks for it.
keptAlive(hd) ==
  IF hd.noHTTP11 /\ ~hd.connectionClose
  THEN [hd EXCEPT !.connectionClose =
          ~hasHeaderValue(peekArg(hd.h, "Connection", <<>>), "keep-alive")]
  ELSE hd

finished(read) == [read EXCEPT !.hd = keptAlive(identity(sized(@)))]

\* The header and whether there was an error.
parseHeaders(hd, lines) ==
  LET step(acc, kv) == parseLine(acc, normalizeHeaderKey(kv.k, hd.disableNormalizing), kv.v)
  IN  finished(FoldLeft(step, [hd |-> [hd EXCEPT !.contentLength = -2], err |-> FALSE], lines))

\* Read: the first line and the lines up to the empty one; an error leaves the
\* header reset.
Read(hd, first, lines) ==
  LET checked(parsed) ==
        IF parsed.err THEN [parsed EXCEPT !.hd = resetSkipNormalize(@)] ELSE parsed
  IN  checked(parseHeaders(parseFirstLine(resetSkipNormalize(hd), first), lines))

ReadTrailer(hd, lines) ==
  LET parsed == parseTrailerLines(hd.h, lines)
  IN  [hd |-> [hd EXCEPT !.h = parsed.h], err |-> parsed.err]
=============================================================================
