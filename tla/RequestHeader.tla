--------------------------- MODULE RequestHeader ----------------------------
\* RequestHeader of header.go: every operation is an operator from headers to
\* headers, with the name it has in the code.
EXTENDS HeaderKeys

New == [disableNormalizing |-> FALSE, noHTTP11 |-> FALSE, connectionClose |-> FALSE,
        noDefaultContentType |-> FALSE, disableSpecialHeader |-> FALSE,
        cookiesCollected |-> FALSE, contentLength |-> 0, contentLengthBytes |-> <<>>,
        method |-> "", proto |-> "", host |-> <<>>, contentType |-> <<>>,
        userAgent |-> <<>>, h |-> <<>>, trailer |-> <<>>, cookies |-> <<>>]

resetSkipNormalize(hd) ==
  [New EXCEPT !.disableNormalizing = hd.disableNormalizing,
              !.noDefaultContentType = hd.noDefaultContentType,
              !.disableSpecialHeader = hd.disableSpecialHeader]

Reset(hd) ==
  resetSkipNormalize([hd EXCEPT !.disableSpecialHeader = FALSE,
                                !.disableNormalizing = FALSE,
                                !.noDefaultContentType = FALSE])

\* Every field by name; disableSpecialHeader is not among them.  By value: the
\* elements of trailer share their bytes with the original's, so that a SetTrailer
\* there would write over them; here nobody writes the original of a copy that is
\* still to be sent.
CopyTo(hd, dst) ==
  [Reset(dst) EXCEPT
     !.disableNormalizing = hd.disableNormalizing, !.noHTTP11 = hd.noHTTP11,
     !.connectionClose = hd.connectionClose,
     !.noDefaultContentType = hd.noDefaultContentType,
     !.contentLength = hd.contentLength, !.contentLengthBytes = hd.contentLengthBytes,
     !.method = hd.method, !.proto = hd.proto, !.host = hd.host,
     !.contentType = hd.contentType, !.userAgent = hd.userAgent,
     !.trailer = hd.trailer, !.h = hd.h, !.cookies = hd.cookies,
     !.cookiesCollected = hd.cookiesCollected]

Method(hd) == IF hd.method = "" THEN "GET" ELSE hd.method

SetMethod(hd, method) == [hd EXCEPT !.method = method]

ignoreBody(hd) == Method(hd) \in {"GET", "HEAD"}

Protocol(hd) == IF hd.proto = "" THEN "HTTP/1.1" ELSE hd.proto

SetProtocol(hd, proto) == [hd EXCEPT !.proto = proto, !.noHTTP11 = proto # "HTTP/1.1"]

SetConnectionClose(hd) == [hd EXCEPT !.connectionClose = TRUE]

ResetConnectionClose(hd) ==
  IF hd.connectionClose
  THEN [hd EXCEPT !.connectionClose = FALSE, !.h = delAllArgs(@, "Connection")]
  ELSE hd

\* A negative length is chunked.
SetContentLength(hd, n) ==
  IF n >= 0
  THEN [hd EXCEPT !.contentLength = n, !.contentLengthBytes = AppendUint(n),
                  !.h = delAllArgs(@, "Transfer-Encoding")]
  ELSE [hd EXCEPT !.contentLength = n, !.contentLengthBytes = <<>>,
                  !.h = setArg(@, "Transfer-Encoding", <<"chunked">>)]

\* Without special headers the value is an ordinary one.
ContentType(hd) ==
  IF hd.disableSpecialHeader THEN peekArg(hd.h, "Content-Type", <<>>) ELSE hd.contentType

Host(hd) ==
  IF hd.disableSpecialHeader THEN peekArg(hd.h, "Host", <<>>) ELSE hd.host

SetHost(hd, host) == [hd EXCEPT !.host = host]

UserAgent(hd) ==
  IF hd.disableSpecialHeader THEN peekArg(hd.h, "User-Agent", <<>>) ELSE hd.userAgent

DisableSpecialHeader(hd) == [hd EXCEPT !.disableSpecialHeader = TRUE]

SetTrailer(hd, value) ==
  [hd EXCEPT !.trailer = addTrailerNames(<<>>, value, hd.disableNormalizing).trailer]

AddTrailer(hd, value) ==
  [hd EXCEPT !.trailer = addTrailerNames(@, value, hd.disableNormalizing).trailer]

parseRequestCookies(cookies, value) ==
  cookies \o [i \in DOMAIN value |-> [k |-> getCookieKey(value[i]), v |-> <<value[i]>>]]

\* Cookie lines move from h to cookies, once.
collectCookies(hd) ==
  IF hd.cookiesCollected THEN hd
  ELSE LET lines == {i \in DOMAIN hd.h : caseInsensitiveCompare(hd.h[i].k, "Cookie")}
           step(cookies, kv) == parseRequestCookies(cookies, kv.v)
       IN  [hd EXCEPT !.cookies = FoldLeft(step, @, Picked(hd.h, lines)),
                      !.h = Picked(@, DOMAIN @ \ lines),
                      !.cookiesCollected = TRUE]

SetCookie(hd, token) ==
  LET c == collectCookies(hd)
  IN  [c EXCEPT !.cookies = setArg(@, getCookieKey(token), <<token>>)]

DelCookie(hd, key) ==
  LET c == collectCookies(hd) IN [c EXCEPT !.cookies = delAllArgs(@, key)]

DelAllCookies(hd) == [collectCookies(hd) EXCEPT !.cookies = <<>>]

\* appendRequestCookieBytes: one value with every cookie.
cookieValue(cookies) == [i \in DOMAIN cookies |-> cookies[i].v[1]]

setNonSpecial(hd, key, value) == [hd EXCEPT !.h = setArg(@, key, value)]

SpecialKeys == {"Content-Type", "Content-Length", "Connection", "Cookie",
                "Transfer-Encoding", "Trailer", "Host", "User-Agent"}

IsSpecial(hd, key) == ~hd.disableSpecialHeader /\ Canon(key) \in SpecialKeys

\* For a key that IsSpecial, in any spelling.
setSpecialHeader(hd, key, value) ==
  LET k == Canon(key)
  IN CASE k = "Content-Type"   -> [hd EXCEPT !.contentType = value]
       [] k = "Content-Length" ->
            IF parseContentLength(value) = -1 THEN hd
            ELSE [hd EXCEPT !.contentLength = parseContentLength(value),
                            !.contentLengthBytes = value]
       [] k = "Connection"     ->
            IF value = <<"close">> THEN SetConnectionClose(hd)
            ELSE setNonSpecial(ResetConnectionClose(hd), key, value)
       [] k = "Cookie"         ->
            LET c == collectCookies(hd)
            IN  [c EXCEPT !.cookies = parseRequestCookies(@, value)]
       [] k = "Trailer"        -> SetTrailer(hd, value)
       [] k = "Host"           -> [hd EXCEPT !.host = value]
       [] k = "User-Agent"     -> [hd EXCEPT !.userAgent = value]
       [] OTHER                -> hd  \* Transfer-Encoding is managed

SetCanonical(hd, key, value) ==
  IF IsSpecial(hd, key) THEN setSpecialHeader(hd, key, value)
  ELSE setNonSpecial(hd, key, value)

Set(hd, key, value) ==
  SetCanonical(hd, normalizeHeaderKey(key, hd.disableNormalizing), value)

Add(hd, key, value) ==
  IF IsSpecial(hd, key) THEN setSpecialHeader(hd, key, value)
  ELSE [hd EXCEPT !.h = appendArg(@, normalizeHeaderKey(key, hd.disableNormalizing), value)]

\* The special fields are found by the exact, not the case insensitive, name.
del(hd, key) ==
  LET cleared ==
        CASE key = "Host"           -> [hd EXCEPT !.host = <<>>]
          [] key = "Content-Type"   -> [hd EXCEPT !.contentType = <<>>]
          [] key = "User-Agent"     -> [hd EXCEPT !.userAgent = <<>>]
          [] key = "Cookie"         -> [hd EXCEPT !.cookies = <<>>]
          [] key = "Content-Length" ->
               [hd EXCEPT !.contentLength = 0, !.contentLengthBytes = <<>>]
          [] key = "Connection"     -> [hd EXCEPT !.connectionClose = FALSE]
          [] key = "Trailer"        -> [hd EXCEPT !.trailer = <<>>]
          [] OTHER                  -> hd
  IN  [cleared EXCEPT !.h = delAllArgs(@, key)]

Del(hd, key) == del(hd, normalizeHeaderKey(key, hd.disableNormalizing))

peek(hd, key) ==
  CASE key = "Host"           -> Host(hd)
    [] key = "Content-Type"   -> ContentType(hd)
    [] key = "User-Agent"     -> UserAgent(hd)
    [] key = "Connection"     ->
         IF hd.connectionClose THEN <<"close">> ELSE peekArg(hd.h, key, <<>>)
    [] key = "Content-Length" -> hd.contentLengthBytes
    [] key = "Cookie"         ->
         IF hd.cookiesCollected THEN cookieValue(hd.cookies) ELSE peekArg(hd.h, key, <<>>)
    [] key = "Trailer"        -> peekArgsKeys(hd.trailer)
    [] OTHER                  -> peekArg(hd.h, key, <<>>)

\* Special names have one value (none when a textual one is empty).
peekAll(hd, key) ==
  IF key \in {"Host", "Content-Type", "User-Agent"}
  THEN IF peek(hd, key) = <<>> THEN <<>> ELSE <<peek(hd, key)>>
  ELSE IF \/ key \in {"Content-Length", "Trailer"}
          \/ key = "Connection" /\ hd.connectionClose
          \/ key = "Cookie" /\ hd.cookiesCollected
  THEN <<peek(hd, key)>>
  ELSE peekAllArg(hd.h, key)

PeekAll(hd, key) == peekAll(hd, normalizeHeaderKey(key, hd.disableNormalizing))

\* The lines of the header, in order.  Cookies that are not collected yet are
\* lines of h.
AppendBytes(hd) ==
  LET special(lines) == IF hd.disableSpecialHeader THEN <<>> ELSE lines
      contentType == IF /\ ~hd.noDefaultContentType
                        /\ ContentType(hd) = <<>>
                        /\ ~ignoreBody(hd)
                     THEN <<"application/octet-stream">> ELSE ContentType(hd)
  IN  special(LineIfSet("User-Agent", UserAgent(hd)))
        \o special(LineIfSet("Host", Host(hd)))
        \o special(LineIfSet("Content-Type", contentType))
        \o special(LineIfSet("Content-Length", hd.contentLengthBytes))
        \o notTrailers(hd.h, hd.trailer)
        \o LineIfSet("Trailer", peekArgsKeys(hd.trailer))
        \o special(LineIfSet("Cookie", cookieValue(hd.cookies)))
        \o special(IF hd.connectionClose
                   THEN appendHeaderLine("Connection", <<"close">>) ELSE <<>>)

\* The lines after a chunked body.
TrailerHeader(hd) ==
  [i \in DOMAIN hd.trailer |-> [k |-> hd.trailer[i].k, v |-> peek(hd, hd.trailer[i].k)]]

parseFirstLine(hd, first) ==
  [hd EXCEPT !.method = first.code, !.proto = first.protocol,
             !.noHTTP11 = first.protocol # "HTTP/1.1"]

\* One header line.  The first error stays.
parseLine(acc, key, value) ==
  LET hd == acc.hd
      k == Canon(key)
      to(new) == [acc EXCEPT !.hd = new]
      plain == to([hd EXCEPT !.h = appendArg(@, key, value)])
  IN  IF hd.disableSpecialHeader THEN plain
      ELSE CASE k = "Host"              -> to([hd EXCEPT !.host = value])
             [] k = "User-Agent"        -> to([hd EXCEPT !.userAgent = value])
             [] k = "Content-Type"      -> to([hd EXCEPT !.contentType = value])
             [] k = "Content-Length"    ->
                  IF hd.contentLength = -1 THEN acc
                  ELSE IF parseContentLength(value) = -1
                  THEN [hd |-> [hd EXCEPT !.contentLength = -2], err |-> TRUE]
                  ELSE to([hd EXCEPT !.contentLength = parseContentLength(value),
                                     !.contentLengthBytes = value])
             [] k = "Connection"        ->
                  to(IF value = <<"close">> THEN SetConnectionClose(hd)
                     ELSE [hd EXCEPT !.connectionClose = FALSE,
                                     !.h = appendArg(@, key, value)])
             [] k = "Transfer-Encoding" ->
                  IF value = <<"identity">> THEN acc
                  ELSE to([hd EXCEPT !.contentLength = -1,
                                     !.h = setArg(@, "Transfer-Encoding", <<"chunked">>)])
             [] k = "Trailer"           ->
                  [hd |-> SetTrailer(hd, value),
                   err |-> acc.err \/ addTrailerNames(<<>>, value, hd.disableNormalizing).err]
             [] OTHER                   -> plain

\* What parseHeaders does after the last line.
sized(hd) == IF hd.contentLength < 0 THEN [hd EXCEPT !.contentLengthBytes = <<>>] ELSE hd

\* A connection of HTTP/1.0 is kept only if the peer asks for it.
keptAlive(hd) ==
  IF hd.noHTTP11 /\ ~hd.connectionClose
  THEN [hd EXCEPT !.connectionClose =
          ~hasHeaderValue(peekArg(hd.h, "Connection", <<>>), "keep-alive")]
  ELSE hd

finished(read) == [read EXCEPT !.hd = keptAlive(sized(@))]

\* The header and whether there was an error.
parseHeaders(hd, lines) ==
  LET step(acc, kv) == parseLine(acc, normalizeHeaderKey(kv.k, hd.disableNormalizing), kv.v)
  IN  finished(FoldLeft(step, [hd |-> [hd EXCEPT !.contentLength = -2], err |-> FALSE], lines))

\* Read: the first line and the lines up to the empty one; an error leaves the
\* header reset.
Read(hd, first, lines) ==
  LET checked(parsed) ==
        IF parsed.err THEN [parsed EXCEPT !.hd = resetSkipNormalize(@)] ELSE parsed
  IN  checked(parseHeaders(parseFirstLine(resetSkipNormalize(hd), first), lines))

ReadTrailer(hd, lines) ==
  LET parsed == parseTrailerLines(hd.h, lines)
  IN  [hd |-> [hd EXCEPT !.h = parsed.h], err |-> parsed.err]
=============================================================================
