------------------------------ MODULE Message -------------------------------
\* One end builds a request or a response with the API of Request, Response and
\* their headers, writes it to a connection on which another message follows,
\* and the other end reads it.  Both ends keep their message and use it again,
\* as the pools of the server and of the client do.
EXTENDS Integers, Sequences, FiniteSets

CONSTANTS
  BufSize, ReadCap, Prefetch, MinCompressLen, FormLen,
  Streams,       \* identities of body streams; each is handed over once
  MaxOps,        \* bound on the API calls
  MaxLen,        \* bound on the length of a body
  MaxBodySize    \* the limits a reader may have; 0 is none

\* Buffers have room for something.
ASSUME BufferAssumption ==
  BufSize \in Nat \ {0} /\ ReadCap \in Nat \ {0} /\ Prefetch \in Nat \ {0}

\* 0 names no stream: it is the id of NoStream.
ASSUME StreamsAssumption == Streams \subseteq Nat \ {0}

VARIABLES
  side,          \* "response" or "request"
  stage,         \* "build", "sent", "asked" (for 100 Continue) or "read"
  ops,           \* API calls so far
  m,             \* the message of the writer
  opened,        \* streams handed to SetBodyStream
  sent,          \* what the last Write did: its result, and m as it was then
  peer,          \* the message of the reader
  got,           \* the result of the last read
  reader         \* how it was read: the limit on the body, as a stream or not

vars == <<side, stage, ops, m, opened, sent, peer, got, reader>>

R == INSTANCE Response
Q == INSTANCE Request

\* The first token of the message that follows on the connection.
Following == [t |-> "next"]

New(s) == IF s = "response" THEN R!New ELSE Q!New

NotSent == [err |-> FALSE]
NotRead == R!Result(<<>>, <<>>, "none")
NoReader == [max |-> 0, stream |-> FALSE]

Init ==
  /\ side \in {"response", "request"}
  /\ stage = "build" /\ ops = 0 /\ opened = {}
  /\ \E raw \in BOOLEAN :
       m = IF side = "response"
           THEN [R!New EXCEPT !.header.disableNormalizing = raw]
           ELSE [Q!New EXCEPT !.header.disableNormalizing = raw, !.header.host = <<"h">>]
  /\ sent = NotSent /\ got = NotRead /\ reader = NoReader
  /\ peer = New(side)

----------------------------------------------------------------------------
\* The API.  Call(s, new): a call on a message of side s gives new.

Call(s, new) ==
  /\ side = s /\ stage = "build" /\ ops < MaxOps
  /\ ops' = ops + 1 /\ m' = new
  /\ UNCHANGED <<side, stage, sent, peer, got, reader>>

Plain(s, new) == Call(s, new) /\ UNCHANGED opened

RHeader(hd) == Plain("response", [m EXCEPT !.header = hd])
QHeader(hd) == Plain("request", [m EXCEPT !.header = hd])

\* Names and values given to Set and Add.
Fields == {<<"X-A", <<"1">>>>, <<"x-a", <<"2">>>>, <<"Connection", <<"close">>>>,
           <<"Connection", <<"keep-alive">>>>, <<"Connection", <<"upgrade">>>>,
           <<"Content-Length", <<"1">>>>, <<"Trailer", <<"X-A">>>>}
Names == {"X-A", "x-a", "Connection", "Content-Length", "Trailer"}
Lengths == 0..MaxLen
Fits(n) == (IF m.body = -1 THEN 0 ELSE m.body) + n <= MaxLen

SetR == \E f \in Fields \cup {<<"Set-Cookie", <<"a=1">>>>, <<"Server", <<"s">>>>,
                              <<"Content-Encoding", <<"gzip">>>>} :
          RHeader(R!H!Set(m.header, f[1], f[2]))
AddR == \E f \in Fields : RHeader(R!H!Add(m.header, f[1], f[2]))
DelR == \E k \in Names : RHeader(R!H!Del(m.header, k))
SetQ == \E f \in Fields \cup {<<"Cookie", <<"a=1", "b=1">>>>, <<"Host", <<"g">>>>,
                              <<"User-Agent", <<"u">>>>, <<"Expect", <<"100-continue">>>>,
                              <<"Content-Type", <<"multipart/form-data">>>>} :
          QHeader(Q!H!Set(m.header, f[1], f[2]))
AddQ == \E f \in Fields : QHeader(Q!H!Add(m.header, f[1], f[2]))
DelQ == \E k \in Names \cup {"Cookie"} : QHeader(Q!H!Del(m.header, k))

CookieR == \/ \E c \in {"a=1", "a=2"} : RHeader(R!H!SetCookie(m.header, c))
           \/ RHeader(R!H!DelCookie(m.header, "a"))
           \/ RHeader(R!H!DelAllCookies(m.header))
CookieQ == \/ \E c \in {"a=1", "a=2"} : QHeader(Q!H!SetCookie(m.header, c))
           \/ QHeader(Q!H!DelCookie(m.header, "a"))
           \/ QHeader(Q!H!DelAllCookies(m.header))

CloseR == \/ RHeader(R!H!SetConnectionClose(m.header))
          \/ RHeader(R!H!ResetConnectionClose(m.header))
CloseQ == \/ QHeader(Q!H!SetConnectionClose(m.header))
          \/ QHeader(Q!H!ResetConnectionClose(m.header))

TrailerR == \E v \in {<<"X-A">>, <<"Host", "X-A">>} :
              \/ RHeader(R!H!SetTrailer(m.header, v))
              \/ RHeader(R!H!AddTrailer(m.header, v))
TrailerQ == \E v \in {<<"X-A">>, <<"Host", "X-A">>} :
              \/ QHeader(Q!H!SetTrailer(m.header, v))
              \/ QHeader(Q!H!AddTrailer(m.header, v))

FirstLineR == \/ \E code \in {200, 204, 304} : RHeader(R!H!SetStatusCode(m.header, code))
              \/ RHeader(R!H!SetProtocol(m.header, "HTTP/1.0"))
              \/ Plain("response", [m EXCEPT !.skipBody = TRUE])
FirstLineQ == \/ \E method \in {"POST", "HEAD"} : QHeader(Q!H!SetMethod(m.header, method))
              \/ QHeader(Q!H!SetProtocol(m.header, "HTTP/1.0"))
              \/ QHeader(Q!H!DisableSpecialHeader(m.header))

LengthR == \E n \in {-2, -1, 1} : RHeader(R!H!SetContentLength(m.header, n))
LengthQ == \E n \in {-1, 1} : QHeader(Q!H!SetContentLength(m.header, n))

BodyR == \E n \in Lengths :
           \/ n > 0 /\ Fits(n) /\ Plain("response", R!AppendBody(m, n))
           \/ Plain("response", R!SetBody(m, n))
           \/ Plain("response", R!SetBodyRaw(m, n))
           \/ Plain("response", R!SwapBody(m, n))
           \/ Plain("response", R!ReleaseBody(m, n))
BodyQ == \E n \in Lengths :
           \/ n > 0 /\ Fits(n) /\ Plain("request", Q!AppendBody(m, n))
           \/ Plain("request", Q!SetBody(m, n))
           \/ Plain("request", Q!SetBodyRaw(m, n))
           \/ Plain("request", Q!SwapBody(m, n))
           \/ Plain("request", Q!ReleaseBody(m, n))

OtherR == \/ Plain("response", R!Body(m))
          \/ Plain("response", R!ResetBody(m))
          \/ Plain("response", R!gzipBody(m))
          \/ Plain("response", R!Reset(m))
OtherQ == \/ Plain("request", Q!Body(m))
          \/ Plain("request", Q!ResetBody(m))
          \/ Plain("request", Q!MultipartForm(m))
          \/ Plain("request", [m EXCEPT !.postArgs = 1])
          \/ Plain("request", Q!Reset(m))

\* A stream that is new: its length, whether it ends in an error, whether it is
\* an io.LimitedReader; size is what the caller says.
StreamBody(s, set(_, _)) ==
  \E id \in Streams \ opened, n \in 0..2, ok \in BOOLEAN, limited \in {-1, 2}, size \in {-1, 2} :
    /\ \A other \in Streams \ opened : id <= other
    /\ Call(s, set([id |-> id, n |-> n, ok |-> ok, limited |-> limited], size))
    /\ opened' = opened \cup {id}

StreamR == StreamBody("response", LAMBDA stream, size : R!SetBodyStream(m, stream, size))
StreamQ == StreamBody("request", LAMBDA stream, size : Q!SetBodyStream(m, stream, size))

----------------------------------------------------------------------------
\* The length of the body the writer means to send.
BodyLen ==
  IF side = "response"
  THEN IF R!mustSkipBody(m) THEN 0
       ELSE IF R!IsBodyStream(m) THEN m.bodyStream.n ELSE R!bodyBytes(m)
  ELSE IF Q!IsBodyStream(m) THEN m.bodyStream.n ELSE Q!outgoing(m)

\* The framing is Write's: a length the caller set is overwritten, or checked
\* against the stream.  (Not so for a message without a body whose caller set a
\* length or left one from an earlier use or made it chunked, for one whose Content-Length was
\* deleted after it was made chunked, and without special headers.)
Framed ==
  LET hd == m.header
      chunkedLine == \E i \in DOMAIN hd.h : hd.h[i].k = "Transfer-Encoding"
  IN  /\ chunkedLine => hd.contentLength < 0
      /\ IF side = "response"
         THEN IF R!mustSkipBody(m) THEN ~chunkedLine
              ELSE R!IsBodyStream(m) => chunkedLine \/ hd.contentLengthBytes # <<>>
         ELSE /\ ~hd.disableSpecialHeader
              /\ \/ Q!IsBodyStream(m) \/ Q!outgoing(m) > 0 \/ ~Q!H!ignoreBody(hd)
                 \/ hd.contentLength = 0

Written(w) ==
  /\ m' = w.m
  /\ sent' = [err |-> w.err, wire |-> w.wire, len |-> BodyLen, framed |-> Framed]
  /\ stage' = IF w.err THEN "build" ELSE "sent"
  /\ ops' = IF w.err THEN MaxOps ELSE ops   \* the connection is closed
  /\ UNCHANGED <<side, opened, peer, got, reader>>

Write ==
  /\ stage = "build"
  /\ Written(IF side = "response" THEN R!Write(m) ELSE Q!Write(m))

\* After the message comes the next one, or the end of the connection.
Closed == m.header.connectionClose
Input == [sent.wire EXCEPT !.rest = @ \o (IF Closed THEN <<>> ELSE <<Following>>)]

\* What the reader keeps: the body is in its buffer.  asked tells whether it has
\* to answer 100 Continue and to go on.
Received(res, asked) ==
  /\ peer' = IF res.read.outcome = "ok" THEN [res.m EXCEPT !.body = Len(res.read.body)]
             ELSE res.m
  /\ got' = res.read
  /\ stage' = IF asked THEN "asked" ELSE "read"
  /\ UNCHANGED <<side, ops, m, opened, sent>>

\* The reader of a response knows whether it answers a HEAD request.
ReadResponse ==
  /\ side = "response" /\ stage = "sent"
  /\ \E max \in MaxBodySize, stream \in BOOLEAN :
       LET r == [R!Reset(peer) EXCEPT !.skipBody = m.skipBody, !.streamBody = stream,
                            !.header.disableNormalizing = m.header.disableNormalizing]
           consumed(res) == IF res.read.outcome = "stream"
                            THEN R!ReadStream(res.m, res.read.rest) ELSE res
       IN  /\ reader' = [max |-> max, stream |-> stream]
           /\ Received(consumed(R!ReadLimitBody(r, Input, max, Closed)), FALSE)

\* serveConn asks the request for MayContinue once it was read without an error.
ReadRequest ==
  /\ side = "request" /\ stage = "sent"
  /\ \E max \in MaxBodySize, stream \in BOOLEAN :
       LET r == [Q!Reset(peer) EXCEPT
                   !.header.disableNormalizing = m.header.disableNormalizing]
           res == Q!ReadLimitBody(r, Input, max, stream)
       IN  /\ stream => max > 0
           /\ reader' = [max |-> max, stream |-> stream]
           /\ Received(res, res.read.outcome = "continue" /\ Q!MayContinue(res.m))

\* The server has answered 100 Continue; the limit is the one it began with.
ContinueRead ==
  /\ side = "request" /\ stage = "asked"
  /\ Received(IF reader.stream THEN Q!ContinueReadBodyStream(peer, got.rest, reader.max)
              ELSE Q!ContinueReadBody(peer, got.rest, reader.max), FALSE)
  /\ UNCHANGED reader

\* The connection is kept and the writer goes on with its message.
Reuse ==
  /\ stage = "read" /\ ops < MaxOps
  /\ stage' = "build" /\ sent' = NotSent /\ got' = NotRead /\ reader' = NoReader
  /\ UNCHANGED <<side, ops, m, opened, peer>>

Next ==
  \/ SetR \/ AddR \/ DelR \/ CookieR \/ CloseR \/ TrailerR \/ FirstLineR \/ LengthR
  \/ BodyR \/ OtherR \/ StreamR
  \/ SetQ \/ AddQ \/ DelQ \/ CookieQ \/ CloseQ \/ TrailerQ \/ FirstLineQ \/ LengthQ
  \/ BodyQ \/ OtherQ \/ StreamQ
  \/ Write \/ ReadResponse \/ ReadRequest \/ ContinueRead \/ Reuse

Spec == Init /\ [][Next]_vars

----------------------------------------------------------------------------
\* The readers of the next message skip empty lines in front of it.
AtNext(rest) ==
  LET t == SelectSeq(rest, LAMBDA tok : tok.t # "crlf")
  IN  t = (IF Closed THEN <<>> ELSE <<Following>>)

\* What Response.Write or Request.Write put on a keep-alive connection,
\* ReadLimitBody reads to its end and not further, with the body that was sent,
\* so that the next message is found where it begins; it is refused only if its
\* body exceeds the limit this reader has.
InSync ==
  stage = "read" /\ sent.framed =>
    \/ /\ got.outcome = "ok" /\ Len(got.body) = sent.len /\ AtNext(got.rest)
    \/ got.outcome = "too large" /\ reader.max > 0 /\ sent.len > reader.max

\* Through AppendBytes, the trailer writing and the header parsers the values
\* of an ordinary name and the cookies arrive as they were set, in order.  A name
\* announced as a trailer comes with its first value after a chunked body, and
\* not at all with another one.
HeadersArrive ==
  LET all(hd, k) == IF side = "response" THEN R!H!PeekAll(hd, k) ELSE Q!H!PeekAll(hd, k)
      one(hd, k) == IF side = "response" THEN R!H!peek(hd, k) ELSE Q!H!peek(hd, k)
      cookies(hd) == IF side = "response" THEN hd.cookies ELSE Q!H!collectCookies(hd).cookies
      isTrailer(k) == \E i \in DOMAIN m.header.trailer : m.header.trailer[i].k = k
      keys == IF m.header.disableNormalizing THEN {"X-A", "x-a"} ELSE {"X-A"}
  IN  stage = "read" /\ got.outcome = "ok" /\ sent.framed =>
        /\ \A k \in keys :
             IF ~isTrailer(k) THEN all(peer.header, k) = all(m.header, k)
             ELSE IF m.header.contentLength = -1 THEN one(peer.header, k) = one(m.header, k)
             ELSE all(peer.header, k) = <<>>
        /\ cookies(peer.header) = cookies(m.header)

\* An end that closes the connection after the message (ConnectionClose, as
\* serveConn and HostClient.do look at it) has told the other: SetConnectionClose,
\* ResetConnectionClose, Set and Del of "Connection" and the parsers agree.
CloseAgreed ==
  stage = "read" /\ got.outcome = "ok" /\ sent.framed /\ m.header.connectionClose =>
    peer.header.connectionClose

\* Every stream given to SetBodyStream is closed once, by closeBodyStream: it is
\* still the body, or it has been closed, by whatever replaced, consumed, sent
\* or dropped it.
StreamsClosedOnce ==
  \A id \in opened : m.closes[id] + (IF m.bodyStream.id = id THEN 1 ELSE 0) = 1

\* A copy by CopyTo, made into a new message or into one that was used before, is written
\* as the original is, except for streams and parsed forms, which CopyTo leaves
\* out, and for DisableSpecialHeader, which it loses.
CopyFaithful ==
  IF side = "response"
  THEN ~R!IsBodyStream(m) =>
         \A dst \in {R!New, peer} : R!Write(R!CopyTo(m, dst)).wire = R!Write(m).wire
  ELSE ~Q!IsBodyStream(m) /\ ~m.form /\ ~m.header.disableSpecialHeader =>
         \A dst \in {Q!New, peer} : Q!Write(Q!CopyTo(m, dst)).wire = Q!Write(m).wire
=============================================================================
