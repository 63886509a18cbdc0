----------------------------- MODULE HeaderKeys -----------------------------
\* What request and response headers share (header.go).  A header value is the
\* sequence of its comma separated tokens, the empty sequence for the empty
\* value; a cookie is one token, such as "a=1".  Of the spellings of a name the
\* canonical one and, for two names, one that is not canonical are modelled.
EXTENDS Args, TLC

\* What toUpperTable/toLowerTable make of the non-canonical spellings.
Canon(key) ==
  CASE key = "x-a"          -> "X-A"
    [] key = "content-type" -> "Content-Type"
    [] OTHER                -> key

normalizeHeaderKey(key, disableNormalizing) ==
  IF disableNormalizing THEN key ELSE Canon(key)

caseInsensitiveCompare(a, b) == Canon(a) = Canon(b)

hasHeaderValue(value, token) == \E i \in DOMAIN value : value[i] = token

\* The lengths of the model are written without leading zeros.
AppendUint(n) == <<ToString(n)>>

\* The bound on Content-Length values.
MaxLength == 9

\* -1 for what is not a decimal number.
parseContentLength(value) ==
  IF \E n \in 0..MaxLength : AppendUint(n) = value
  THEN CHOOSE n \in 0..MaxLength : AppendUint(n) = value
  ELSE -1

\* The part of a cookie in front of '='.
getCookieKey(token) == CHOOSE k \in {"a", "b"} : token \in {k \o "=1", k \o "=2"}

\* Names that must not be trailers (those of them the model uses).
isBadTrailer(key) ==
  Canon(key) \in {"Authorization", "Content-Encoding", "Content-Length",
                  "Content-Type", "Content-Range", "Connection", "Expect", "Host",
                  "Range", "Trailer", "Transfer-Encoding"}

\* The names of value that may be trailers are appended to h.trailer; the
\* result's err tells whether there were others.
addTrailerNames(trailer, value, disableNormalizing) ==
  LET good == Picked(value, {i \in DOMAIN value : ~isBadTrailer(value[i])})
  IN  [trailer |-> trailer \o
                     [i \in DOMAIN good |->
                        [k |-> normalizeHeaderKey(good[i], disableNormalizing),
                         v |-> <<>>]],
       err     |-> Len(good) # Len(value)]

\* One 'key: value' line of a message.
appendHeaderLine(key, value) == <<[k |-> key, v |-> value]>>

\* The line is only written if the value is not empty.
LineIfSet(key, value) == IF value = <<>> THEN <<>> ELSE appendHeaderLine(key, value)

\* Lines of h that are not announced as trailers.
notTrailers(h, trailer) ==
  Picked(h, {i \in DOMAIN h : \A j \in DOMAIN trailer : trailer[j].k # h[i].k})

\* parseTrailer on both sides: every line goes to h, a forbidden name is an
\* error.
parseTrailerLines(h, lines) ==
  [h   |-> h \o Picked(lines, {i \in DOMAIN lines : ~isBadTrailer(lines[i].k)}),
   err |-> \E i \in DOMAIN lines : isBadTrailer(lines[i].k)]
=============================================================================
