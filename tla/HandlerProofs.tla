---------------------------- MODULE HandlerProofs ----------------------------
(***************************************************************************)
(* Proofs about what a handler works with.  First the messages of a        *)
(* connection (Message, over Request, Response and their headers): their   *)
(* streams are closed once, copies are faithful and both ends agree on     *)
(* closing the connection.  Then the session of the client (Session): a    *)
(* request sees its own client's session only, and finds there what the    *)
(* last request left.                                                      *)
(***************************************************************************)
EXTENDS Message, Session, SeqLemmas, FiniteSetTheorems

-----------------------------------------------------------------------------
(* Lists of any elements, and what the edits of argsKV lists give.         *)

IsList(s) == \E n \in Nat : s = [i \in 1..n |-> s[i]]

\* A list is a sequence over any set that has its elements, and conversely.
LEMMA ListSeq ==
  ASSUME NEW s, IsList(s), NEW S, \A i \in DOMAIN s : s[i] \in S
  PROVE  s \in Seq(S)
<1>1. PICK n \in Nat : s = [i \in 1..n |-> s[i]]
  BY DEF IsList
<1>2. s \in [1..n -> S]
  BY <1>1
<1> QED
  BY <1>1, <1>2

LEMMA SeqList ==
  ASSUME NEW S, NEW s \in Seq(S)
  PROVE  IsList(s)
  BY DEF IsList

LEMMA EmptyIsList == IsList(<<>>)
  BY DEF IsList

\* Every one-element tuple is a list.
LEMMA OneIsList ==
  ASSUME NEW x
  PROVE  IsList(<<x>>)
<1>1. <<x>> \in Seq({x})
  OBVIOUS
<1> QED
  BY <1>1, SeqList

\* Lists are closed under concatenation, ...
LEMMA CatList ==
  ASSUME NEW s, IsList(s), NEW t, IsList(t)
  PROVE  IsList(s \o t)
<1> DEFINE S == {s[i] : i \in DOMAIN s} \cup {t[i] : i \in DOMAIN t}
<1>1. s \in Seq(S) /\ t \in Seq(S)
  BY ListSeq
<1> HIDE DEF S
<1>2. s \o t \in Seq(S)
  BY <1>1
<1> QED
  BY <1>2, SeqList

\* ... appending, ...
LEMMA AppendList ==
  ASSUME NEW s, IsList(s), NEW x
  PROVE  IsList(Append(s, x))
<1> DEFINE S == {s[i] : i \in DOMAIN s} \cup {x}
<1>1. s \in Seq(S)
  BY ListSeq
<1> HIDE DEF S
<1>2. x \in S
  BY DEF S
<1>3. Append(s, x) \in Seq(S)
  BY <1>1, <1>2
<1> QED
  BY <1>3, SeqList

\* ... the replacement of an element ...
LEMMA ExceptList ==
  ASSUME NEW s, IsList(s), NEW p, NEW x
  PROVE  IsList([s EXCEPT ![p] = x])
<1>1. PICK n \in Nat : s = [i \in 1..n |-> s[i]]
  BY DEF IsList
<1> DEFINE t == [s EXCEPT ![p] = x]
<1>2. t = [i \in 1..n |-> t[i]]
  BY <1>1
<1> HIDE DEF t
<1>3. IsList(t)
  BY <1>2 DEF IsList
<1> QED
  BY <1>3 DEF t

\* A nonempty set of positions has a greatest one, which Max chooses.
LEMMA MaxIn ==
  ASSUME NEW n \in Nat, NEW s \in SUBSET (1..n), s # {}
  PROVE  /\ Q!H!Max(s) \in s /\ (\A y \in s : Q!H!Max(s) >= y)
         /\ R!H!Max(s) \in s /\ (\A y \in s : R!H!Max(s) >= y)
<1> DEFINE T == {n - x : x \in s}
<1>1. PICK z \in T : \A y \in T : z <= y
  <2>1. \A x \in s : n - x \in Nat
    BY s \subseteq 1..n
  <2>2. T \subseteq Nat /\ T # {}
    BY <2>1
  <2> HIDE DEF T
  <2> QED
    BY <2>2, LeastElement
<1>2. PICK x \in s : z = n - x
  BY <1>1
<1>3. ASSUME NEW y \in s PROVE x >= y
  <2>1. n - x <= n - y
    BY <1>1, <1>2
  <2>2. x \in Nat /\ y \in Nat
    OBVIOUS
  <2> QED
    BY <2>1, <2>2
<1>4. \E w \in s : \A y \in s : w >= y
  BY <1>3
<1> QED
  BY <1>4 DEF Q!H!Max, R!H!Max

\* Cardinality under the names it has in the instances.
LEMMA Card == ASSUME NEW S PROVE R!H!Cardinality(S) = Cardinality(S) /\ Q!H!Cardinality(S) = Cardinality(S)
  BY DEF Cardinality, R!H!Cardinality, Q!H!Cardinality

\* ... and the choice of some of the positions.
LEMMA PickedList ==
  ASSUME NEW s, NEW n \in Nat, NEW T \in SUBSET (1..n)
  PROVE  IsList(R!H!Picked(s, T)) /\ IsList(Q!H!Picked(s, T))
<1>1. Cardinality(T) \in Nat
  <2>1. IsFiniteSet(1..n)
    BY FS_Interval
  <2>2. IsFiniteSet(T)
    BY <2>1, FS_Subset
  <2> QED
    BY <2>2, FS_CardinalityType
<1>2. ASSUME NEW k \in Nat, NEW f, f = [i \in 1..k |-> f[i]] PROVE IsList(f)
  BY <1>2 DEF IsList
<1> DEFINE r == R!H!Picked(s, T)
           q == Q!H!Picked(s, T)
           c == Cardinality(T)
<1>3. r = [i \in 1..c |-> r[i]]
  BY Card DEF R!H!Picked
<1>4. q = [i \in 1..c |-> q[i]]
  BY Card DEF Q!H!Picked
<1> HIDE DEF r, q, c
<1>5. IsList(r) /\ IsList(q)
  BY <1>1, <1>2, <1>3, <1>4 DEF c
<1> QED
  BY <1>5 DEF r, q

\* The edits of a list of pairs.
LEMMA ArgsLists ==
  ASSUME NEW s, IsList(s), NEW k, NEW v
  PROVE  /\ IsList(R!H!appendArg(s, k, v)) /\ IsList(Q!H!appendArg(s, k, v))
         /\ IsList(R!H!setArg(s, k, v)) /\ IsList(Q!H!setArg(s, k, v))
         /\ IsList(R!H!delAllArgs(s, k)) /\ IsList(Q!H!delAllArgs(s, k))
<1>1. IsList(R!H!appendArg(s, k, v)) /\ IsList(Q!H!appendArg(s, k, v))
  BY AppendList DEF R!H!appendArg, Q!H!appendArg
<1>2. IsList(R!H!setArg(s, k, v))
  BY <1>1, ExceptList DEF R!H!setArg
<1>3. IsList(Q!H!setArg(s, k, v))
  BY <1>1, ExceptList DEF Q!H!setArg
<1>4. PICK n \in Nat : DOMAIN s = 1..n
  BY DEF IsList
<1>5. IsList(R!H!delAllArgs(s, k))
  BY <1>4, PickedList DEF R!H!delAllArgs
<1>6. IsList(Q!H!delAllArgs(s, k))
  BY <1>4, PickedList DEF Q!H!delAllArgs
<1> QED
  BY <1>1, <1>2, <1>3, <1>5, <1>6

-----------------------------------------------------------------------------
(* parseHeaders folds parseLine over the lines.  The library defines folds *)
(* by a recursive function on sets of positions; that such a function      *)
(* exists is shown by induction on the greatest position.                  *)

QStep(acc, kv, dn) == Q!H!parseLine(acc, Q!H!normalizeHeaderKey(kv.k, dn), kv.v)

QIsFold(f, n, base, lines, dn) ==
  f = [s \in SUBSET (1..n) |->
         IF s = {} THEN base ELSE QStep(f[s \ {Q!H!Max(s)}], lines[Q!H!Max(s)], dn)]

LEMMA QFoldExists ==
  ASSUME NEW base, NEW lines, NEW dn, NEW n \in Nat
  PROVE  \E f : QIsFold(f, n, base, lines, dn)
<1> DEFINE Def(f, s) == IF s = {} THEN base
                     ELSE QStep(f[s \ {Q!H!Max(s)}], lines[Q!H!Max(s)], dn)
           K == {k \in Nat : \E f : f = [s \in SUBSET (1..k) |-> Def(f, s)]}
<1>1. 0 \in K
  <2> DEFINE f == [s \in SUBSET (1..0) |-> base]
  <2>1. f = [s \in SUBSET (1..0) |-> Def(f, s)]
    OBVIOUS
  <2> HIDE DEF f, Def
  <2> QED
    BY <2>1
<1>2. ASSUME NEW k \in Nat, k \in K PROVE k + 1 \in K
  <2>1. PICK f : f = [s \in SUBSET (1..k) |-> Def(f, s)]
    BY <1>2
  <2> DEFINE g == [s \in SUBSET (1..(k + 1)) |-> Def(f, s)]
  <2>2. ASSUME NEW s \in SUBSET (1..(k + 1)) PROVE Def(f, s) = Def(g, s)
    <3>1. CASE s = {}
      BY <3>1
    <3>2. CASE s # {}
      <4> DEFINE t == s \ {Q!H!Max(s)}
      <4>1. t \in SUBSET (1..k) /\ t \in SUBSET (1..(k + 1))
        <5> DEFINE x == Q!H!Max(s)
        <5>1. x \in s /\ (\A y \in s : x >= y)
          BY <3>2, MaxIn, k + 1 \in Nat
        <5> HIDE DEF x
        <5>2. ASSUME NEW y \in s, y # x PROVE y \in 1..k
          BY <5>1, <5>2
        <5> QED
          BY <5>2 DEF x
      <4> HIDE DEF t
      <4>2. f[t] = Def(f, t) /\ g[t] = Def(f, t)
        <5> HIDE DEF Def
        <5> QED
          BY <4>1, <2>1
      <4>3. f[s \ {Q!H!Max(s)}] = g[s \ {Q!H!Max(s)}]
        <5> HIDE DEF g, Def
        <5> QED
         BY <4>2 DEF t
      <4> HIDE DEF g
      <4> QED
        BY <3>2, <4>3
    <3> QED
      BY <3>1, <3>2
  <2>3. g = [s \in SUBSET (1..(k + 1)) |-> Def(g, s)]
    <3> HIDE DEF Def
    <3> QED
      BY <2>2
  <2> HIDE DEF g, Def
  <2> QED
    BY <2>3
<1> HIDE DEF K, Def
<1>3. n \in K
  BY <1>1, <1>2, Induction
<1>4. QED
  BY <1>3 DEF K, Def, QIsFold

LEMMA QFold ==
  ASSUME NEW hd, NEW lines, NEW n \in Nat, DOMAIN lines = 1..n
  PROVE  \E g : /\ g[0] = [hd |-> [hd EXCEPT !.contentLength = -2], err |-> FALSE]
                /\ \A i \in 1..n : g[i] = QStep(g[i - 1], lines[i], hd.disableNormalizing)
                /\ Q!H!parseHeaders(hd, lines) = Q!H!finished(g[n])
<1> DEFINE base == [hd |-> [hd EXCEPT !.contentLength = -2], err |-> FALSE]
           dn == hd.disableNormalizing
           iter == CHOOSE f : QIsFold(f, n, base, lines, dn)
           g == [i \in 0..n |-> iter[1..i]]
<1>1. QIsFold(iter, n, base, lines, dn)
  BY QFoldExists
<1>2. Q!H!parseHeaders(hd, lines) = Q!H!finished(iter[1..n])
  BY Zenon DEF Q!H!parseHeaders, Q!H!FoldLeft, Q!H!MapThenFoldSet, QStep, QIsFold
<1> HIDE DEF iter
<1>3. iter[1..0] = base
  <2>1. 1..0 = {} /\ {} \in SUBSET (1..n)
    OBVIOUS
  <2> QED
    BY <1>1, <2>1 DEF QIsFold
<1>4. ASSUME NEW i \in 1..n
      PROVE  iter[1..i] = QStep(iter[1..(i - 1)], lines[i], dn)
  <2> DEFINE s == 1..i
  <2>1. s \in SUBSET (1..n) /\ s # {}
    OBVIOUS
  <2>2. Q!H!Max(s) = i
    <3> DEFINE x == Q!H!Max(s)
    <3>1. x \in s /\ \A y \in s : x >= y
      <4> HIDE DEF s
      <4> QED
        BY <2>1, MaxIn
    <3> HIDE DEF x
    <3>2. x = i
      BY <3>1
    <3> QED
      BY <3>2 DEF x
  <2>3. s \ {i} = 1..(i - 1)
    OBVIOUS
  <2> HIDE DEF base, dn, s
  <2>4. iter[s] = QStep(iter[s \ {Q!H!Max(s)}], lines[Q!H!Max(s)], dn)
    BY <1>1, <2>1 DEF QIsFold
  <2> QED
    BY <2>2, <2>3, <2>4 DEF s
<1> HIDE DEF base, dn
<1>5. g[0] = base /\ g[n] = iter[1..n]
  BY <1>3
<1>6. ASSUME NEW i \in 1..n PROVE g[i] = QStep(g[i - 1], lines[i], dn)
  <2>1. g[i] = iter[1..i] /\ g[i - 1] = iter[1..(i - 1)]
    OBVIOUS
  <2> QED
    BY <1>4, <2>1
<1> HIDE DEF g
<1> QED
  BY <1>2, <1>5, <1>6 DEF base, dn

RStep(acc, kv, dn) == R!H!parseLine(acc, R!H!normalizeHeaderKey(kv.k, dn), kv.v)

RIsFold(f, n, base, lines, dn) ==
  f = [s \in SUBSET (1..n) |->
         IF s = {} THEN base ELSE RStep(f[s \ {R!H!Max(s)}], lines[R!H!Max(s)], dn)]

LEMMA RFoldExists ==
  ASSUME NEW base, NEW lines, NEW dn, NEW n \in Nat
  PROVE  \E f : RIsFold(f, n, base, lines, dn)
<1> DEFINE Def(f, s) == IF s = {} THEN base
                     ELSE RStep(f[s \ {R!H!Max(s)}], lines[R!H!Max(s)], dn)
           K == {k \in Nat : \E f : f = [s \in SUBSET (1..k) |-> Def(f, s)]}
<1>1. 0 \in K
  <2> DEFINE f == [s \in SUBSET (1..0) |-> base]
  <2>1. f = [s \in SUBSET (1..0) |-> Def(f, s)]
    OBVIOUS
  <2> HIDE DEF f, Def
  <2> QED
    BY <2>1
<1>2. ASSUME NEW k \in Nat, k \in K PROVE k + 1 \in K
  <2>1. PICK f : f = [s \in SUBSET (1..k) |-> Def(f, s)]
    BY <1>2
  <2> DEFINE g == [s \in SUBSET (1..(k + 1)) |-> Def(f, s)]
  <2>2. ASSUME NEW s \in SUBSET (1..(k + 1)) PROVE Def(f, s) = Def(g, s)
    <3>1. CASE s = {}
      BY <3>1
    <3>2. CASE s # {}
      <4> DEFINE t == s \ {R!H!Max(s)}
      <4>1. t \in SUBSET (1..k) /\ t \in SUBSET (1..(k + 1))
        <5> DEFINE x == R!H!Max(s)
        <5>1. x \in s /\ (\A y \in s : x >= y)
          BY <3>2, MaxIn, k + 1 \in Nat
        <5> HIDE DEF x
        <5>2. ASSUME NEW y \in s, y # x PROVE y \in 1..k
          BY <5>1, <5>2
        <5> QED
          BY <5>2 DEF x
      <4> HIDE DEF t
      <4>2. f[t] = Def(f, t) /\ g[t] = Def(f, t)
        <5> HIDE DEF Def
        <5> QED
          BY <4>1, <2>1
      <4>3. f[s \ {R!H!Max(s)}] = g[s \ {R!H!Max(s)}]
        <5> HIDE DEF g, Def
        <5> QED
         BY <4>2 DEF t
      <4> HIDE DEF g
      <4> QED
        BY <3>2, <4>3
    <3> QED
      BY <3>1, <3>2
  <2>3. g = [s \in SUBSET (1..(k + 1)) |-> Def(g, s)]
    <3> HIDE DEF Def
    <3> QED
      BY <2>2
  <2> HIDE DEF g, Def
  <2> QED
    BY <2>3
<1> HIDE DEF K, Def
<1>3. n \in K
  BY <1>1, <1>2, Induction
<1>4. QED
  BY <1>3 DEF K, Def, RIsFold

LEMMA RFold ==
  ASSUME NEW hd, NEW lines, NEW n \in Nat, DOMAIN lines = 1..n
  PROVE  \E g : /\ g[0] = [hd |-> [hd EXCEPT !.contentLength = -2], err |-> FALSE]
                /\ \A i \in 1..n : g[i] = RStep(g[i - 1], lines[i], hd.disableNormalizing)
                /\ R!H!parseHeaders(hd, lines) = R!H!finished(g[n])
<1> DEFINE base == [hd |-> [hd EXCEPT !.contentLength = -2], err |-> FALSE]
           dn == hd.disableNormalizing
           iter == CHOOSE f : RIsFold(f, n, base, lines, dn)
           g == [i \in 0..n |-> iter[1..i]]
<1>1. RIsFold(iter, n, base, lines, dn)
  BY RFoldExists
<1>2. R!H!parseHeaders(hd, lines) = R!H!finished(iter[1..n])
  BY Zenon DEF R!H!parseHeaders, R!H!FoldLeft, R!H!MapThenFoldSet, RStep, RIsFold
<1> HIDE DEF iter
<1>3. iter[1..0] = base
  <2>1. 1..0 = {} /\ {} \in SUBSET (1..n)
    OBVIOUS
  <2> QED
    BY <1>1, <2>1 DEF RIsFold
<1>4. ASSUME NEW i \in 1..n
      PROVE  iter[1..i] = RStep(iter[1..(i - 1)], lines[i], dn)
  <2> DEFINE s == 1..i
  <2>1. s \in SUBSET (1..n) /\ s # {}
    OBVIOUS
  <2>2. R!H!Max(s) = i
    <3> DEFINE x == R!H!Max(s)
    <3>1. x \in s /\ \A y \in s : x >= y
      <4> HIDE DEF s
      <4> QED
        BY <2>1, MaxIn
    <3> HIDE DEF x
    <3>2. x = i
      BY <3>1
    <3> QED
      BY <3>2 DEF x
  <2>3. s \ {i} = 1..(i - 1)
    OBVIOUS
  <2> HIDE DEF base, dn, s
  <2>4. iter[s] = RStep(iter[s \ {R!H!Max(s)}], lines[R!H!Max(s)], dn)
    BY <1>1, <2>1 DEF RIsFold
  <2> QED
    BY <2>2, <2>3, <2>4 DEF s
<1> HIDE DEF base, dn
<1>5. g[0] = base /\ g[n] = iter[1..n]
  BY <1>3
<1>6. ASSUME NEW i \in 1..n PROVE g[i] = RStep(g[i - 1], lines[i], dn)
  <2>1. g[i] = iter[1..i] /\ g[i - 1] = iter[1..(i - 1)]
    OBVIOUS
  <2> QED
    BY <1>4, <2>1
<1> HIDE DEF g
<1> QED
  BY <1>2, <1>5, <1>6 DEF base, dn

-----------------------------------------------------------------------------
(* Headers.  The operations of a header keep its fields, and its lists     *)
(* lists.                                                                  *)

\* A record with the fields S, whatever their values.
HasFields(x, S) == x = [f \in S |-> x[f]]

QFields == {"disableNormalizing", "noHTTP11", "connectionClose", "noDefaultContentType",
            "disableSpecialHeader", "cookiesCollected", "contentLength",
            "contentLengthBytes", "method", "proto", "host", "contentType", "userAgent",
            "h", "trailer", "cookies"}
RFields == {"disableNormalizing", "noHTTP11", "connectionClose", "noDefaultContentType",
            "noDefaultDate", "statusCode", "protocol", "contentLength",
            "contentLengthBytes", "contentType", "contentEncoding", "server", "h",
            "trailer", "cookies"}

\* A header that was read, and one that may be written.
QRead(hd) == HasFields(hd, QFields) /\ hd.disableSpecialHeader \in BOOLEAN
QHead(hd) == QRead(hd) /\ IsList(hd.h)
RHead(hd) == HasFields(hd, RFields) /\ IsList(hd.h) /\ IsList(hd.cookies)

LEMMA NewHeaders ==
  /\ HasFields(Q!H!New, QFields) /\ HasFields(R!H!New, RFields)
  /\ QHead(Q!H!New) /\ RHead(R!H!New)
<1>1. HasFields(Q!H!New, QFields)
  BY DEF HasFields, QFields, Q!H!New
<1>2. HasFields(R!H!New, RFields)
  BY DEF HasFields, RFields, R!H!New
<1>3. Q!H!New.h = <<>> /\ R!H!New.h = <<>> /\ R!H!New.cookies = <<>>
  BY DEF Q!H!New, R!H!New
<1>4. Q!H!New.disableSpecialHeader \in BOOLEAN
  BY DEF Q!H!New
<1> QED
  BY <1>1, <1>2, <1>3, <1>4, EmptyIsList DEF QRead, QHead, RHead

\* resetSkipNormalize and Reset.
LEMMA QReset ==
  ASSUME NEW hd, QRead(hd)
  PROVE  /\ QHead(Q!H!resetSkipNormalize(hd))
         /\ Q!H!resetSkipNormalize(hd).disableSpecialHeader = hd.disableSpecialHeader
         /\ QHead(Q!H!Reset(hd)) /\ Q!H!Reset(hd).disableSpecialHeader = FALSE
         /\ Q!H!Reset(hd).h = <<>>
<1>1. ASSUME NEW x, QRead(x)
      PROVE  /\ QHead(Q!H!resetSkipNormalize(x)) /\ Q!H!resetSkipNormalize(x).h = <<>>
             /\ Q!H!resetSkipNormalize(x).disableSpecialHeader = x.disableSpecialHeader
  <2>1. PICK n : n = Q!H!New
    OBVIOUS
  <2>2. HasFields(n, QFields) /\ IsList(n.h) /\ n.h = <<>>
    BY <2>1, NewHeaders DEF QHead, Q!H!New
  <2>3. Q!H!resetSkipNormalize(x) =
          [n EXCEPT !.disableNormalizing = x.disableNormalizing,
                    !.noDefaultContentType = x.noDefaultContentType,
                    !.disableSpecialHeader = x.disableSpecialHeader]
    BY <2>1 DEF Q!H!resetSkipNormalize
  <2> QED
    BY <1>1, <2>2, <2>3 DEF QRead, QHead, HasFields, QFields
<1>2. PICK p : p = [hd EXCEPT !.disableSpecialHeader = FALSE, !.disableNormalizing = FALSE,
                              !.noDefaultContentType = FALSE]
  OBVIOUS
<1>3. QRead(p) /\ p.disableSpecialHeader = FALSE
  BY <1>2 DEF QRead, HasFields, QFields
<1>4. Q!H!Reset(hd) = Q!H!resetSkipNormalize(p)
  BY <1>2 DEF Q!H!Reset
<1> QED
  BY <1>1, <1>3, <1>4

LEMMA RReset ==
  ASSUME NEW hd
  PROVE  RHead(R!H!resetSkipNormalize(hd)) /\ RHead(R!H!Reset(hd))
<1>1. ASSUME NEW x PROVE RHead(R!H!resetSkipNormalize(x))
  <2>1. PICK n : n = R!H!New
    OBVIOUS
  <2>2. HasFields(n, RFields) /\ IsList(n.h) /\ IsList(n.cookies)
    BY <2>1, NewHeaders DEF RHead
  <2>3. R!H!resetSkipNormalize(x) =
          [n EXCEPT !.disableNormalizing = x.disableNormalizing,
                    !.noDefaultContentType = x.noDefaultContentType,
                    !.noDefaultDate = x.noDefaultDate]
    BY <2>1 DEF R!H!resetSkipNormalize
  <2> QED
    BY <2>2, <2>3 DEF RHead, HasFields, RFields
<1> QED
  BY <1>1 DEF R!H!Reset

\* The lines of h with one of them set, added or deleted.
LEMMA QLine ==
  ASSUME NEW hd, QHead(hd), NEW k, NEW v
  PROVE  /\ QHead([hd EXCEPT !.h = Q!H!setArg(@, k, v)])
         /\ QHead([hd EXCEPT !.h = Q!H!appendArg(@, k, v)])
         /\ QHead([hd EXCEPT !.h = Q!H!delAllArgs(@, k)])
<1>1. ASSUME NEW x, IsList(x) PROVE QHead([hd EXCEPT !.h = x])
  BY <1>1 DEF QRead, QHead, HasFields, QFields
<1>2. /\ IsList(Q!H!setArg(hd.h, k, v)) /\ IsList(Q!H!appendArg(hd.h, k, v))
      /\ IsList(Q!H!delAllArgs(hd.h, k))
  BY ArgsLists DEF QHead
<1> QED
  BY <1>1, <1>2

LEMMA RLine ==
  ASSUME NEW hd, RHead(hd), NEW k, NEW v
  PROVE  /\ RHead([hd EXCEPT !.h = R!H!setArg(@, k, v)])
         /\ RHead([hd EXCEPT !.h = R!H!appendArg(@, k, v)])
         /\ RHead([hd EXCEPT !.h = R!H!delAllArgs(@, k)])
         /\ RHead([hd EXCEPT !.cookies = R!H!setArg(@, k, v)])
         /\ RHead([hd EXCEPT !.cookies = R!H!appendArg(@, k, v)])
         /\ RHead([hd EXCEPT !.cookies = R!H!delAllArgs(@, k)])
<1>1. ASSUME NEW x, IsList(x)
      PROVE  RHead([hd EXCEPT !.h = x]) /\ RHead([hd EXCEPT !.cookies = x])
  BY <1>1 DEF RHead, HasFields, RFields
<1>2. /\ IsList(R!H!setArg(hd.h, k, v)) /\ IsList(R!H!appendArg(hd.h, k, v))
      /\ IsList(R!H!delAllArgs(hd.h, k))
      /\ IsList(R!H!setArg(hd.cookies, k, v)) /\ IsList(R!H!appendArg(hd.cookies, k, v))
      /\ IsList(R!H!delAllArgs(hd.cookies, k))
  BY ArgsLists DEF RHead
<1> QED
  BY <1>1, <1>2

\* The connection flag and the lines of the name.
LEMMA QConnection ==
  ASSUME NEW hd, QHead(hd)
  PROVE  QHead(Q!H!SetConnectionClose(hd)) /\ QHead(Q!H!ResetConnectionClose(hd))
<1>1. ASSUME NEW x PROVE QHead([hd EXCEPT !.connectionClose = x])
  BY DEF QRead, QHead, HasFields, QFields
<1>2. ASSUME NEW x, IsList(x), NEW y
      PROVE  QHead([hd EXCEPT !.connectionClose = y, !.h = x])
  BY <1>2 DEF QRead, QHead, HasFields, QFields
<1>3. IsList(Q!H!delAllArgs(hd.h, "Connection"))
  BY ArgsLists DEF QHead
<1> QED
  BY <1>1, <1>2, <1>3 DEF Q!H!SetConnectionClose, Q!H!ResetConnectionClose

LEMMA RConnection ==
  ASSUME NEW hd, RHead(hd)
  PROVE  RHead(R!H!SetConnectionClose(hd)) /\ RHead(R!H!ResetConnectionClose(hd))
<1>1. ASSUME NEW x PROVE RHead([hd EXCEPT !.connectionClose = x])
  BY DEF RHead, HasFields, RFields
<1>2. ASSUME NEW x, IsList(x), NEW y
      PROVE  RHead([hd EXCEPT !.connectionClose = y, !.h = x])
  BY <1>2 DEF RHead, HasFields, RFields
<1>3. IsList(R!H!delAllArgs(hd.h, "Connection"))
  BY ArgsLists DEF RHead
<1> QED
  BY <1>1, <1>2, <1>3 DEF R!H!SetConnectionClose, R!H!ResetConnectionClose

\* The length, with the line that tells of chunks.
LEMMA QLength ==
  ASSUME NEW hd, QHead(hd), NEW n
  PROVE  /\ QHead(Q!H!SetContentLength(hd, n))
         /\ Q!H!SetContentLength(hd, n).disableSpecialHeader = hd.disableSpecialHeader
<1>1. /\ IsList(Q!H!delAllArgs(hd.h, "Transfer-Encoding"))
      /\ IsList(Q!H!setArg(hd.h, "Transfer-Encoding", <<"chunked">>))
  BY ArgsLists DEF QHead
<1> QED
  BY <1>1 DEF QRead, QHead, HasFields, QFields, Q!H!SetContentLength

LEMMA RLength ==
  ASSUME NEW hd, RHead(hd), NEW n
  PROVE  RHead(R!H!SetContentLength(hd, n))
<1>1. ASSUME NEW x, IsList(x), NEW y, NEW z
      PROVE  RHead([hd EXCEPT !.contentLength = n, !.contentLengthBytes = y,
                              !.connectionClose = z, !.h = x])
  BY <1>1 DEF RHead, HasFields, RFields
<1>2. ASSUME NEW x, IsList(x), NEW y
      PROVE  RHead([hd EXCEPT !.contentLength = n, !.contentLengthBytes = y, !.h = x])
  BY <1>2 DEF RHead, HasFields, RFields
<1>3. /\ IsList(R!H!delAllArgs(hd.h, "Transfer-Encoding"))
      /\ \A v : IsList(R!H!setArg(hd.h, "Transfer-Encoding", v))
  BY ArgsLists DEF RHead
<1> QED
  BY <1>1, <1>2, <1>3, Zenon DEF R!H!SetContentLength

\* Cookie lines that become cookies.
LEMMA QCollect ==
  ASSUME NEW hd, QHead(hd)
  PROVE  QHead(Q!H!collectCookies(hd))
<1>1. \E ck, T : Q!H!collectCookies(hd) = IF hd.cookiesCollected THEN hd
          ELSE [hd EXCEPT !.cookies = ck, !.h = Q!H!Picked(hd.h, DOMAIN hd.h \ T),
                          !.cookiesCollected = TRUE]
  BY Zenon DEF Q!H!collectCookies
<1>2. PICK ck, T : Q!H!collectCookies(hd) = IF hd.cookiesCollected THEN hd
          ELSE [hd EXCEPT !.cookies = ck, !.h = Q!H!Picked(hd.h, DOMAIN hd.h \ T),
                          !.cookiesCollected = TRUE]
  BY <1>1
<1>3. PICK n \in Nat : DOMAIN hd.h = 1..n
  BY DEF QHead, IsList
<1>4. IsList(Q!H!Picked(hd.h, DOMAIN hd.h \ T))
  BY <1>3, PickedList
<1> QED
  BY <1>2, <1>4 DEF QRead, QHead, HasFields, QFields

\* Cookies are set and deleted after they were collected.
LEMMA QCookies ==
  ASSUME NEW hd, QHead(hd), NEW x
  PROVE  /\ QHead(Q!H!SetCookie(hd, x)) /\ QHead(Q!H!DelCookie(hd, x))
         /\ QHead(Q!H!DelAllCookies(hd))
<1>1. PICK c : c = Q!H!collectCookies(hd)
  OBVIOUS
<1>2. ASSUME NEW y PROVE QHead([c EXCEPT !.cookies = y])
  BY <1>1, QCollect DEF QRead, QHead, HasFields, QFields
<1> QED
  BY <1>1, <1>2 DEF Q!H!SetCookie, Q!H!DelCookie, Q!H!DelAllCookies

LEMMA RCookies ==
  ASSUME NEW hd, RHead(hd), NEW x
  PROVE  /\ RHead(R!H!SetCookie(hd, x)) /\ RHead(R!H!DelCookie(hd, x))
         /\ RHead(R!H!DelAllCookies(hd))
<1>1. RHead([hd EXCEPT !.cookies = <<>>])
  BY EmptyIsList DEF RHead, HasFields, RFields
<1> QED
  BY <1>1, RLine DEF R!H!SetCookie, R!H!DelCookie, R!H!DelAllCookies

\* The names of the trailer, and the first line.
LEMMA QNames ==
  ASSUME NEW hd, QHead(hd), NEW x
  PROVE  /\ QHead(Q!H!SetTrailer(hd, x)) /\ QHead(Q!H!AddTrailer(hd, x))
         /\ QHead(Q!H!SetMethod(hd, x)) /\ QHead(Q!H!SetProtocol(hd, x))
         /\ QHead(Q!H!DisableSpecialHeader(hd))
         /\ QHead([hd EXCEPT !.contentType = x])
<1>1. ASSUME NEW y PROVE QHead([hd EXCEPT !.trailer = y])
  BY DEF QRead, QHead, HasFields, QFields
<1>2. ASSUME NEW y PROVE QHead([hd EXCEPT !.method = y]) /\ QHead([hd EXCEPT !.contentType = y])
  BY DEF QRead, QHead, HasFields, QFields
<1>3. ASSUME NEW y, NEW z PROVE QHead([hd EXCEPT !.proto = y, !.noHTTP11 = z])
  BY DEF QRead, QHead, HasFields, QFields
<1>4. ASSUME NEW y \in BOOLEAN PROVE QHead([hd EXCEPT !.disableSpecialHeader = y])
  BY DEF QRead, QHead, HasFields, QFields
<1> QED
  BY <1>1, <1>2, <1>3, <1>4
  DEF Q!H!SetTrailer, Q!H!AddTrailer, Q!H!SetMethod, Q!H!SetProtocol, Q!H!DisableSpecialHeader

LEMMA RNames ==
  ASSUME NEW hd, RHead(hd), NEW x
  PROVE  /\ RHead(R!H!SetTrailer(hd, x)) /\ RHead(R!H!AddTrailer(hd, x))
         /\ RHead(R!H!SetStatusCode(hd, x)) /\ RHead(R!H!SetProtocol(hd, x))
         /\ RHead([hd EXCEPT !.contentType = x]) /\ RHead([hd EXCEPT !.contentEncoding = x])
         /\ RHead([hd EXCEPT !.server = x])
<1>1. ASSUME NEW y PROVE RHead([hd EXCEPT !.trailer = y])
  BY DEF RHead, HasFields, RFields
<1>2. RHead([hd EXCEPT !.statusCode = x]) /\ RHead([hd EXCEPT !.protocol = x])
  BY DEF RHead, HasFields, RFields
<1>3. /\ RHead([hd EXCEPT !.contentType = x]) /\ RHead([hd EXCEPT !.contentEncoding = x])
      /\ RHead([hd EXCEPT !.server = x])
  BY DEF RHead, HasFields, RFields
<1> QED
  BY <1>1, <1>2, <1>3
  DEF R!H!SetTrailer, R!H!AddTrailer, R!H!SetStatusCode, R!H!SetProtocol

\* Set, Add and Del of any name.
LEMMA QEdits ==
  ASSUME NEW hd, QHead(hd), NEW key, NEW v
  PROVE  QHead(Q!H!Set(hd, key, v)) /\ QHead(Q!H!Add(hd, key, v)) /\ QHead(Q!H!Del(hd, key))
<1>1. ASSUME NEW x, QHead(x), NEW k PROVE QHead(Q!H!setNonSpecial(x, k, v))
  BY <1>1, QLine DEF Q!H!setNonSpecial
<1>2. ASSUME NEW k PROVE QHead(Q!H!setSpecialHeader(hd, k, v))
  <2> DEFINE kk == Q!H!Canon(k)
  <2>1. CASE kk = "Cookie"
    <3>1. PICK c : c = Q!H!collectCookies(hd)
      OBVIOUS
    <3>2. Q!H!setSpecialHeader(hd, k, v) =
            [c EXCEPT !.cookies = Q!H!parseRequestCookies(@, v)]
      BY <2>1, <3>1 DEF Q!H!setSpecialHeader
    <3>3. QHead(c)
      BY <3>1, QCollect
    <3>4. ASSUME NEW y PROVE QHead([c EXCEPT !.cookies = y])
      BY <3>3 DEF QRead, QHead, HasFields, QFields
    <3> QED
      BY <3>2, <3>4
  <2>2. CASE kk = "Connection"
    BY <1>1, <2>2, QConnection DEF Q!H!setSpecialHeader
  <2>3. CASE kk \notin {"Cookie", "Connection"}
    <3>1. ASSUME NEW y PROVE QHead([hd EXCEPT !.host = y]) /\ QHead([hd EXCEPT !.userAgent = y])
      BY DEF QRead, QHead, HasFields, QFields
    <3>2. ASSUME NEW y, NEW z
          PROVE  QHead([hd EXCEPT !.contentLength = y, !.contentLengthBytes = z])
      BY DEF QRead, QHead, HasFields, QFields
    <3>3. ASSUME NEW y PROVE QHead(Q!H!SetTrailer(hd, y)) /\ QHead([hd EXCEPT !.contentType = y])
      BY QNames
    <3> QED
      BY <2>3, <3>1, <3>2, <3>3 DEF Q!H!setSpecialHeader
  <2> QED
    BY <2>1, <2>2, <2>3
<1>3. QHead(Q!H!Set(hd, key, v))
  BY <1>1, <1>2 DEF Q!H!Set, Q!H!SetCanonical
<1>4. QHead(Q!H!Add(hd, key, v))
  BY <1>2, QLine DEF Q!H!Add
<1>5. ASSUME NEW k PROVE QHead(Q!H!del(hd, k))
  <2>1. PICK c : c =
        CASE k = "Host"           -> [hd EXCEPT !.host = <<>>]
          [] k = "Content-Type"   -> [hd EXCEPT !.contentType = <<>>]
          [] k = "User-Agent"     -> [hd EXCEPT !.userAgent = <<>>]
          [] k = "Cookie"         -> [hd EXCEPT !.cookies = <<>>]
          [] k = "Content-Length" ->
               [hd EXCEPT !.contentLength = 0, !.contentLengthBytes = <<>>]
          [] k = "Connection"     -> [hd EXCEPT !.connectionClose = FALSE]
          [] k = "Trailer"        -> [hd EXCEPT !.trailer = <<>>]
          [] OTHER                -> hd
    OBVIOUS
  <2>2. QHead(c)
    BY <2>1 DEF QRead, QHead, HasFields, QFields
  <2>3. Q!H!del(hd, k) = [c EXCEPT !.h = Q!H!delAllArgs(@, k)]
    BY <2>1 DEF Q!H!del
  <2>4. QHead([c EXCEPT !.h = Q!H!delAllArgs(@, k)])
    BY <2>2, QLine
  <2> QED
    BY <2>3, <2>4, Zenon
<1> QED
  BY <1>3, <1>4, <1>5 DEF Q!H!Del

LEMMA REdits ==
  ASSUME NEW hd, RHead(hd), NEW key, NEW v
  PROVE  RHead(R!H!Set(hd, key, v)) /\ RHead(R!H!Add(hd, key, v)) /\ RHead(R!H!Del(hd, key))
<1>1. ASSUME NEW x, RHead(x), NEW k PROVE RHead(R!H!setNonSpecial(x, k, v))
  BY <1>1, RLine DEF R!H!setNonSpecial
<1>2. ASSUME NEW k PROVE RHead(R!H!setSpecialHeader(hd, k, v))
  <2> DEFINE kk == R!H!Canon(k)
  <2>1. CASE kk = "Set-Cookie"
    BY <2>1, RLine DEF R!H!setSpecialHeader
  <2>2. CASE kk = "Connection"
    BY <1>1, <2>2, RConnection DEF R!H!setSpecialHeader
  <2>3. CASE kk = "Content-Length"
    BY <2>3 DEF RHead, HasFields, RFields, R!H!setSpecialHeader
  <2>4. CASE kk \notin {"Set-Cookie", "Connection", "Content-Length"}
    BY <2>4, RNames DEF R!H!setSpecialHeader
  <2> QED
    BY <2>1, <2>2, <2>3, <2>4
<1>3. RHead(R!H!Set(hd, key, v))
  BY <1>1, <1>2 DEF R!H!Set, R!H!SetCanonical
<1>4. RHead(R!H!Add(hd, key, v))
  BY <1>2, RLine DEF R!H!Add
<1>5. ASSUME NEW k PROVE RHead(R!H!del(hd, k))
  <2>1. PICK c : c =
        CASE k = "Content-Type"     -> [hd EXCEPT !.contentType = <<>>]
          [] k = "Content-Encoding" -> [hd EXCEPT !.contentEncoding = <<>>]
          [] k = "Server"           -> [hd EXCEPT !.server = <<>>]
          [] k = "Set-Cookie"       -> [hd EXCEPT !.cookies = <<>>]
          [] k = "Content-Length"   ->
               [hd EXCEPT !.contentLength = 0, !.contentLengthBytes = <<>>]
          [] k = "Connection"       -> [hd EXCEPT !.connectionClose = FALSE]
          [] k = "Trailer"          -> [hd EXCEPT !.trailer = <<>>]
          [] OTHER                  -> hd
    OBVIOUS
  <2>2. RHead(c)
    BY <2>1, EmptyIsList DEF RHead, HasFields, RFields
  <2>3. R!H!del(hd, k) = [c EXCEPT !.h = R!H!delAllArgs(@, k)]
    BY <2>1 DEF R!H!del
  <2>4. RHead([c EXCEPT !.h = R!H!delAllArgs(@, k)])
    BY <2>2, RLine
  <2> QED
    BY <2>3, <2>4, Zenon
<1> QED
  BY <1>3, <1>4, <1>5 DEF R!H!Del

\* The Vary line of compressed responses.
LEMMA RVary ==
  ASSUME NEW hd, RHead(hd), NEW v
  PROVE  RHead(R!H!addVaryBytes(hd, v))
  BY REdits DEF R!H!addVaryBytes

-----------------------------------------------------------------------------
(* Headers on the wire.                                                    *)

CloseLine == [k |-> "Connection", v |-> <<"close">>]

\* Lines of which the last says that the connection is closed.
EndsInClose(lines) ==
  \E n \in Nat \ {0} : DOMAIN lines = 1..n /\ lines[n] = CloseLine

LEMMA ListThenClose ==
  ASSUME NEW s, IsList(s)
  PROVE  EndsInClose(s \o <<CloseLine>>)
<1> DEFINE S == {s[i] : i \in DOMAIN s} \cup {CloseLine}
           t == s \o <<CloseLine>>
<1>1. s \in Seq(S)
  BY ListSeq
<1> HIDE DEF S
<1>2. CloseLine \in S
  BY DEF S
<1>3. PICK c : c = CloseLine
  OBVIOUS
<1>4. s \o <<c>> \in Seq(S) /\ Len(s \o <<c>>) = Len(s) + 1 /\ (s \o <<c>>)[Len(s) + 1] = c
  BY <1>1, <1>2, <1>3
<1>5. t \in Seq(S) /\ Len(t) = Len(s) + 1 /\ t[Len(s) + 1] = CloseLine
  BY <1>3, <1>4
<1>6. Len(s) \in Nat
  BY <1>1
<1> HIDE DEF t
<1>7. DOMAIN t = 1..(Len(s) + 1)
  BY <1>5
<1>8. EndsInClose(t)
  BY <1>5, <1>6, <1>7 DEF EndsInClose
<1> QED
  BY <1>8 DEF t

LEMMA LinesAreLists ==
  ASSUME NEW k, NEW v
  PROVE  /\ IsList(R!H!appendHeaderLine(k, v)) /\ IsList(Q!H!appendHeaderLine(k, v))
         /\ IsList(R!H!LineIfSet(k, v)) /\ IsList(Q!H!LineIfSet(k, v))
  BY OneIsList, EmptyIsList
  DEF R!H!appendHeaderLine, Q!H!appendHeaderLine, R!H!LineIfSet, Q!H!LineIfSet

\* Lines of h that are not trailers, and those without a date.
LEMMA PlainLines ==
  ASSUME NEW h, IsList(h), NEW trailer
  PROVE  /\ IsList(R!H!notTrailers(h, trailer)) /\ IsList(Q!H!notTrailers(h, trailer))
         /\ IsList(R!H!delAllArgs(R!H!notTrailers(h, trailer), "Date"))
<1>1. PICK n \in Nat : DOMAIN h = 1..n
  BY DEF IsList
<1>2. IsList(R!H!notTrailers(h, trailer))
  <2>1. {i \in DOMAIN h : \A j \in DOMAIN trailer : trailer[j].k # h[i].k} \in SUBSET (1..n)
    BY <1>1
  <2> QED
    BY <2>1, PickedList DEF R!H!notTrailers
<1>3. IsList(Q!H!notTrailers(h, trailer))
  <2>1. {i \in DOMAIN h : \A j \in DOMAIN trailer : trailer[j].k # h[i].k} \in SUBSET (1..n)
    BY <1>1
  <2> QED
    BY <2>1, PickedList DEF Q!H!notTrailers
<1> QED
  BY <1>2, <1>3, ArgsLists

\* What AppendBytes writes is a list of lines; a message after which the
\* connection is closed says so in the last one.
LEMMA QWritten ==
  ASSUME NEW hd, QHead(hd)
  PROVE  /\ IsList(Q!H!AppendBytes(hd))
         /\ hd.connectionClose /\ ~hd.disableSpecialHeader
              => EndsInClose(Q!H!AppendBytes(hd))
<1> DEFINE special(l) == IF hd.disableSpecialHeader THEN <<>> ELSE l
           ct == IF /\ ~hd.noDefaultContentType /\ Q!H!ContentType(hd) = <<>>
                    /\ ~Q!H!ignoreBody(hd)
                 THEN <<"application/octet-stream">> ELSE Q!H!ContentType(hd)
           a == special(Q!H!LineIfSet("User-Agent", Q!H!UserAgent(hd)))
           b == special(Q!H!LineIfSet("Host", Q!H!Host(hd)))
           c == special(Q!H!LineIfSet("Content-Type", ct))
           d == special(Q!H!LineIfSet("Content-Length", hd.contentLengthBytes))
           e == Q!H!notTrailers(hd.h, hd.trailer)
           f == Q!H!LineIfSet("Trailer", Q!H!peekArgsKeys(hd.trailer))
           g == special(Q!H!LineIfSet("Cookie", Q!H!cookieValue(hd.cookies)))
           z == special(IF hd.connectionClose
                        THEN Q!H!appendHeaderLine("Connection", <<"close">>) ELSE <<>>)
           s == a \o b \o c \o d \o e \o f \o g
<1>1. Q!H!AppendBytes(hd) = s \o z
  BY Zenon DEF Q!H!AppendBytes
<1>2. IsList(a) /\ IsList(b) /\ IsList(c) /\ IsList(d) /\ IsList(f) /\ IsList(g)
  <2> HIDE DEF ct
  <2> QED
    BY LinesAreLists, EmptyIsList
<1>3. IsList(e)
  BY PlainLines DEF QHead
<1>4. /\ IsList(z)
      /\ hd.connectionClose /\ ~hd.disableSpecialHeader => z = <<CloseLine>>
  BY LinesAreLists, EmptyIsList DEF Q!H!appendHeaderLine, CloseLine
<1> HIDE DEF a, b, c, d, e, f, g, z
<1>5. IsList(s)
  BY <1>2, <1>3, CatList, Zenon
<1> HIDE DEF s
<1> QED
  BY <1>1, <1>4, <1>5, CatList, ListThenClose, Zenon

LEMMA RWritten ==
  ASSUME NEW hd, RHead(hd)
  PROVE  /\ IsList(R!H!AppendBytes(hd))
         /\ hd.connectionClose => EndsInClose(R!H!AppendBytes(hd))
<1> DEFINE a == R!H!LineIfSet("Server", hd.server)
           b == IF hd.noDefaultDate THEN <<>> ELSE R!H!appendHeaderLine("Date", <<"now">>)
           c == IF hd.contentLength # 0 \/ hd.contentType # <<>>
                THEN R!H!LineIfSet("Content-Type", R!H!ContentType(hd)) ELSE <<>>
           d == R!H!LineIfSet("Content-Encoding", hd.contentEncoding)
           e == R!H!LineIfSet("Content-Length", hd.contentLengthBytes)
           f == IF hd.noDefaultDate THEN R!H!notTrailers(hd.h, hd.trailer)
                ELSE R!H!delAllArgs(R!H!notTrailers(hd.h, hd.trailer), "Date")
           g == R!H!LineIfSet("Trailer", R!H!peekArgsKeys(hd.trailer))
           y == [i \in DOMAIN hd.cookies |-> [k |-> "Set-Cookie", v |-> hd.cookies[i].v]]
           z == IF hd.connectionClose
                THEN R!H!appendHeaderLine("Connection", <<"close">>) ELSE <<>>
           s == a \o b \o c \o d \o e \o f \o g \o y
<1>1. R!H!AppendBytes(hd) = s \o z
  BY Zenon DEF R!H!AppendBytes
<1>2. IsList(a) /\ IsList(b) /\ IsList(c) /\ IsList(d) /\ IsList(e) /\ IsList(g)
  BY LinesAreLists, EmptyIsList
<1>3. IsList(f)
  BY PlainLines DEF RHead
<1>4. IsList(y)
  <2>1. PICK n \in Nat : DOMAIN hd.cookies = 1..n
    BY DEF RHead, IsList
  <2>2. y = [i \in 1..n |-> y[i]]
    BY <2>1
  <2> HIDE DEF y
  <2> QED
    BY <2>2 DEF IsList
<1>5. IsList(z) /\ (hd.connectionClose => z = <<CloseLine>>)
  BY LinesAreLists, EmptyIsList DEF R!H!appendHeaderLine, CloseLine
<1> HIDE DEF a, b, c, d, e, f, g, y, z
<1>6. IsList(s)
  BY <1>2, <1>3, <1>4, CatList, Zenon
<1> HIDE DEF s
<1> QED
  BY <1>1, <1>5, <1>6, CatList, ListThenClose, Zenon

\* One line read: the fields stay, and whether there are special headers.
QAcc(acc) == HasFields(acc, {"hd", "err"}) /\ QRead(acc.hd)
RAcc(acc) == HasFields(acc, {"hd", "err"}) /\ HasFields(acc.hd, RFields)

LEMMA QParseLine ==
  ASSUME NEW acc, QAcc(acc), NEW key, NEW value
  PROVE  LET new == Q!H!parseLine(acc, key, value)
         IN  QAcc(new) /\ new.hd.disableSpecialHeader = acc.hd.disableSpecialHeader
<1>1. PICK hd : hd = acc.hd
  OBVIOUS
<1> DEFINE Ok(x) == QRead(x) /\ x.disableSpecialHeader = hd.disableSpecialHeader
           Good(new) == QAcc(new) /\ new.hd.disableSpecialHeader = hd.disableSpecialHeader
           k == Q!H!Canon(key)
           new == Q!H!parseLine(acc, key, value)
<1>2. /\ \A x : Ok(x) => Good([acc EXCEPT !.hd = x])
      /\ \A x, e : Ok(x) => Good([hd |-> x, err |-> e])
      /\ Good(acc)
  BY <1>1 DEF QAcc, HasFields
<1>3. /\ \A x : Ok([hd EXCEPT !.h = x]) /\ Ok([hd EXCEPT !.host = x])
      /\ \A x : Ok([hd EXCEPT !.userAgent = x]) /\ Ok([hd EXCEPT !.contentType = x])
      /\ \A x : Ok([hd EXCEPT !.contentLength = x]) /\ Ok([hd EXCEPT !.trailer = x])
      /\ \A x : Ok([hd EXCEPT !.connectionClose = x])
  <2>1. ASSUME NEW x PROVE Ok([hd EXCEPT !.h = x]) /\ Ok([hd EXCEPT !.host = x])
    BY <1>1 DEF QAcc, QRead, HasFields, QFields
  <2>2. ASSUME NEW x PROVE Ok([hd EXCEPT !.userAgent = x]) /\ Ok([hd EXCEPT !.contentType = x])
    BY <1>1 DEF QAcc, QRead, HasFields, QFields
  <2>3. ASSUME NEW x PROVE Ok([hd EXCEPT !.contentLength = x]) /\ Ok([hd EXCEPT !.trailer = x])
    BY <1>1 DEF QAcc, QRead, HasFields, QFields
  <2>4. ASSUME NEW x PROVE Ok([hd EXCEPT !.connectionClose = x])
    BY <1>1 DEF QAcc, QRead, HasFields, QFields
  <2> HIDE DEF Ok
  <2> QED
    BY <2>1, <2>2, <2>3, <2>4
<1>4. /\ \A x, y : Ok([hd EXCEPT !.contentLength = x, !.contentLengthBytes = y])
      /\ \A x, y : Ok([hd EXCEPT !.connectionClose = x, !.h = y])
      /\ \A x, y : Ok([hd EXCEPT !.contentLength = x, !.h = y])
  <2>1. ASSUME NEW x, NEW y
        PROVE  Ok([hd EXCEPT !.contentLength = x, !.contentLengthBytes = y])
    BY <1>1 DEF QAcc, QRead, HasFields, QFields
  <2>2. ASSUME NEW x, NEW y PROVE Ok([hd EXCEPT !.connectionClose = x, !.h = y])
    BY <1>1 DEF QAcc, QRead, HasFields, QFields
  <2>3. ASSUME NEW x, NEW y PROVE Ok([hd EXCEPT !.contentLength = x, !.h = y])
    BY <1>1 DEF QAcc, QRead, HasFields, QFields
  <2> HIDE DEF Ok
  <2> QED
    BY <2>1, <2>2, <2>3
<1> SUFFICES Good(new)
  BY <1>1
<1> HIDE DEF Ok, Good
<1>5. CASE hd.disableSpecialHeader
  BY <1>1, <1>2, <1>3, <1>5 DEF Q!H!parseLine
<1>6. CASE ~hd.disableSpecialHeader
  <2>1. CASE k \in {"Host", "User-Agent", "Content-Type"}
    BY <1>1, <1>2, <1>3, <1>6, <2>1 DEF Q!H!parseLine
  <2>2. CASE k = "Content-Length"
    BY <1>1, <1>2, <1>3, <1>4, <1>6, <2>2, Zenon DEF Q!H!parseLine
  <2>3. CASE k = "Connection"
    BY <1>1, <1>2, <1>3, <1>4, <1>6, <2>3, Zenon DEF Q!H!parseLine, Q!H!SetConnectionClose
  <2>4. CASE k = "Transfer-Encoding"
    BY <1>1, <1>2, <1>4, <1>6, <2>4, Zenon DEF Q!H!parseLine
  <2>5. CASE k = "Trailer"
    BY <1>1, <1>2, <1>3, <1>6, <2>5, Zenon DEF Q!H!parseLine, Q!H!SetTrailer
  <2>6. CASE k \notin {"Host", "User-Agent", "Content-Type", "Content-Length", "Connection",
                       "Transfer-Encoding", "Trailer"}
    BY <1>1, <1>2, <1>3, <1>6, <2>6 DEF Q!H!parseLine
  <2> QED
    BY <2>1, <2>2, <2>3, <2>4, <2>5, <2>6
<1> QED
  BY <1>5, <1>6

LEMMA RParseLine ==
  ASSUME NEW acc, RAcc(acc), NEW key, NEW value
  PROVE  RAcc(R!H!parseLine(acc, key, value))
<1>1. PICK hd : hd = acc.hd
  OBVIOUS
<1> DEFINE Ok(x) == HasFields(x, RFields)
           k == R!H!Canon(key)
<1>2. /\ \A x : Ok(x) => RAcc([acc EXCEPT !.hd = x])
      /\ \A x, e : Ok(x) => RAcc([hd |-> x, err |-> e])
      /\ RAcc(acc)
  BY <1>1 DEF RAcc, HasFields
<1>3. /\ \A x : Ok([hd EXCEPT !.h = x]) /\ Ok([hd EXCEPT !.server = x])
      /\ \A x : Ok([hd EXCEPT !.contentEncoding = x]) /\ Ok([hd EXCEPT !.contentType = x])
      /\ \A x : Ok([hd EXCEPT !.contentLength = x]) /\ Ok([hd EXCEPT !.trailer = x])
      /\ \A x : Ok([hd EXCEPT !.connectionClose = x]) /\ Ok([hd EXCEPT !.cookies = x])
  <2>1. ASSUME NEW x PROVE Ok([hd EXCEPT !.h = x]) /\ Ok([hd EXCEPT !.server = x])
    BY <1>1 DEF RAcc, HasFields, RFields
  <2>2. ASSUME NEW x
        PROVE  Ok([hd EXCEPT !.contentEncoding = x]) /\ Ok([hd EXCEPT !.contentType = x])
    BY <1>1 DEF RAcc, HasFields, RFields
  <2>3. ASSUME NEW x PROVE Ok([hd EXCEPT !.contentLength = x]) /\ Ok([hd EXCEPT !.trailer = x])
    BY <1>1 DEF RAcc, HasFields, RFields
  <2>4. ASSUME NEW x
        PROVE  Ok([hd EXCEPT !.connectionClose = x]) /\ Ok([hd EXCEPT !.cookies = x])
    BY <1>1 DEF RAcc, HasFields, RFields
  <2> HIDE DEF Ok
  <2> QED
    BY <2>1, <2>2, <2>3, <2>4
<1>4. /\ \A x, y : Ok([hd EXCEPT !.contentLength = x, !.contentLengthBytes = y])
      /\ \A x, y : Ok([hd EXCEPT !.connectionClose = x, !.h = y])
      /\ \A x, y : Ok([hd EXCEPT !.contentLength = x, !.h = y])
  <2>1. ASSUME NEW x, NEW y
        PROVE  Ok([hd EXCEPT !.contentLength = x, !.contentLengthBytes = y])
    BY <1>1 DEF RAcc, HasFields, RFields
  <2>2. ASSUME NEW x, NEW y PROVE Ok([hd EXCEPT !.connectionClose = x, !.h = y])
    BY <1>1 DEF RAcc, HasFields, RFields
  <2>3. ASSUME NEW x, NEW y PROVE Ok([hd EXCEPT !.contentLength = x, !.h = y])
    BY <1>1 DEF RAcc, HasFields, RFields
  <2> HIDE DEF Ok
  <2> QED
    BY <2>1, <2>2, <2>3
<1> HIDE DEF Ok
<1>5. CASE k \in {"Server", "Content-Type", "Content-Encoding", "Set-Cookie"}
  BY <1>1, <1>2, <1>3, <1>5 DEF R!H!parseLine
<1>6. CASE k = "Content-Length"
  BY <1>1, <1>2, <1>3, <1>4, <1>6, Zenon DEF R!H!parseLine
<1>7. CASE k = "Connection"
  BY <1>1, <1>2, <1>3, <1>4, <1>7, Zenon DEF R!H!parseLine, R!H!SetConnectionClose
<1>8. CASE k = "Transfer-Encoding"
  BY <1>1, <1>2, <1>4, <1>8, Zenon DEF R!H!parseLine
<1>9. CASE k = "Trailer"
  BY <1>1, <1>2, <1>3, <1>9, Zenon DEF R!H!parseLine, R!H!SetTrailer
<1>10. CASE k \notin {"Server", "Content-Type", "Content-Encoding", "Set-Cookie",
                      "Content-Length", "Connection", "Transfer-Encoding", "Trailer"}
  BY <1>1, <1>2, <1>3, <1>10 DEF R!H!parseLine
<1> QED
  BY <1>5, <1>6, <1>7, <1>8, <1>9, <1>10

\* The line that closes the connection.
LEMMA CloseLineRead ==
  ASSUME NEW acc, NEW dn
  PROVE  /\ QAcc(acc) /\ ~acc.hd.disableSpecialHeader
              => QStep(acc, CloseLine, dn).hd.connectionClose
         /\ RAcc(acc) => RStep(acc, CloseLine, dn).hd.connectionClose
<1>1. /\ Q!H!normalizeHeaderKey("Connection", dn) = "Connection"
      /\ R!H!normalizeHeaderKey("Connection", dn) = "Connection"
      /\ Q!H!Canon("Connection") = "Connection" /\ R!H!Canon("Connection") = "Connection"
  BY DEF Q!H!normalizeHeaderKey, R!H!normalizeHeaderKey, Q!H!Canon, R!H!Canon
<1>2. CloseLine.k = "Connection" /\ CloseLine.v = <<"close">>
  BY DEF CloseLine
<1>3. ASSUME NEW x, HasFields(x, QFields) \/ HasFields(x, RFields)
      PROVE  [x EXCEPT !.connectionClose = TRUE].connectionClose = TRUE
  BY <1>3 DEF HasFields, QFields, RFields
<1>4. ASSUME NEW x, HasFields(acc, {"hd", "err"}) PROVE [acc EXCEPT !.hd = x].hd = x
  BY <1>4 DEF HasFields
<1>5. ASSUME QAcc(acc), ~acc.hd.disableSpecialHeader
      PROVE  QStep(acc, CloseLine, dn).hd.connectionClose
  <2>1. QStep(acc, CloseLine, dn) = Q!H!parseLine(acc, "Connection", <<"close">>)
    BY <1>1, <1>2, Zenon DEF QStep
  <2>2. Q!H!parseLine(acc, "Connection", <<"close">>) =
          [acc EXCEPT !.hd = [acc.hd EXCEPT !.connectionClose = TRUE]]
    BY <1>1, <1>5 DEF Q!H!parseLine, Q!H!SetConnectionClose
  <2>3. PICK x : x = [acc.hd EXCEPT !.connectionClose = TRUE]
    OBVIOUS
  <2>4. x.connectionClose = TRUE
    BY <1>3, <1>5, <2>3 DEF QAcc, QRead
  <2>5. QStep(acc, CloseLine, dn).hd = x
    BY <1>4, <1>5, <2>1, <2>2, <2>3 DEF QAcc
  <2> QED
    BY <2>4, <2>5
<1>6. ASSUME RAcc(acc)
      PROVE  RStep(acc, CloseLine, dn).hd.connectionClose
  <2>1. RStep(acc, CloseLine, dn) = R!H!parseLine(acc, "Connection", <<"close">>)
    BY <1>1, <1>2, Zenon DEF RStep
  <2>2. R!H!parseLine(acc, "Connection", <<"close">>) =
          [acc EXCEPT !.hd = [acc.hd EXCEPT !.connectionClose = TRUE]]
    BY <1>1, <1>6 DEF R!H!parseLine, R!H!SetConnectionClose
  <2>3. PICK x : x = [acc.hd EXCEPT !.connectionClose = TRUE]
    OBVIOUS
  <2>4. x.connectionClose = TRUE
    BY <1>3, <1>6, <2>3 DEF RAcc
  <2>5. RStep(acc, CloseLine, dn).hd = x
    BY <1>4, <1>6, <2>1, <2>2, <2>3 DEF RAcc
  <2> QED
    BY <2>4, <2>5
<1> QED
  BY <1>5, <1>6

\* What comes after the last line does not reopen the connection.
LEMMA QFinished ==
  ASSUME NEW acc, QAcc(acc)
  PROVE  LET new == Q!H!finished(acc)
         IN  /\ QAcc(new) /\ new.hd.disableSpecialHeader = acc.hd.disableSpecialHeader
             /\ acc.hd.connectionClose => new.hd.connectionClose
<1>1. PICK a : a = Q!H!sized(acc.hd)
  OBVIOUS
<1>2. QRead(a) /\ a.disableSpecialHeader = acc.hd.disableSpecialHeader
      /\ a.connectionClose = acc.hd.connectionClose
  BY <1>1 DEF QAcc, QRead, HasFields, QFields, Q!H!sized
<1>3. PICK b : b = Q!H!keptAlive(a)
  OBVIOUS
<1>4. /\ QRead(b) /\ b.disableSpecialHeader = a.disableSpecialHeader
      /\ a.connectionClose => b.connectionClose
  <2>1. ASSUME NEW x
        PROVE  LET y == [a EXCEPT !.connectionClose = x]
               IN  QRead(y) /\ y.disableSpecialHeader = a.disableSpecialHeader
    BY <1>2 DEF QRead, HasFields, QFields
  <2> QED
    BY <1>2, <1>3, <2>1, Zenon DEF Q!H!keptAlive
<1>5. Q!H!finished(acc) = [acc EXCEPT !.hd = b]
  BY <1>1, <1>3 DEF Q!H!finished
<1>6. QAcc([acc EXCEPT !.hd = b]) /\ [acc EXCEPT !.hd = b].hd = b
  BY <1>4 DEF QAcc, HasFields
<1> QED
  BY <1>2, <1>4, <1>5, <1>6, Zenon

LEMMA RFinished ==
  ASSUME NEW acc, RAcc(acc)
  PROVE  LET new == R!H!finished(acc)
         IN  RAcc(new) /\ (acc.hd.connectionClose => new.hd.connectionClose)
<1>1. PICK a : a = R!H!sized(acc.hd)
  OBVIOUS
<1>2. HasFields(a, RFields) /\ a.connectionClose = acc.hd.connectionClose
  BY <1>1 DEF RAcc, HasFields, RFields, R!H!sized
<1>3. PICK b : b = R!H!identity(a)
  OBVIOUS
<1>4. HasFields(b, RFields) /\ (a.connectionClose => b.connectionClose)
  <2>1. ASSUME NEW x, NEW z
        PROVE  LET y == [a EXCEPT !.h = x, !.connectionClose = z]
               IN  HasFields(y, RFields) /\ y.connectionClose = z
    BY <1>2 DEF HasFields, RFields
  <2> QED
    BY <1>2, <1>3, <2>1, Zenon DEF R!H!identity
<1>5. PICK c : c = R!H!keptAlive(b)
  OBVIOUS
<1>6. HasFields(c, RFields) /\ (b.connectionClose => c.connectionClose)
  <2>1. ASSUME NEW x PROVE HasFields([b EXCEPT !.connectionClose = x], RFields)
    BY <1>4 DEF HasFields, RFields
  <2> QED
    BY <1>4, <1>5, <2>1, Zenon DEF R!H!keptAlive
<1>7. R!H!finished(acc) = [acc EXCEPT !.hd = c]
  BY <1>1, <1>3, <1>5 DEF R!H!finished
<1>8. RAcc([acc EXCEPT !.hd = c]) /\ [acc EXCEPT !.hd = c].hd = c
  BY <1>6 DEF RAcc, HasFields
<1> QED
  BY <1>2, <1>4, <1>6, <1>7, <1>8, Zenon

\* Any lines; and lines of which the last closes the connection.
LEMMA QParsed ==
  ASSUME NEW hd, QRead(hd), NEW lines, IsList(lines)
  PROVE  LET r == Q!H!parseHeaders(hd, lines)
         IN  /\ QAcc(r) /\ r.hd.disableSpecialHeader = hd.disableSpecialHeader
             /\ EndsInClose(lines) /\ ~hd.disableSpecialHeader => r.hd.connectionClose
<1>1. PICK n \in Nat : DOMAIN lines = 1..n
  BY DEF IsList
<1>2. PICK g : /\ g[0] = [hd |-> [hd EXCEPT !.contentLength = -2], err |-> FALSE]
               /\ \A i \in 1..n : g[i] = QStep(g[i - 1], lines[i], hd.disableNormalizing)
               /\ Q!H!parseHeaders(hd, lines) = Q!H!finished(g[n])
  BY <1>1, QFold
<1> DEFINE P(acc) == QAcc(acc) /\ acc.hd.disableSpecialHeader = hd.disableSpecialHeader
           K == {i \in Nat : i <= n => P(g[i])}
<1>3. 0 \in K
  <2>1. PICK x : x = [hd EXCEPT !.contentLength = -2]
    OBVIOUS
  <2>2. QRead(x) /\ x.disableSpecialHeader = hd.disableSpecialHeader
    BY <2>1 DEF QRead, HasFields, QFields
  <2>3. ASSUME NEW e
        PROVE  LET a == [hd |-> x, err |-> e] IN HasFields(a, {"hd", "err"}) /\ a.hd = x
    BY DEF HasFields
  <2>4. HasFields(g[0], {"hd", "err"}) /\ g[0].hd = x
    BY <1>2, <2>1, <2>3
  <2> QED
    BY <2>2, <2>4 DEF QAcc
<1>4. ASSUME NEW i \in Nat, i \in K PROVE i + 1 \in K
  <2> SUFFICES ASSUME i + 1 <= n PROVE P(g[i + 1])
    OBVIOUS
  <2>1. P(g[i])
    BY <1>4
  <2>2. i + 1 \in 1..n /\ (i + 1) - 1 = i
    OBVIOUS
  <2>3. g[i + 1] = QStep(g[i], lines[i + 1], hd.disableNormalizing)
    BY <1>2, <2>2
  <2> QED
    BY <2>1, <2>3, QParseLine DEF QStep
<1> HIDE DEF K, P
<1>5. \A i \in 0..n : P(g[i])
  <2>1. Nat \subseteq K
    BY <1>3, <1>4, Induction
  <2> QED
    BY <2>1 DEF K
<1>6. P(g[n])
  BY <1>5
<1>7. ASSUME EndsInClose(lines), ~hd.disableSpecialHeader PROVE g[n].hd.connectionClose
  <2>1. n # 0 /\ lines[n] = CloseLine
    BY <1>1, <1>7 DEF EndsInClose
  <2>2. P(g[n - 1]) /\ g[n] = QStep(g[n - 1], CloseLine, hd.disableNormalizing)
    BY <1>2, <1>5, <2>1
  <2> QED
    BY <1>7, <2>2, CloseLineRead DEF P
<1> QED
  BY <1>2, <1>6, <1>7, QFinished DEF P

LEMMA RParsed ==
  ASSUME NEW hd, HasFields(hd, RFields), NEW lines, IsList(lines)
  PROVE  LET r == R!H!parseHeaders(hd, lines)
         IN  RAcc(r) /\ (EndsInClose(lines) => r.hd.connectionClose)
<1>1. PICK n \in Nat : DOMAIN lines = 1..n
  BY DEF IsList
<1>2. PICK g : /\ g[0] = [hd |-> [hd EXCEPT !.contentLength = -2], err |-> FALSE]
               /\ \A i \in 1..n : g[i] = RStep(g[i - 1], lines[i], hd.disableNormalizing)
               /\ R!H!parseHeaders(hd, lines) = R!H!finished(g[n])
  BY <1>1, RFold
<1> DEFINE K == {i \in Nat : i <= n => RAcc(g[i])}
<1>3. 0 \in K
  <2>1. PICK x : x = [hd EXCEPT !.contentLength = -2]
    OBVIOUS
  <2>2. HasFields(x, RFields)
    BY <2>1 DEF HasFields, RFields
  <2>3. ASSUME NEW e
        PROVE  LET a == [hd |-> x, err |-> e] IN HasFields(a, {"hd", "err"}) /\ a.hd = x
    BY DEF HasFields
  <2>4. HasFields(g[0], {"hd", "err"}) /\ g[0].hd = x
    BY <1>2, <2>1, <2>3
  <2> QED
    BY <2>2, <2>4 DEF RAcc
<1>4. ASSUME NEW i \in Nat, i \in K PROVE i + 1 \in K
  <2> SUFFICES ASSUME i + 1 <= n PROVE RAcc(g[i + 1])
    OBVIOUS
  <2>1. RAcc(g[i])
    BY <1>4
  <2>2. i + 1 \in 1..n /\ (i + 1) - 1 = i
    OBVIOUS
  <2>3. g[i + 1] = RStep(g[i], lines[i + 1], hd.disableNormalizing)
    BY <1>2, <2>2
  <2> QED
    BY <2>1, <2>3, RParseLine DEF RStep
<1> HIDE DEF K
<1>5. \A i \in 0..n : RAcc(g[i])
  <2>1. Nat \subseteq K
    BY <1>3, <1>4, Induction
  <2> QED
    BY <2>1 DEF K
<1>6. RAcc(g[n])
  BY <1>5
<1>7. ASSUME EndsInClose(lines) PROVE g[n].hd.connectionClose
  <2>1. n # 0 /\ lines[n] = CloseLine
    BY <1>1, <1>7 DEF EndsInClose
  <2>2. RAcc(g[n - 1]) /\ g[n] = RStep(g[n - 1], CloseLine, hd.disableNormalizing)
    BY <1>2, <1>5, <2>1
  <2> QED
    BY <2>2, CloseLineRead
<1> QED
  BY <1>2, <1>6, <1>7, RFinished

\* Read of a header.
LEMMA QHeaderRead ==
  ASSUME NEW hd, QRead(hd), NEW first, NEW lines, IsList(lines)
  PROVE  LET r == Q!H!Read(hd, first, lines)
         IN  /\ QRead(r.hd) /\ r.hd.disableSpecialHeader = hd.disableSpecialHeader
             /\ ~r.err /\ EndsInClose(lines) /\ ~hd.disableSpecialHeader
                  => r.hd.connectionClose
<1>1. PICK a : a = Q!H!parseFirstLine(Q!H!resetSkipNormalize(hd), first)
  OBVIOUS
<1>2. QRead(a) /\ a.disableSpecialHeader = hd.disableSpecialHeader
  <2>1. PICK b : b = Q!H!resetSkipNormalize(hd)
    OBVIOUS
  <2>2. QRead(b) /\ b.disableSpecialHeader = hd.disableSpecialHeader
    BY <2>1, QReset DEF QHead
  <2> QED
    BY <1>1, <2>1, <2>2 DEF QRead, HasFields, QFields, Q!H!parseFirstLine
<1>3. PICK p : p = Q!H!parseHeaders(a, lines)
  OBVIOUS
<1>4. /\ QAcc(p) /\ p.hd.disableSpecialHeader = hd.disableSpecialHeader
      /\ EndsInClose(lines) /\ ~hd.disableSpecialHeader => p.hd.connectionClose
  BY <1>2, <1>3, QParsed
<1>5. Q!H!Read(hd, first, lines) =
        IF p.err THEN [p EXCEPT !.hd = Q!H!resetSkipNormalize(@)] ELSE p
  BY <1>1, <1>3, Zenon DEF Q!H!Read
<1>6. CASE p.err
  <2>1. PICK x : x = Q!H!resetSkipNormalize(p.hd)
    OBVIOUS
  <2>2. QRead(x) /\ x.disableSpecialHeader = p.hd.disableSpecialHeader
    BY <1>4, <2>1, QReset DEF QHead, QAcc
  <2>3. [p EXCEPT !.hd = x].hd = x /\ [p EXCEPT !.hd = x].err = p.err
    BY <1>4 DEF QAcc, HasFields
  <2> QED
    BY <1>4, <1>5, <1>6, <2>1, <2>2, <2>3
<1>7. CASE ~p.err
  BY <1>4, <1>5, <1>7 DEF QAcc
<1> QED
  BY <1>6, <1>7

LEMMA RHeaderRead ==
  ASSUME NEW hd, NEW first, NEW lines, IsList(lines)
  PROVE  LET r == R!H!Read(hd, first, lines)
         IN  /\ HasFields(r.hd, RFields)
             /\ ~r.err /\ EndsInClose(lines) => r.hd.connectionClose
<1>1. PICK a : a = R!H!parseFirstLine(R!H!resetSkipNormalize(hd), first)
  OBVIOUS
<1>2. HasFields(a, RFields)
  <2>1. PICK b : b = R!H!resetSkipNormalize(hd)
    OBVIOUS
  <2>2. HasFields(b, RFields)
    BY <2>1, RReset DEF RHead
  <2> QED
    BY <1>1, <2>1, <2>2 DEF HasFields, RFields, R!H!parseFirstLine
<1>3. PICK p : p = R!H!parseHeaders(a, lines)
  OBVIOUS
<1>4. RAcc(p) /\ (EndsInClose(lines) => p.hd.connectionClose)
  BY <1>2, <1>3, RParsed
<1>5. R!H!Read(hd, first, lines) =
        IF p.err THEN [p EXCEPT !.hd = R!H!resetSkipNormalize(@)] ELSE p
  BY <1>1, <1>3, Zenon DEF R!H!Read
<1>6. CASE p.err
  <2>1. PICK x : x = R!H!resetSkipNormalize(p.hd)
    OBVIOUS
  <2>2. HasFields(x, RFields)
    BY <2>1, RReset DEF RHead
  <2>3. [p EXCEPT !.hd = x].hd = x /\ [p EXCEPT !.hd = x].err = p.err
    BY <1>4 DEF RAcc, HasFields
  <2> QED
    BY <1>4, <1>5, <1>6, <2>1, <2>2, <2>3
<1>7. CASE ~p.err
  BY <1>4, <1>5, <1>7 DEF RAcc
<1> QED
  BY <1>6, <1>7

----------------------------------------------------------------------------
(* Messages: their fields, and what an operation does to the body stream.  *)

RMsgFields == {"header", "bodyStream", "body", "bodyRaw", "skipBody", "streamBody",
               "keepBodyBuffer", "closes"}
QMsgFields == {"header", "bodyStream", "body", "bodyRaw", "postArgs", "form",
               "keepBodyBuffer", "closes"}

NoBody == R!NoStream

LEMMA NoBodyFacts ==
  Q!NoStream = NoBody /\ R!NoStream = NoBody /\ NoBody.id = 0
  BY DEF NoBody, R!NoStream, Q!NoStream

\* The stream stays as it is; or it is closed once and forgotten.
StreamKept(x, y) == y.closes = x.closes /\ y.bodyStream = x.bodyStream
Shut(x, y) ==
  /\ y.bodyStream = NoBody
  /\ y.closes = IF x.bodyStream # NoBody
                THEN [x.closes EXCEPT ![x.bodyStream.id] = @ + 1] ELSE x.closes
KeptOrShut(x, y) == StreamKept(x, y) \/ Shut(x, y)

\* A message whose streams, those of op, are its body or closed once.
Once(x, op) ==
  /\ x.closes \in [Streams -> Nat]
  /\ \/ x.bodyStream = NoBody
     \/ HasFields(x.bodyStream, {"id", "n", "ok", "limited"}) /\ x.bodyStream.id \in op
  /\ \A id \in Streams :
       x.closes[id] + (IF x.bodyStream.id = id THEN 1 ELSE 0) = IF id \in op THEN 1 ELSE 0

LEMMA StreamKeptOnce ==
  ASSUME NEW x, NEW y, NEW op, op \subseteq Streams, Once(x, op), KeptOrShut(x, y)
  PROVE  Once(y, op)
<1>1. CASE StreamKept(x, y)
  BY <1>1 DEF StreamKept, Once
<1>2. CASE Shut(x, y) /\ x.bodyStream = NoBody
  BY <1>2 DEF Shut, Once
<1>3. CASE Shut(x, y) /\ x.bodyStream # NoBody
  <2>1. PICK s : s = x.bodyStream.id
    OBVIOUS
  <2>2. s \in Streams /\ s \in op /\ 0 \notin Streams
    BY <1>3, <2>1, StreamsAssumption DEF Once
  <2>3. y.closes = [x.closes EXCEPT ![s] = @ + 1] /\ y.bodyStream = NoBody
    BY <1>3, <2>1 DEF Shut
  <2>4. y.closes \in [Streams -> Nat]
    BY <2>2, <2>3 DEF Once
  <2>5. ASSUME NEW id \in Streams
        PROVE  y.closes[id] + (IF y.bodyStream.id = id THEN 1 ELSE 0)
                 = IF id \in op THEN 1 ELSE 0
    <3>1. y.bodyStream.id # id
      BY <2>2, <2>3, NoBodyFacts
    <3>2. /\ x.closes \in [Streams -> Nat]
          /\ x.closes[id] + (IF s = id THEN 1 ELSE 0) = IF id \in op THEN 1 ELSE 0
      BY <2>1 DEF Once
    <3> QED
      BY <2>2, <2>3, <3>1, <3>2
  <2> QED
    BY <2>3, <2>4, <2>5 DEF Once
<1> QED
  BY <1>1, <1>2, <1>3 DEF KeptOrShut

\* closeBodyStream.
LEMMA RShut ==
  ASSUME NEW x, HasFields(x, RMsgFields)
  PROVE  LET y == R!closeBodyStream(x)
         IN  /\ HasFields(y, RMsgFields) /\ Shut(x, y) /\ y.header = x.header
             /\ y.body = x.body /\ y.bodyRaw = x.bodyRaw
             /\ y.keepBodyBuffer = x.keepBodyBuffer
  BY NoBodyFacts DEF HasFields, RMsgFields, R!closeBodyStream, R!IsBodyStream, Shut

LEMMA QShut ==
  ASSUME NEW x, HasFields(x, QMsgFields)
  PROVE  LET y == Q!closeBodyStream(x)
         IN  /\ HasFields(y, QMsgFields) /\ Shut(x, y) /\ y.header = x.header
             /\ y.body = x.body /\ y.bodyRaw = x.bodyRaw
             /\ y.keepBodyBuffer = x.keepBodyBuffer
  BY NoBodyFacts DEF HasFields, QMsgFields, Q!closeBodyStream, Q!IsBodyStream, Shut

RMsg(x) == HasFields(x, RMsgFields) /\ RHead(x.header)
QMsg(x) == HasFields(x, QMsgFields) /\ QHead(x.header)

LEMMA NewMessages ==
  /\ RMsg(R!New) /\ R!New.header = R!H!New
  /\ QMsg(Q!New) /\ Q!New.header = Q!H!New
  /\ R!New.bodyStream = NoBody /\ R!New.closes = [s \in Streams |-> 0]
  /\ Q!New.bodyStream = NoBody /\ Q!New.closes = [s \in Streams |-> 0]
<1>1. HasFields(R!New, RMsgFields) /\ R!New.header = R!H!New
  BY DEF R!New, HasFields, RMsgFields
<1>2. HasFields(Q!New, QMsgFields) /\ Q!New.header = Q!H!New
  BY DEF Q!New, HasFields, QMsgFields
<1>3. /\ R!New.bodyStream = NoBody /\ R!New.closes = [s \in Streams |-> 0]
      /\ Q!New.bodyStream = NoBody /\ Q!New.closes = [s \in Streams |-> 0]
  BY NoBodyFacts DEF R!New, Q!New
<1> QED
  BY <1>1, <1>2, <1>3, NewHeaders DEF RMsg, QMsg

\* A change of one field, other than the stream.
LEMMA RField ==
  ASSUME NEW x, HasFields(x, RMsgFields), NEW v
  PROVE  /\ LET y == [x EXCEPT !.header = v]
            IN  HasFields(y, RMsgFields) /\ StreamKept(x, y) /\ y.header = v
         /\ \A y \in {[x EXCEPT !.body = v], [x EXCEPT !.bodyRaw = v],
                      [x EXCEPT !.skipBody = v], [x EXCEPT !.streamBody = v]} :
              HasFields(y, RMsgFields) /\ StreamKept(x, y) /\ y.header = x.header
  BY DEF HasFields, RMsgFields, StreamKept

LEMMA QField ==
  ASSUME NEW x, HasFields(x, QMsgFields), NEW v
  PROVE  /\ LET y == [x EXCEPT !.header = v]
            IN  HasFields(y, QMsgFields) /\ StreamKept(x, y) /\ y.header = v
         /\ \A y \in {[x EXCEPT !.body = v], [x EXCEPT !.bodyRaw = v],
                      [x EXCEPT !.form = v], [x EXCEPT !.postArgs = v]} :
              HasFields(y, QMsgFields) /\ StreamKept(x, y) /\ y.header = x.header
  BY DEF HasFields, QMsgFields, StreamKept

\* The buffer of the body.
LEMMA RBuffer ==
  ASSUME NEW x, HasFields(x, RMsgFields)
  PROVE  LET y == R!bodyBuffer(x)
         IN  HasFields(y, RMsgFields) /\ StreamKept(x, y) /\ y.header = x.header
  BY DEF HasFields, RMsgFields, StreamKept, R!bodyBuffer

LEMMA QBuffer ==
  ASSUME NEW x, HasFields(x, QMsgFields)
  PROVE  LET y == Q!bodyBuffer(x)
         IN  HasFields(y, QMsgFields) /\ StreamKept(x, y) /\ y.header = x.header
  BY DEF HasFields, QMsgFields, StreamKept, Q!bodyBuffer

LEMMA RResetBody ==
  ASSUME NEW x, HasFields(x, RMsgFields)
  PROVE  LET y == R!ResetBody(x)
         IN  /\ HasFields(y, RMsgFields) /\ Shut(x, y) /\ y.header = x.header
             /\ y.bodyRaw = R!Nil
<1>1. PICK a : a = [x EXCEPT !.bodyRaw = R!Nil]
  OBVIOUS
<1>2. HasFields(a, RMsgFields) /\ StreamKept(x, a) /\ a.header = x.header /\ a.bodyRaw = R!Nil
  BY <1>1 DEF HasFields, RMsgFields, StreamKept
<1>3. PICK c : c = R!closeBodyStream(a)
  OBVIOUS
<1>4. HasFields(c, RMsgFields) /\ Shut(x, c) /\ c.header = x.header /\ c.bodyRaw = R!Nil
  BY <1>2, <1>3, RShut DEF StreamKept, Shut
<1>5. \E v : R!ResetBody(x) = [c EXCEPT !.body = v]
  BY <1>1, <1>3 DEF R!ResetBody
<1> QED
  BY <1>4, <1>5 DEF HasFields, RMsgFields, Shut

LEMMA QResetBody ==
  ASSUME NEW x, HasFields(x, QMsgFields)
  PROVE  LET y == Q!ResetBody(x)
         IN  /\ HasFields(y, QMsgFields) /\ Shut(x, y) /\ y.header = x.header
             /\ y.bodyRaw = Q!Nil /\ y.form = FALSE
<1>1. PICK a : a = Q!RemoveMultipartFormFiles([x EXCEPT !.bodyRaw = Q!Nil])
  OBVIOUS
<1>2. /\ HasFields(a, QMsgFields) /\ StreamKept(x, a) /\ a.header = x.header /\ a.bodyRaw = Q!Nil
      /\ a.form = FALSE
  BY <1>1 DEF HasFields, QMsgFields, StreamKept, Q!RemoveMultipartFormFiles
<1>3. PICK c : c = Q!closeBodyStream(a)
  OBVIOUS
<1>4. /\ HasFields(c, QMsgFields) /\ Shut(x, c) /\ c.header = x.header /\ c.bodyRaw = Q!Nil
      /\ c.form = FALSE
  <2>1. c.form = a.form
    BY <1>2, <1>3 DEF HasFields, QMsgFields, Q!closeBodyStream
  <2> QED
    BY <1>2, <1>3, <2>1, QShut DEF StreamKept, Shut
<1>5. \E v : Q!ResetBody(x) = [c EXCEPT !.body = v]
  BY <1>1, <1>3 DEF Q!ResetBody
<1> QED
  BY <1>4, <1>5 DEF HasFields, QMsgFields, Shut

\* The operations on the body.
LEMMA RBodies ==
  ASSUME NEW x, HasFields(x, RMsgFields), NEW n
  PROVE  \A y \in {R!AppendBody(x, n), R!SetBody(x, n), R!SetBodyRaw(x, n),
                   R!SwapBody(x, n), R!ReleaseBody(x, n), R!Body(x), R!ResetBody(x)} :
           HasFields(y, RMsgFields) /\ KeptOrShut(x, y) /\ y.header = x.header
<1> DEFINE Ok(y) == HasFields(y, RMsgFields) /\ KeptOrShut(x, y) /\ y.header = x.header
<1>1. ASSUME NEW y, Ok(y), NEW v
      PROVE  Ok([y EXCEPT !.body = v]) /\ Ok([y EXCEPT !.bodyRaw = v])
             /\ Ok(R!bodyBuffer(y)) /\ Ok([y EXCEPT !.body = v, !.bodyRaw = R!Nil])
  <2>1. Ok([y EXCEPT !.body = v]) /\ Ok([y EXCEPT !.bodyRaw = v])
    BY <1>1 DEF HasFields, RMsgFields, KeptOrShut, StreamKept, Shut
  <2>2. Ok(R!bodyBuffer(y))
    BY <1>1 DEF HasFields, RMsgFields, KeptOrShut, StreamKept, Shut, R!bodyBuffer
  <2>3. Ok([y EXCEPT !.body = v, !.bodyRaw = R!Nil])
    BY <1>1 DEF HasFields, RMsgFields, KeptOrShut, StreamKept, Shut
  <2> HIDE DEF Ok
  <2> QED
    BY <2>1, <2>2, <2>3
<1>2. ASSUME NEW y, HasFields(y, RMsgFields), StreamKept(x, y), y.header = x.header
      PROVE  Ok(R!closeBodyStream(y))
  BY <1>2, RShut DEF StreamKept, Shut, KeptOrShut
<1>3. Ok(x) /\ Ok(R!closeBodyStream(x)) /\ Ok(R!ResetBody(x))
  BY <1>2, RResetBody DEF KeptOrShut, StreamKept
<1>4. ASSUME NEW y, HasFields(y, RMsgFields), StreamKept(x, y), y.header = x.header
      PROVE  Ok(R!Body(y))
  <2>1. ASSUME NEW v
        PROVE  LET z == [R!bodyBuffer(y) EXCEPT !.body = v]
               IN  HasFields(z, RMsgFields) /\ StreamKept(x, z) /\ z.header = x.header
    BY <1>4 DEF HasFields, RMsgFields, StreamKept, R!bodyBuffer
  <2>2. Ok(y)
    BY <1>4 DEF KeptOrShut
  <2> HIDE DEF Ok
  <2> QED
    BY <1>2, <2>1, <2>2 DEF R!Body
<1>5. LET z == [x EXCEPT !.bodyRaw = R!Nil]
      IN  HasFields(z, RMsgFields) /\ StreamKept(x, z) /\ z.header = x.header
  BY RField
<1>6. Ok([x EXCEPT !.bodyRaw = R!Nil])
  BY <1>5 DEF KeptOrShut
<1> HIDE DEF Ok
<1>7. Ok(R!AppendBody(x, n)) /\ Ok(R!SetBody(x, n))
  BY <1>1, <1>3 DEF R!AppendBody, R!SetBody
<1>8. Ok(R!SetBodyRaw(x, n))
  BY <1>1, <1>3 DEF R!SetBodyRaw
<1>9. Ok(R!SwapBody(x, n))
  BY <1>1, <1>4, RBuffer DEF R!SwapBody
<1>10. Ok(R!ReleaseBody(x, n))
  BY <1>1, <1>2, <1>5, <1>6 DEF R!ReleaseBody
<1>11. Ok(R!Body(x))
  BY <1>4 DEF StreamKept
<1> QED
  BY <1>3, <1>7, <1>8, <1>9, <1>10, <1>11 DEF Ok

LEMMA QBodies ==
  ASSUME NEW x, HasFields(x, QMsgFields), NEW n
  PROVE  \A y \in {Q!AppendBody(x, n), Q!SetBody(x, n), Q!SetBodyRaw(x, n),
                   Q!SwapBody(x, n), Q!ReleaseBody(x, n), Q!Body(x), Q!ResetBody(x),
                   Q!MultipartForm(x), Q!resetSkipHeader(x)} :
           HasFields(y, QMsgFields) /\ KeptOrShut(x, y) /\ y.header = x.header
<1> DEFINE Ok(y) == HasFields(y, QMsgFields) /\ KeptOrShut(x, y) /\ y.header = x.header
           As(y) == HasFields(y, QMsgFields) /\ StreamKept(x, y) /\ y.header = x.header
<1>1. ASSUME NEW y, Ok(y), NEW v
      PROVE  Ok([y EXCEPT !.body = v]) /\ Ok([y EXCEPT !.bodyRaw = v])
             /\ Ok(Q!bodyBuffer(y)) /\ Ok([y EXCEPT !.body = v, !.bodyRaw = Q!Nil])
             /\ Ok([y EXCEPT !.postArgs = v])
  <2>1. Ok([y EXCEPT !.body = v]) /\ Ok([y EXCEPT !.bodyRaw = v])
    BY <1>1 DEF HasFields, QMsgFields, KeptOrShut, StreamKept, Shut
  <2>2. Ok(Q!bodyBuffer(y))
    BY <1>1 DEF HasFields, QMsgFields, KeptOrShut, StreamKept, Shut, Q!bodyBuffer
  <2>3. Ok([y EXCEPT !.body = v, !.bodyRaw = Q!Nil])
    BY <1>1 DEF HasFields, QMsgFields, KeptOrShut, StreamKept, Shut
  <2>4. Ok([y EXCEPT !.postArgs = v])
    BY <1>1 DEF HasFields, QMsgFields, KeptOrShut, StreamKept, Shut
  <2> HIDE DEF Ok
  <2> QED
    BY <2>1, <2>2, <2>3, <2>4
<1>2. ASSUME NEW y, As(y) PROVE Ok(Q!closeBodyStream(y))
  BY <1>2, QShut DEF StreamKept, Shut, KeptOrShut
<1>3. /\ As(x) /\ As(Q!bodyBuffer(x)) /\ As(Q!RemoveMultipartFormFiles(x))
      /\ \A v : As([x EXCEPT !.form = v]) /\ As([x EXCEPT !.bodyRaw = v])
  <2>1. As(x) /\ As(Q!bodyBuffer(x))
    BY QBuffer DEF StreamKept
  <2>2. ASSUME NEW v PROVE As([x EXCEPT !.form = v]) /\ As([x EXCEPT !.bodyRaw = v])
    BY QField
  <2> HIDE DEF As
  <2> QED
    BY <2>1, <2>2, Zenon DEF Q!RemoveMultipartFormFiles
<1>4. ASSUME NEW y, As(y) PROVE Ok(y)
  BY <1>4 DEF KeptOrShut
<1>5. ASSUME NEW y, As(y) PROVE Ok(Q!readStreamToBody(y))
  <2>1. ASSUME NEW v PROVE As([Q!bodyBuffer(y) EXCEPT !.body = v])
    BY <1>5 DEF HasFields, QMsgFields, StreamKept, Q!bodyBuffer
  <2> HIDE DEF Ok, As
  <2> QED
    BY <1>2, <1>4, <1>5, <2>1 DEF Q!readStreamToBody
<1>6. Ok(Q!ResetBody(x))
  BY QResetBody DEF KeptOrShut
<1> HIDE DEF Ok, As
<1>7. Ok(Q!AppendBody(x, n)) /\ Ok(Q!SetBody(x, n))
  BY <1>1, <1>2, <1>3 DEF Q!AppendBody, Q!SetBody
<1>8. Ok(Q!SetBodyRaw(x, n)) /\ Ok(Q!resetSkipHeader(x))
  BY <1>1, <1>6 DEF Q!SetBodyRaw, Q!resetSkipHeader
<1>9. Ok(Q!SwapBody(x, n))
  BY <1>1, <1>3, <1>5 DEF Q!SwapBody
<1>10. Ok(Q!ReleaseBody(x, n))
  BY <1>1, <1>2, <1>3, <1>4 DEF Q!ReleaseBody
<1>11. Ok(Q!Body(x))
  BY <1>3, <1>4, <1>5 DEF Q!Body
<1>12. Ok(Q!MultipartForm(x))
  BY <1>3, <1>4 DEF Q!MultipartForm
<1> QED
  BY <1>6, <1>7, <1>8, <1>9, <1>10, <1>11, <1>12 DEF Ok

LEMMA RResets ==
  ASSUME NEW x, HasFields(x, RMsgFields)
  PROVE  RMsg(R!Reset(x)) /\ Shut(x, R!Reset(x)) /\ R!Reset(x).header = R!H!Reset(x.header)
<1>1. PICK a : a = R!ResetBody(x)
  OBVIOUS
<1>2. HasFields(a, RMsgFields) /\ Shut(x, a) /\ a.header = x.header
  BY <1>1, RResetBody
<1>3. ASSUME NEW u, NEW v
      PROVE  \A y : y = [a EXCEPT !.header = u, !.skipBody = v, !.streamBody = v]
                    => HasFields(y, RMsgFields) /\ Shut(x, y) /\ y.header = u
  BY <1>2 DEF HasFields, RMsgFields, Shut
<1>4. PICK u, v : /\ R!Reset(x) = [a EXCEPT !.header = u, !.skipBody = v, !.streamBody = v]
                  /\ u = R!H!Reset(x.header)
  BY <1>1, <1>2, Zenon DEF R!Reset
<1>5. HasFields(R!Reset(x), RMsgFields) /\ Shut(x, R!Reset(x)) /\ R!Reset(x).header = u
  BY <1>3, <1>4
<1> QED
  BY <1>4, <1>5, RReset DEF RMsg

LEMMA QResets ==
  ASSUME NEW x, HasFields(x, QMsgFields), QRead(x.header)
  PROVE  QMsg(Q!Reset(x)) /\ Shut(x, Q!Reset(x)) /\ Q!Reset(x).header = Q!H!Reset(x.header)
<1>1. PICK a : a = Q!ResetBody(x)
  OBVIOUS
<1>2. HasFields(a, QMsgFields) /\ Shut(x, a) /\ a.header = x.header
  BY <1>1, QResetBody
<1>3. PICK b : b = Q!resetSkipHeader(x)
  OBVIOUS
<1>4. HasFields(b, QMsgFields) /\ Shut(x, b) /\ b.header = x.header
  BY <1>1, <1>2, <1>3 DEF Q!resetSkipHeader, HasFields, QMsgFields, Shut
<1>5. ASSUME NEW u
      PROVE  LET y == [b EXCEPT !.header = u]
             IN  HasFields(y, QMsgFields) /\ Shut(x, y) /\ y.header = u
  BY <1>4 DEF HasFields, QMsgFields, Shut
<1>6. Q!Reset(x) = [b EXCEPT !.header = Q!H!Reset(x.header)]
  BY <1>3, <1>4 DEF Q!Reset
<1> QED
  BY <1>5, <1>6, QReset DEF QMsg

\* gzipBody replaces the stream by one that reads and closes it.
LEMMA RGzip ==
  ASSUME NEW x, RMsg(x), NEW op, Once(x, op)
  PROVE  RMsg(R!gzipBody(x)) /\ Once(R!gzipBody(x), op)
<1> DEFINE Ok(y) == RMsg(y) /\ Once(y, op)
           coded(r) == [r EXCEPT !.header =
                          R!H!addVaryBytes([@ EXCEPT !.contentEncoding = <<"gzip">>],
                                           <<"Accept-Encoding">>)]
<1>1. ASSUME NEW r, Ok(r) PROVE Ok(coded(r))
  <2>1. PICK hd : hd = R!H!addVaryBytes([r.header EXCEPT !.contentEncoding = <<"gzip">>],
                                        <<"Accept-Encoding">>)
    OBVIOUS
  <2>2. RHead(hd)
    BY <1>1, <2>1, RNames, RVary DEF RMsg
  <2>3. LET y == [r EXCEPT !.header = hd]
        IN  HasFields(y, RMsgFields) /\ StreamKept(r, y) /\ y.header = hd
    BY <1>1, RField DEF RMsg
  <2> QED
    BY <1>1, <2>1, <2>2, <2>3 DEF RMsg, Once, StreamKept
<1>2. ASSUME R!IsBodyStream(x), NEW u, NEW v
      PROVE  Ok([x EXCEPT !.header = R!H!SetContentLength(@, -1),
                          !.bodyStream = [@ EXCEPT !.n = u, !.limited = -1, !.ok = v]])
  <2>1. PICK s : s = [x.bodyStream EXCEPT !.n = u, !.limited = -1, !.ok = v]
    OBVIOUS
  <2>2. HasFields(x.bodyStream, {"id", "n", "ok", "limited"}) /\ x.bodyStream.id \in op
    BY <1>2, NoBodyFacts DEF Once, R!IsBodyStream
  <2>3. HasFields(s, {"id", "n", "ok", "limited"}) /\ s.id = x.bodyStream.id
    BY <2>1, <2>2 DEF HasFields
  <2>4. PICK hd : hd = R!H!SetContentLength(x.header, -1)
    OBVIOUS
  <2>5. RHead(hd)
    BY <2>4, RLength DEF RMsg
  <2>6. PICK y : y = [x EXCEPT !.header = hd, !.bodyStream = s]
    OBVIOUS
  <2>7. /\ HasFields(y, RMsgFields) /\ y.header = hd /\ y.bodyStream = s
        /\ y.closes = x.closes
    BY <2>6 DEF RMsg, HasFields, RMsgFields
  <2>8. Ok(y)
    BY <2>2, <2>3, <2>5, <2>7 DEF RMsg, Once
  <2> QED
    BY <2>1, <2>4, <2>6, <2>8
<1>3. ASSUME NEW u PROVE Ok([x EXCEPT !.body = u, !.bodyRaw = R!Nil])
  BY DEF RMsg, HasFields, RMsgFields, Once
<1>4. Ok(x)
  OBVIOUS
<1> HIDE DEF Ok
<1>5. Ok(R!gzipBody(x))
  BY <1>1, <1>2, <1>3, <1>4 DEF R!gzipBody
<1> QED
  BY <1>5 DEF Ok

\* SetBodyStream closes the stream there was.
LEMMA StreamOnce ==
  ASSUME NEW x, NEW y, NEW op, op \subseteq Streams, Once(x, op), Shut(x, y),
         NEW s, HasFields(s, {"id", "n", "ok", "limited"}), s.id \in Streams \ op,
         NEW z, z.closes = y.closes, z.bodyStream = s
  PROVE  Once(z, op \cup {s.id})
<1>1. Once(y, op)
  BY StreamKeptOnce DEF KeptOrShut
<1>2. y.bodyStream = NoBody
  BY DEF Shut
<1>3. ASSUME NEW id \in Streams
      PROVE  z.closes[id] + (IF z.bodyStream.id = id THEN 1 ELSE 0)
               = IF id \in op \cup {s.id} THEN 1 ELSE 0
  <2>1. y.closes \in [Streams -> Nat] /\ 0 \notin Streams
    BY <1>1, StreamsAssumption DEF Once
  <2>2. y.closes[id] + (IF 0 = id THEN 1 ELSE 0) = IF id \in op THEN 1 ELSE 0
    BY <1>1, <1>2, NoBodyFacts DEF Once
  <2> QED
    BY <2>1, <2>2
<1> QED
  BY <1>1, <1>3 DEF Once

LEMMA RStream ==
  ASSUME NEW x, RMsg(x), NEW op, op \subseteq Streams, Once(x, op), NEW size,
         NEW s, HasFields(s, {"id", "n", "ok", "limited"}), s.id \in Streams \ op
  PROVE  RMsg(R!SetBodyStream(x, s, size)) /\ Once(R!SetBodyStream(x, s, size), op \cup {s.id})
<1>1. PICK a : a = R!ResetBody(x)
  OBVIOUS
<1>2. HasFields(a, RMsgFields) /\ Shut(x, a) /\ a.header = x.header
  BY <1>1, RResetBody DEF RMsg
<1>3. PICK hd : hd = R!H!SetContentLength(x.header, size)
  OBVIOUS
<1>4. PICK z : z = [[a EXCEPT !.bodyStream = s] EXCEPT !.header = hd]
  OBVIOUS
<1>5. /\ HasFields(z, RMsgFields) /\ z.header = hd /\ z.bodyStream = s
      /\ z.closes = a.closes
  BY <1>2, <1>4 DEF HasFields, RMsgFields
<1>6. [a EXCEPT !.bodyStream = s].header = x.header
  BY <1>2 DEF HasFields, RMsgFields
<1>7. R!SetBodyStream(x, s, size) = z
  BY <1>1, <1>3, <1>4, <1>6 DEF R!SetBodyStream
<1>8. RMsg(z)
  BY <1>3, <1>5, RLength DEF RMsg
<1>9. Once(z, op \cup {s.id})
  BY <1>2, <1>5, StreamOnce
<1> QED
  BY <1>7, <1>8, <1>9

LEMMA QStream ==
  ASSUME NEW x, QMsg(x), NEW op, op \subseteq Streams, Once(x, op), NEW size,
         NEW s, HasFields(s, {"id", "n", "ok", "limited"}), s.id \in Streams \ op
  PROVE  QMsg(Q!SetBodyStream(x, s, size)) /\ Once(Q!SetBodyStream(x, s, size), op \cup {s.id})
<1>1. PICK a : a = Q!ResetBody(x)
  OBVIOUS
<1>2. HasFields(a, QMsgFields) /\ Shut(x, a) /\ a.header = x.header
  BY <1>1, QResetBody DEF QMsg
<1>3. PICK hd : hd = Q!H!SetContentLength(x.header, size)
  OBVIOUS
<1>4. PICK z : z = [[a EXCEPT !.bodyStream = s] EXCEPT !.header = hd]
  OBVIOUS
<1>5. /\ HasFields(z, QMsgFields) /\ z.header = hd /\ z.bodyStream = s
      /\ z.closes = a.closes
  BY <1>2, <1>4 DEF HasFields, QMsgFields
<1>6. [a EXCEPT !.bodyStream = s].header = x.header
  BY <1>2 DEF HasFields, QMsgFields
<1>7. Q!SetBodyStream(x, s, size) = z
  BY <1>1, <1>3, <1>4, <1>6 DEF Q!SetBodyStream
<1>8. QMsg(z)
  BY <1>3, <1>5, QLength DEF QMsg
<1>9. Once(z, op \cup {s.id})
  BY <1>2, <1>5, StreamOnce
<1> QED
  BY <1>7, <1>8, <1>9

\* Write.  The lines are those of the header as Write leaves it.
WrittenAs(wire, lines) == HasFields(wire, {"first", "lines", "rest"}) /\ wire.lines = lines

LEMMA Wires ==
  ASSUME NEW x, NEW rest
  PROVE  /\ WrittenAs(R!Wire(x, rest), R!H!AppendBytes(x.header))
         /\ WrittenAs(Q!Wire(x, rest), Q!H!AppendBytes(x.header))
  BY DEF R!Wire, Q!Wire, WrittenAs, HasFields

LEMMA RWrite ==
  ASSUME NEW x, RMsg(x)
  PROVE  LET w == R!Write(x)
         IN  /\ RMsg(w.m) /\ KeptOrShut(x, w.m)
             /\ WrittenAs(w.wire, R!H!AppendBytes(w.m.header))
<1> DEFINE Ok(w) == /\ RMsg(w.m) /\ KeptOrShut(x, w.m)
                    /\ WrittenAs(w.wire, R!H!AppendBytes(w.m.header))
<1>1. ASSUME NEW y, RMsg(y), KeptOrShut(x, y), NEW rest, NEW e
      PROVE  Ok([m |-> y, wire |-> R!Wire(y, rest), err |-> e])
             /\ Ok([m |-> y, err |-> e, wire |-> R!Wire(y, rest)])
  <2>1. PICK w : w = R!Wire(y, rest)
    OBVIOUS
  <2>2. WrittenAs(w, R!H!AppendBytes(y.header))
    BY <2>1, Wires
  <2>3. /\ Ok([m |-> y, wire |-> w, err |-> e])
        /\ Ok([m |-> y, err |-> e, wire |-> w])
    BY <1>1, <2>2
  <2> QED
    BY <2>1, <2>3
<1>2. ASSUME NEW n
      PROVE  LET y == [x EXCEPT !.header = R!H!SetContentLength(@, n)]
             IN  RMsg(y) /\ StreamKept(x, y)
  <2>1. PICK hd : hd = R!H!SetContentLength(x.header, n)
    OBVIOUS
  <2>2. LET y == [x EXCEPT !.header = hd]
        IN  HasFields(y, RMsgFields) /\ StreamKept(x, y) /\ y.header = hd
    BY RField DEF RMsg
  <2> QED
    BY <2>1, <2>2, RLength DEF RMsg
<1>3. RMsg(x) /\ StreamKept(x, x)
  BY DEF StreamKept
<1>4. ASSUME NEW y, RMsg(y), StreamKept(x, y), NEW rest, NEW e
      PROVE  Ok([m |-> R!closeBodyStream(y), wire |-> R!Wire(y, rest), err |-> e])
  <2>1. PICK z : z = R!closeBodyStream(y)
    OBVIOUS
  <2>2. RMsg(z) /\ KeptOrShut(x, z) /\ z.header = y.header
    BY <1>4, <2>1, RShut DEF RMsg, KeptOrShut, StreamKept, Shut
  <2> QED
    BY <2>1, <2>2, Wires
<1>5. x = [x EXCEPT !.header = @]
  BY DEF RMsg, HasFields, RMsgFields
<1> HIDE DEF Ok
<1>6. Ok(R!writeBodyStream(x))
  <2>1. \E y, rest, e : /\ y = x \/ \E n : y = [x EXCEPT !.header = R!H!SetContentLength(@, n)]
                        /\ R!writeBodyStream(x) =
                             [m |-> R!closeBodyStream(y), wire |-> R!Wire(y, rest), err |-> e]
    <3>1. CASE x.header.contentLength >= 0
      BY <1>5, <3>1, Zenon DEF R!writeBodyStream
    <3>2. CASE ~(x.header.contentLength >= 0)
      BY <3>2, Zenon DEF R!writeBodyStream
    <3> QED
      BY <3>1, <3>2
  <2> QED
    BY <1>2, <1>3, <1>4, <2>1
<1>7. Ok(R!Write(x))
  <2>1. CASE R!IsBodyStream(x)
    BY <1>6, <2>1, Zenon DEF R!Write
  <2>2. CASE ~R!IsBodyStream(x)
    <3>1. \E y, rest, e : /\ y = x \/ \E n : y = [x EXCEPT !.header = R!H!SetContentLength(@, n)]
                          /\ R!Write(x) = [m |-> y, err |-> e, wire |-> R!Wire(y, rest)]
      BY <2>2, Zenon DEF R!Write
    <3> QED
      BY <1>1, <1>2, <1>3, <3>1 DEF KeptOrShut
  <2> QED
    BY <2>1, <2>2
<1> QED
  BY <1>7 DEF Ok

LEMMA QWrite ==
  ASSUME NEW x, QMsg(x)
  PROVE  LET w == Q!Write(x)
         IN  /\ QMsg(w.m) /\ KeptOrShut(x, w.m)
             /\ w.m.header.disableSpecialHeader = x.header.disableSpecialHeader
             /\ WrittenAs(w.wire, Q!H!AppendBytes(w.m.header))
<1> DEFINE As(y) == /\ QMsg(y) /\ StreamKept(x, y)
                    /\ y.header.disableSpecialHeader = x.header.disableSpecialHeader
           Ok(w) == /\ QMsg(w.m) /\ KeptOrShut(x, w.m)
                    /\ w.m.header.disableSpecialHeader = x.header.disableSpecialHeader
                    /\ WrittenAs(w.wire, Q!H!AppendBytes(w.m.header))
<1>1. ASSUME NEW y, As(y), NEW rest, NEW e
      PROVE  Ok([m |-> y, wire |-> Q!Wire(y, rest), err |-> e])
  <2>1. PICK w : w = Q!Wire(y, rest)
    OBVIOUS
  <2>2. WrittenAs(w, Q!H!AppendBytes(y.header))
    BY <2>1, Wires
  <2>3. Ok([m |-> y, wire |-> w, err |-> e])
    BY <1>1, <2>2 DEF KeptOrShut
  <2> QED
    BY <2>1, <2>3
<1>2. ASSUME NEW y, As(y), NEW n PROVE As([y EXCEPT !.header = Q!H!SetContentLength(@, n)])
  <2>1. PICK hd : hd = Q!H!SetContentLength(y.header, n)
    OBVIOUS
  <2>2. LET z == [y EXCEPT !.header = hd]
        IN  HasFields(z, QMsgFields) /\ StreamKept(y, z) /\ z.header = hd
    BY <1>2, QField DEF QMsg
  <2>3. QHead(hd) /\ hd.disableSpecialHeader = x.header.disableSpecialHeader
    BY <1>2, <2>1, QLength DEF QMsg
  <2>4. As([y EXCEPT !.header = hd])
    BY <1>2, <2>2, <2>3 DEF QMsg, StreamKept
  <2> QED
    BY <2>1, <2>4
<1>3. ASSUME NEW v PROVE As([x EXCEPT !.header.contentType = v])
  <2>1. PICK hd : hd = [x.header EXCEPT !.contentType = v]
    OBVIOUS
  <2>2. QHead(hd) /\ hd.disableSpecialHeader = x.header.disableSpecialHeader
    BY <2>1 DEF QMsg, QHead, QRead, HasFields, QFields
  <2>3. LET z == [x EXCEPT !.header = hd]
        IN  HasFields(z, QMsgFields) /\ StreamKept(x, z) /\ z.header = hd
    BY QField DEF QMsg
  <2>4. [x EXCEPT !.header.contentType = v] = [x EXCEPT !.header = hd]
    BY <2>1 DEF QMsg, HasFields, QMsgFields
  <2>5. As([x EXCEPT !.header = hd])
    BY <2>2, <2>3 DEF QMsg
  <2> QED
    BY <2>4, <2>5
<1>4. As(x)
  BY DEF StreamKept
<1>5. ASSUME NEW y, As(y), NEW rest, NEW e
      PROVE  Ok([m |-> Q!closeBodyStream(y), wire |-> Q!Wire(y, rest), err |-> e])
  <2>1. PICK z : z = Q!closeBodyStream(y)
    OBVIOUS
  <2>2. QMsg(z) /\ KeptOrShut(x, z) /\ z.header = y.header
    BY <1>5, <2>1, QShut DEF QMsg, KeptOrShut, StreamKept, Shut
  <2>3. PICK w : w = Q!Wire(y, rest)
    OBVIOUS
  <2>4. WrittenAs(w, Q!H!AppendBytes(z.header))
    BY <2>2, <2>3, Wires
  <2>5. Ok([m |-> z, wire |-> w, err |-> e])
    BY <1>5, <2>2, <2>4
  <2> QED
    BY <2>1, <2>3, <2>5
<1>6. x = [x EXCEPT !.header = @]
  BY DEF QMsg, HasFields, QMsgFields
<1> HIDE DEF Ok, As
<1>7. Ok(Q!writeBodyStream(x))
  <2>1. \E y, rest, e : /\ y = x \/ \E n : y = [x EXCEPT !.header = Q!H!SetContentLength(@, n)]
                        /\ Q!writeBodyStream(x) =
                             [m |-> Q!closeBodyStream(y), wire |-> Q!Wire(y, rest), err |-> e]
    <3>1. CASE x.header.contentLength >= 0
      BY <1>6, <3>1, Zenon DEF Q!writeBodyStream
    <3>2. CASE ~(x.header.contentLength >= 0)
      BY <3>2, Zenon DEF Q!writeBodyStream
    <3> QED
      BY <3>1, <3>2
  <2> QED
    BY <1>2, <1>4, <1>5, <2>1
<1>8. Ok(Q!Write(x))
  <2>1. CASE Q!H!Host(x.header) = <<>>
    <3>1. \E e : Q!Write(x) = [m |-> x, wire |-> Q!Wire(x, <<>>), err |-> e]
      BY <2>1, Zenon DEF Q!Write
    <3> QED
      BY <1>1, <1>4, <3>1
  <2>2. CASE Q!H!Host(x.header) # <<>> /\ Q!IsBodyStream(x)
    BY <1>7, <2>2, Zenon DEF Q!Write
  <2>3. CASE Q!H!Host(x.header) # <<>> /\ ~Q!IsBodyStream(x)
    <3>1. PICK t : t = IF Q!onlyMultipartForm(x)
                       THEN [x EXCEPT !.header.contentType = <<"multipart/form-data">>] ELSE x
      OBVIOUS
    <3>2. As(t)
      BY <1>3, <1>4, <3>1
    <3>3. \E y, rest, e : /\ y = t \/ \E n : y = [t EXCEPT !.header = Q!H!SetContentLength(@, n)]
                          /\ Q!Write(x) = [m |-> y, wire |-> Q!Wire(y, rest), err |-> e]
      BY <2>3, <3>1, Zenon DEF Q!Write
    <3> QED
      BY <1>1, <1>2, <3>2, <3>3
  <2> QED
    BY <2>1, <2>2, <2>3
<1> QED
  BY <1>8 DEF Ok

----------------------------------------------------------------------------
(* Copies.  A copy has the header, and the body that is not a stream.      *)

LEMMA RHeaderCopy ==
  ASSUME NEW hd, HasFields(hd, RFields), NEW dst
  PROVE  R!H!CopyTo(hd, dst) = hd
<1>1. PICK r : r = R!H!Reset(dst)
  OBVIOUS
<1>2. HasFields(r, RFields)
  BY <1>1, RReset DEF RHead
<1> QED
  BY <1>1, <1>2 DEF R!H!CopyTo, HasFields, RFields

LEMMA QHeaderCopy ==
  ASSUME NEW hd, QRead(hd), ~hd.disableSpecialHeader, NEW dst, QRead(dst)
  PROVE  Q!H!CopyTo(hd, dst) = hd
<1>1. PICK r : r = Q!H!Reset(dst)
  OBVIOUS
<1>2. HasFields(r, QFields) /\ r.disableSpecialHeader = FALSE
  BY <1>1, QReset DEF QHead, QRead
<1>3. HasFields(hd, QFields) /\ hd.disableSpecialHeader = FALSE
  BY DEF QRead
<1> QED
  BY <1>1, <1>2, <1>3 DEF Q!H!CopyTo, HasFields, QFields

LEMMA RCopy ==
  ASSUME NEW x, RMsg(x), NEW dst, HasFields(dst, RMsgFields)
  PROVE  LET c == R!CopyTo(x, dst)
         IN  /\ HasFields(c, RMsgFields) /\ c.header = x.header /\ c.bodyStream = NoBody
             /\ c.skipBody = x.skipBody /\ R!bodyBytes(c) = R!bodyBytes(x)
<1>1. PICK r : r = R!Reset(dst)
  OBVIOUS
<1>2. HasFields(r, RMsgFields) /\ r.bodyStream = NoBody /\ r.bodyRaw = R!Nil
  <2>1. HasFields(r, RMsgFields) /\ r.bodyStream = NoBody
    BY <1>1, RResets DEF Shut, RMsg
  <2>2. r.bodyRaw = R!ResetBody(dst).bodyRaw
    BY <1>1, RResetBody DEF R!Reset, HasFields, RMsgFields
  <2> QED
    BY <2>1, <2>2, RResetBody
<1>3. PICK d : d = [r EXCEPT !.header = R!H!CopyTo(x.header, @), !.skipBody = x.skipBody]
  OBVIOUS
<1>4. R!H!CopyTo(x.header, r.header) = x.header
  BY RHeaderCopy DEF RMsg, RHead
<1>5. /\ HasFields(d, RMsgFields) /\ d.header = x.header /\ d.bodyStream = NoBody
      /\ d.skipBody = x.skipBody /\ d.bodyRaw = R!Nil
  BY <1>2, <1>3, <1>4 DEF HasFields, RMsgFields
<1>6. R!CopyTo(x, dst) =
        IF x.bodyRaw # R!Nil
        THEN [d EXCEPT !.bodyRaw = x.bodyRaw, !.body = IF @ # R!Nil THEN 0 ELSE R!Nil]
        ELSE IF x.body # R!Nil THEN [R!bodyBuffer(d) EXCEPT !.body = x.body]
        ELSE [d EXCEPT !.body = IF @ # R!Nil THEN 0 ELSE R!Nil]
  BY <1>1, <1>3 DEF R!CopyTo
<1>7. CASE x.bodyRaw # R!Nil
  BY <1>5, <1>6, <1>7 DEF HasFields, RMsgFields, R!bodyBytes
<1>8. CASE x.bodyRaw = R!Nil /\ x.body # R!Nil
  BY <1>5, <1>6, <1>8 DEF HasFields, RMsgFields, R!bodyBytes, R!bodyBuffer
<1>9. CASE x.bodyRaw = R!Nil /\ x.body = R!Nil
  BY <1>5, <1>6, <1>9 DEF HasFields, RMsgFields, R!bodyBytes
<1> QED
  BY <1>7, <1>8, <1>9

\* What Write sends of a message without a stream depends on its header, its
\* skipBody and the length of its body.
LEMMA RSameWire ==
  ASSUME NEW x, HasFields(x, RMsgFields), NEW c, HasFields(c, RMsgFields),
         c.header = x.header, c.skipBody = x.skipBody, R!bodyBytes(c) = R!bodyBytes(x),
         ~R!IsBodyStream(x), ~R!IsBodyStream(c)
  PROVE  R!Write(c).wire = R!Write(x).wire
<1>1. PICK n : n = R!bodyBytes(x) /\ n = R!bodyBytes(c)
  OBVIOUS
<1>2. PICK hd : hd = R!H!SetContentLength(x.header, n)
  OBVIOUS
<1>3. [x EXCEPT !.header = hd].header = hd /\ [c EXCEPT !.header = hd].header = hd
  BY DEF HasFields, RMsgFields
<1>4. ASSUME NEW a, NEW b, a.header = b.header, NEW rest
      PROVE  R!Wire(a, rest) = R!Wire(b, rest)
  BY <1>4, Zenon DEF R!Wire
<1>5. (R!mustSkipBody(c) <=> R!mustSkipBody(x))
  BY DEF R!mustSkipBody
<1> DEFINE longer(y) == IF ~R!mustSkipBody(y) \/ n > 0 THEN [y EXCEPT !.header = hd] ELSE y
           rest(y) == IF R!mustSkipBody(y) THEN <<>> ELSE R!Bytes(n)
<1>6. R!Write(x).wire = R!Wire(longer(x), rest(x))
  BY <1>1, <1>2 DEF R!Write
<1>7. R!Write(c).wire = R!Wire(longer(c), rest(c))
  BY <1>1, <1>2 DEF R!Write
<1>8. longer(x).header = longer(c).header /\ rest(x) = rest(c)
  BY <1>3, <1>5
<1> HIDE DEF longer, rest
<1> QED
  BY <1>4, <1>6, <1>7, <1>8

LEMMA RCopyWire ==
  ASSUME NEW x, RMsg(x), ~R!IsBodyStream(x), NEW dst, HasFields(dst, RMsgFields)
  PROVE  R!Write(R!CopyTo(x, dst)).wire = R!Write(x).wire
<1>1. PICK c : c = R!CopyTo(x, dst)
  OBVIOUS
<1>2. /\ HasFields(c, RMsgFields) /\ c.header = x.header /\ ~R!IsBodyStream(c)
      /\ c.skipBody = x.skipBody /\ R!bodyBytes(c) = R!bodyBytes(x)
  BY <1>1, RCopy, NoBodyFacts DEF R!IsBodyStream
<1> QED
  BY <1>1, <1>2, RSameWire DEF RMsg

LEMMA QCopy ==
  ASSUME NEW x, QMsg(x), ~x.header.disableSpecialHeader,
         NEW dst, HasFields(dst, QMsgFields), QRead(dst.header)
  PROVE  LET c == Q!CopyTo(x, dst)
         IN  /\ HasFields(c, QMsgFields) /\ c.header = x.header /\ c.bodyStream = NoBody
             /\ c.form = FALSE /\ c.postArgs = x.postArgs /\ Q!bodyBytes(c) = Q!bodyBytes(x)
<1>1. PICK r : r = Q!Reset(dst)
  OBVIOUS
<1>2. /\ HasFields(r, QMsgFields) /\ r.bodyStream = NoBody /\ QRead(r.header)
      /\ r.bodyRaw = Q!Nil /\ r.form = FALSE
  <2>1. HasFields(r, QMsgFields) /\ r.bodyStream = NoBody /\ QRead(r.header)
    BY <1>1, QResets DEF Shut, QMsg, QHead
  <2>2. r.bodyRaw = Q!ResetBody(dst).bodyRaw /\ r.form = Q!ResetBody(dst).form
    BY <1>1, QResetBody DEF Q!Reset, Q!resetSkipHeader, HasFields, QMsgFields
  <2> QED
    BY <2>1, <2>2, QResetBody
<1>3. PICK d : d = [r EXCEPT !.header = Q!H!CopyTo(x.header, @), !.postArgs = x.postArgs]
  OBVIOUS
<1>4. Q!H!CopyTo(x.header, r.header) = x.header
  BY <1>2, QHeaderCopy DEF QMsg, QHead
<1>5. /\ HasFields(d, QMsgFields) /\ d.header = x.header /\ d.bodyStream = NoBody
      /\ d.postArgs = x.postArgs /\ d.bodyRaw = Q!Nil /\ d.form = FALSE
  BY <1>2, <1>3, <1>4 DEF HasFields, QMsgFields
<1>6. Q!CopyTo(x, dst) =
        IF x.bodyRaw # Q!Nil
        THEN [d EXCEPT !.bodyRaw = x.bodyRaw, !.body = IF @ # Q!Nil THEN 0 ELSE Q!Nil]
        ELSE IF x.body # Q!Nil THEN [Q!bodyBuffer(d) EXCEPT !.body = x.body]
        ELSE [d EXCEPT !.body = IF @ # Q!Nil THEN 0 ELSE Q!Nil]
  BY <1>1, <1>3 DEF Q!CopyTo
<1>7. CASE x.bodyRaw # Q!Nil
  BY <1>5, <1>6, <1>7 DEF HasFields, QMsgFields, Q!bodyBytes
<1>8. CASE x.bodyRaw = Q!Nil /\ x.body # Q!Nil
  BY <1>5, <1>6, <1>8 DEF HasFields, QMsgFields, Q!bodyBytes, Q!bodyBuffer
<1>9. CASE x.bodyRaw = Q!Nil /\ x.body = Q!Nil
  BY <1>5, <1>6, <1>9 DEF HasFields, QMsgFields, Q!bodyBytes
<1> QED
  BY <1>7, <1>8, <1>9

LEMMA QSameWire ==
  ASSUME NEW x, HasFields(x, QMsgFields), NEW c, HasFields(c, QMsgFields),
         c.header = x.header, c.postArgs = x.postArgs, Q!bodyBytes(c) = Q!bodyBytes(x),
         ~x.form, ~c.form, ~Q!IsBodyStream(x), ~Q!IsBodyStream(c)
  PROVE  Q!Write(c).wire = Q!Write(x).wire
<1>1. ~Q!onlyMultipartForm(x) /\ ~Q!onlyMultipartForm(c)
  BY DEF Q!onlyMultipartForm
<1>2. PICK n : n = Q!outgoing(x) /\ n = Q!outgoing(c)
  BY <1>1 DEF Q!outgoing
<1>3. PICK hd : hd = Q!H!SetContentLength(x.header, n)
  OBVIOUS
<1>4. [x EXCEPT !.header = hd].header = hd /\ [c EXCEPT !.header = hd].header = hd
  BY DEF HasFields, QMsgFields
<1>5. ASSUME NEW a, NEW b, a.header = b.header, NEW rest
      PROVE  Q!Wire(a, rest) = Q!Wire(b, rest)
  BY <1>5, Zenon DEF Q!Wire
<1> DEFINE longer(y) == IF n # 0 \/ ~Q!H!ignoreBody(x.header)
                        THEN [y EXCEPT !.header = hd] ELSE y
<1>6. longer(x).header = longer(c).header
  BY <1>4
<1>7. CASE Q!H!Host(x.header) = <<>>
  <2>1. Q!Write(x).wire = Q!Wire(x, <<>>) /\ Q!Write(c).wire = Q!Wire(c, <<>>)
    BY <1>7 DEF Q!Write
  <2> QED
    BY <1>5, <2>1
<1>8. CASE Q!H!Host(x.header) # <<>>
  <2>1. Q!Write(x).wire = Q!Wire(longer(x), Q!Bytes(n))
    BY <1>1, <1>2, <1>3, <1>8 DEF Q!Write
  <2>2. Q!Write(c).wire = Q!Wire(longer(c), Q!Bytes(n))
    BY <1>1, <1>2, <1>3, <1>8 DEF Q!Write
  <2> HIDE DEF longer
  <2> QED
    BY <1>5, <1>6, <2>1, <2>2
<1> QED
  BY <1>7, <1>8

LEMMA QCopyWire ==
  ASSUME NEW x, QMsg(x), ~Q!IsBodyStream(x), ~x.form, ~x.header.disableSpecialHeader,
         NEW dst, HasFields(dst, QMsgFields), QRead(dst.header)
  PROVE  Q!Write(Q!CopyTo(x, dst)).wire = Q!Write(x).wire
<1>1. PICK c : c = Q!CopyTo(x, dst)
  OBVIOUS
<1>2. /\ HasFields(c, QMsgFields) /\ c.header = x.header /\ ~Q!IsBodyStream(c)
      /\ ~c.form /\ c.postArgs = x.postArgs /\ Q!bodyBytes(c) = Q!bodyBytes(x)
  BY <1>1, QCopy, NoBodyFacts DEF Q!IsBodyStream
<1> QED
  BY <1>1, <1>2, QSameWire DEF QMsg

----------------------------------------------------------------------------
(* Reads.  Once the header says so, the message read closes the            *)
(* connection, whatever becomes of its body.                               *)

RGot(x, y) ==
  /\ HasFields(y, RMsgFields) /\ HasFields(y.header, RFields)
  /\ x.header.connectionClose => y.header.connectionClose
QGot(x, y) ==
  /\ HasFields(y, QMsgFields) /\ QRead(y.header)
  /\ x.header.connectionClose => y.header.connectionClose

LEMMA RGotHeader ==
  ASSUME NEW x, HasFields(x, RMsgFields), HasFields(x.header, RFields)
  PROVE  /\ RGot(x, x)
         /\ \A n : RGot(x, [x EXCEPT !.header = R!H!SetContentLength(@, n)])
         /\ \A h : RGot(x, [x EXCEPT !.header = [x.header EXCEPT !.h = h]])
<1>1. ASSUME NEW hd, HasFields(hd, RFields), x.header.connectionClose => hd.connectionClose
      PROVE  RGot(x, [x EXCEPT !.header = hd])
  BY <1>1 DEF HasFields, RMsgFields, RGot
<1>2. ASSUME NEW n
      PROVE  LET hd == R!H!SetContentLength(x.header, n)
             IN  HasFields(hd, RFields) /\ (x.header.connectionClose => hd.connectionClose)
  <2>1. ASSUME NEW a, NEW b
        PROVE  LET hd == [x.header EXCEPT !.contentLength = n, !.contentLengthBytes = a,
                                          !.h = b]
               IN  HasFields(hd, RFields) /\ hd.connectionClose = x.header.connectionClose
    BY DEF HasFields, RFields
  <2>2. ASSUME NEW a, NEW b, NEW c
        PROVE  LET hd == [x.header EXCEPT !.contentLength = n, !.contentLengthBytes = a,
                                          !.connectionClose = c, !.h = b]
               IN  HasFields(hd, RFields) /\ hd.connectionClose = c
    <3>1. HasFields(x.header, RFields)
      OBVIOUS
    <3>2. PICK hd : hd = [x.header EXCEPT !.contentLength = n, !.contentLengthBytes = a,
                                          !.connectionClose = c, !.h = b]
      OBVIOUS
    <3>3. HasFields(hd, RFields)
      BY <3>1, <3>2 DEF HasFields, RFields
    <3>4. hd.connectionClose = c
      BY <3>1, <3>2 DEF HasFields, RFields
    <3> QED
      BY <3>2, <3>3, <3>4
  <2>3. CASE R!H!mustSkipContentLength(x.header)
    BY <2>3 DEF R!H!SetContentLength
  <2>4. CASE ~R!H!mustSkipContentLength(x.header) /\ n >= 0
    BY <2>1, <2>4, Zenon DEF R!H!SetContentLength
  <2>5. CASE ~R!H!mustSkipContentLength(x.header) /\ ~(n >= 0)
    <3>1. PICK a, b, c :
            /\ R!H!SetContentLength(x.header, n) =
                 [x.header EXCEPT !.contentLength = n, !.contentLengthBytes = a,
                                  !.connectionClose = c, !.h = b]
            /\ c = (x.header.connectionClose \/ n = -2)
      BY <2>5, Zenon DEF R!H!SetContentLength
    <3>2. x.header.connectionClose => c
      BY <3>1, Zenon
    <3>3. LET hd == [x.header EXCEPT !.contentLength = n, !.contentLengthBytes = a,
                                     !.connectionClose = c, !.h = b]
          IN  HasFields(hd, RFields) /\ hd.connectionClose = c
      BY <2>2
    <3> QED
      BY <3>1, <3>2, <3>3, Zenon
  <2> QED
    BY <2>3, <2>4, <2>5
<1>3. ASSUME NEW h
      PROVE  LET hd == [x.header EXCEPT !.h = h]
             IN  HasFields(hd, RFields) /\ hd.connectionClose = x.header.connectionClose
  BY DEF HasFields, RFields
<1>4. RGot(x, x)
  BY DEF RGot
<1>5. ASSUME NEW n PROVE RGot(x, [x EXCEPT !.header = R!H!SetContentLength(@, n)])
  BY <1>1, <1>2, Zenon
<1>6. ASSUME NEW h PROVE RGot(x, [x EXCEPT !.header = [x.header EXCEPT !.h = h]])
  BY <1>1, <1>3, Zenon
<1> QED
  BY <1>4, <1>5, <1>6

LEMMA QGotHeader ==
  ASSUME NEW x, HasFields(x, QMsgFields), QRead(x.header)
  PROVE  /\ QGot(x, x)
         /\ \A n : QGot(x, [x EXCEPT !.header = Q!H!SetContentLength(@, n)])
         /\ \A h : QGot(x, [x EXCEPT !.header = [x.header EXCEPT !.h = h]])
         /\ \A b : QGot(x, [x EXCEPT !.form = b])
<1>1. ASSUME NEW hd, QRead(hd), x.header.connectionClose => hd.connectionClose
      PROVE  QGot(x, [x EXCEPT !.header = hd])
  BY <1>1 DEF HasFields, QMsgFields, QGot
<1>2. ASSUME NEW n
      PROVE  LET hd == Q!H!SetContentLength(x.header, n)
             IN  QRead(hd) /\ (x.header.connectionClose => hd.connectionClose)
  <2>1. ASSUME NEW a, NEW b
        PROVE  LET hd == [x.header EXCEPT !.contentLength = n, !.contentLengthBytes = a,
                                          !.h = b]
               IN  QRead(hd) /\ hd.connectionClose = x.header.connectionClose
    BY DEF QRead, HasFields, QFields
  <2> QED
    BY <2>1, Zenon DEF Q!H!SetContentLength
<1>3. ASSUME NEW h
      PROVE  LET hd == [x.header EXCEPT !.h = h]
             IN  QRead(hd) /\ hd.connectionClose = x.header.connectionClose
  BY DEF QRead, HasFields, QFields
<1>4. QGot(x, x)
  BY DEF QGot
<1>5. ASSUME NEW n PROVE QGot(x, [x EXCEPT !.header = Q!H!SetContentLength(@, n)])
  BY <1>1, <1>2, Zenon
<1>6. ASSUME NEW h PROVE QGot(x, [x EXCEPT !.header = [x.header EXCEPT !.h = h]])
  BY <1>1, <1>3, Zenon
<1>7. ASSUME NEW b PROVE QGot(x, [x EXCEPT !.form = b])
  BY DEF QGot, HasFields, QMsgFields
<1> QED
  BY <1>4, <1>5, <1>6, <1>7

\* The trailer.
LEMMA RGotTrailer ==
  ASSUME NEW x, HasFields(x, RMsgFields), HasFields(x.header, RFields), NEW read
  PROVE  RGot(x, R!ReadTrailer(x, read).m)
<1>1. PICK lines : lines = R!readTrailerLines(read.rest)
  OBVIOUS
<1>2. PICK r : r = R!H!ReadTrailer(x.header, lines.body)
  OBVIOUS
<1>3. PICK h : r.hd = [x.header EXCEPT !.h = h]
  BY <1>2 DEF R!H!ReadTrailer
<1>4. R!ReadTrailer(x, read).m = IF lines.outcome # "ok" THEN x ELSE [x EXCEPT !.header = r.hd]
  BY <1>1, <1>2 DEF R!ReadTrailer
<1>5. RGot(x, [x EXCEPT !.header = r.hd])
  BY <1>3, RGotHeader, Zenon
<1> QED
  BY <1>4, <1>5, RGotHeader

LEMMA QGotTrailer ==
  ASSUME NEW x, HasFields(x, QMsgFields), QRead(x.header), NEW read
  PROVE  QGot(x, Q!ReadTrailer(x, read).m)
<1>1. PICK lines : lines = Q!readTrailerLines(read.rest)
  OBVIOUS
<1>2. PICK r : r = Q!H!ReadTrailer(x.header, lines.body)
  OBVIOUS
<1>3. PICK h : r.hd = [x.header EXCEPT !.h = h]
  BY <1>2 DEF Q!H!ReadTrailer
<1>4. Q!ReadTrailer(x, read).m = IF lines.outcome # "ok" THEN x ELSE [x EXCEPT !.header = r.hd]
  BY <1>1, <1>2 DEF Q!ReadTrailer
<1>5. QGot(x, [x EXCEPT !.header = r.hd])
  BY <1>3, QGotHeader, Zenon
<1> QED
  BY <1>4, <1>5, QGotHeader

\* ReadLimitBody of a response, and the stream read to its end.
LEMMA RGotBody ==
  ASSUME NEW x, HasFields(x, RMsgFields), HasFields(x.header, RFields), NEW read
  PROVE  RGot(x, R!afterBody(x, read).m)
<1>1. PICK y : y = IF ~R!mustSkipBody(x) /\ x.header.contentLength = -2
                   THEN [x EXCEPT !.header = R!H!SetContentLength(@, Len(read.body))] ELSE x
  OBVIOUS
<1>2. RGot(x, y)
  BY <1>1, RGotHeader
<1>3. \/ R!afterBody(x, read) = R!ReadTrailer(y, read)
      \/ R!afterBody(x, read) = [m |-> y, read |-> read]
  BY <1>1 DEF R!afterBody
<1>4. RGot(y, R!ReadTrailer(y, read).m)
  BY <1>2, RGotTrailer DEF RGot
<1> QED
  BY <1>2, <1>3, <1>4 DEF RGot

LEMMA RGotStream ==
  ASSUME NEW x, HasFields(x, RMsgFields), HasFields(x.header, RFields), NEW in
  PROVE  RGot(x, R!ReadStream(x, in).m)
<1>1. \/ R!ReadStream(x, in).m = x
      \/ R!ReadStream(x, in).m = R!ReadTrailer(x, R!readBodyChunked(in, 0)).m
  BY DEF R!ReadStream
<1> QED
  BY <1>1, RGotHeader, RGotTrailer

LEMMA RGotMessage ==
  ASSUME NEW x, HasFields(x, RMsgFields), NEW wire, IsList(wire.lines), NEW max, NEW closed
  PROVE  LET res == R!ReadLimitBody(x, wire, max, closed)
         IN  /\ HasFields(res.m, RMsgFields) /\ HasFields(res.m.header, RFields)
             /\ res.read.outcome # "error" /\ EndsInClose(wire.lines)
                  => res.m.header.connectionClose
<1>1. PICK p : p = R!H!Read(x.header, wire.first, wire.lines)
  OBVIOUS
<1>2. /\ HasFields(p.hd, RFields)
      /\ ~p.err /\ EndsInClose(wire.lines) => p.hd.connectionClose
  BY <1>1, RHeaderRead
<1>3. PICK y : y = [R!ResetBody(x) EXCEPT !.header = p.hd]
  OBVIOUS
<1>4. HasFields(y, RMsgFields) /\ y.header = p.hd
  BY <1>3, RResetBody DEF HasFields, RMsgFields
<1>5. R!ReadLimitBody(x, wire, max, closed) = R!afterHeader(y, p.err, wire.rest, max, closed)
  BY <1>1, <1>3, Zenon DEF R!ReadLimitBody
<1>6. CASE p.err
  <2>1. /\ R!afterHeader(y, p.err, wire.rest, max, closed).m = y
        /\ R!afterHeader(y, p.err, wire.rest, max, closed).read.outcome = "error"
    BY <1>6 DEF R!afterHeader, R!Result
  <2> QED
    BY <1>2, <1>4, <1>5, <2>1
<1>7. CASE ~p.err
  <2>1. PICK read : R!afterHeader(y, p.err, wire.rest, max, closed) = R!afterBody(y, read)
    BY <1>7, Zenon DEF R!afterHeader
  <2>2. RGot(y, R!afterBody(y, read).m)
    BY <1>2, <1>4, RGotBody
  <2> QED
    BY <1>2, <1>4, <1>5, <1>7, <2>1, <2>2 DEF RGot
<1> QED
  BY <1>6, <1>7

\* A request: ContinueReadBody resets the message only with an error.
QTaken(x, res) ==
  /\ HasFields(res.m, QMsgFields) /\ QRead(res.m.header)
  /\ (res.read.outcome = "ok" \/ Q!MayContinue(res.m)) /\ x.header.connectionClose
       => res.m.header.connectionClose

\* A request that was reset does not expect 100 Continue.
LEMMA ResetExpectsNothing ==
  ASSUME NEW x, HasFields(x, QMsgFields), QRead(x.header)
  PROVE  ~Q!MayContinue(Q!Reset(x))
<1>1. PICK h : h = Q!Reset(x).header
  OBVIOUS
<1>2. h.h = <<>>
  <2>1. h = Q!H!Reset(x.header)
    BY <1>1, QResets
  <2> QED
    BY <2>1, QReset
<1>3. Q!H!Positions(h.h, "Expect") = {}
  BY <1>2 DEF Q!H!Positions
<1>4. Q!H!peek(h, "Expect") = <<>>
  BY <1>3 DEF Q!H!peek, Q!H!peekArg, Q!H!hasArg
<1>5. <<>> # <<"100-continue">>
  OBVIOUS
<1> QED
  BY <1>1, <1>4, <1>5 DEF Q!MayContinue

LEMMA QTakenResults ==
  ASSUME NEW x, HasFields(x, QMsgFields), QRead(x.header), NEW read
  PROVE  /\ \A y : QGot(x, y) => QTaken(x, [m |-> y, read |-> read])
         /\ \A y : QGot(x, y) => QTaken(x, Q!ReadTrailer(y, read))
         /\ read.outcome # "ok" => QTaken(x, [m |-> Q!Reset(x), read |-> read])
<1>1. ASSUME NEW y, QGot(x, y) PROVE QTaken(x, [m |-> y, read |-> read])
  BY <1>1 DEF QGot, QTaken
<1>2. ASSUME NEW y, QGot(x, y) PROVE QTaken(x, Q!ReadTrailer(y, read))
  BY <1>2, QGotTrailer DEF QGot, QTaken
<1>3. ASSUME read.outcome # "ok" PROVE QTaken(x, [m |-> Q!Reset(x), read |-> read])
  <2>1. PICK r : r = Q!Reset(x)
    OBVIOUS
  <2>2. HasFields(r, QMsgFields) /\ QRead(r.header)
    BY <2>1, QResets DEF QMsg, QHead
  <2>3. ~Q!MayContinue(r)
    BY <2>1, ResetExpectsNothing
  <2>4. QTaken(x, [m |-> r, read |-> read])
    BY <1>3, <2>2, <2>3 DEF QTaken
  <2> QED
    BY <2>1, <2>4
<1> QED
  BY <1>1, <1>2, <1>3

\* The form is read, or the request is reset.
LEMMA QTakenForm ==
  ASSUME NEW x, HasFields(x, QMsgFields), QRead(x.header), NEW read
  PROVE  QTaken(x, [m |-> IF read.outcome = "ok" THEN [x EXCEPT !.form = TRUE] ELSE Q!Reset(x),
                    read |-> read])
<1>1. PICK y : y = [x EXCEPT !.form = TRUE]
  OBVIOUS
<1>2. QGot(x, y)
  BY <1>1, QGotHeader, Zenon
<1>3. CASE read.outcome = "ok"
  BY <1>1, <1>2, <1>3, QTakenResults
<1>4. CASE read.outcome # "ok"
  BY <1>4, QTakenResults
<1> QED
  BY <1>3, <1>4

LEMMA QGotIgnored ==
  ASSUME NEW x, HasFields(x, QMsgFields), QRead(x.header)
  PROVE  QGot(x, Q!ignored(x))
  BY QGotHeader DEF Q!ignored

LEMMA QContinued ==
  ASSUME NEW x, HasFields(x, QMsgFields), QRead(x.header), NEW in, NEW max
  PROVE  QTaken(x, Q!ContinueReadBody(x, in, max))
<1> DEFINE n == x.header.contentLength
           form == Q!appendBodyFixedSize(in, n)
           read == IF n >= 0 THEN Q!readBody(in, n, max) ELSE Q!readBodyChunked(in, max)
           e == IF n = -1 /\ read.outcome = "ok" /\ read.body = <<>>
                THEN [x EXCEPT !.header = Q!H!SetContentLength(@, 0)] ELSE x
           y == [m |-> IF form.outcome = "ok" THEN [x EXCEPT !.form = TRUE] ELSE Q!Reset(x),
                 read |-> form]
<1>1. QGot(x, x) /\ QGot(x, e) /\ QGot(x, Q!ignored(x))
  BY QGotHeader, QGotIgnored
<1>2. QTaken(x, y)
  BY QTakenForm
<1>3. Q!ContinueReadBody(x, in, max) =
        IF max > 0 /\ n > max THEN [m |-> x, read |-> Q!Result(<<>>, in, "too large")]
        ELSE IF Q!readsForm(x) THEN y
        ELSE IF n = -2 THEN [m |-> Q!ignored(x), read |-> Q!Result(<<>>, in, "ok")]
        ELSE IF read.outcome # "ok" THEN [m |-> Q!Reset(x), read |-> read]
        ELSE IF n = -1 THEN Q!ReadTrailer(e, read)
        ELSE [m |-> x, read |-> read]
  BY Zenon DEF Q!ContinueReadBody
<1> HIDE DEF n, form, read, e, y
<1> QED
  BY <1>1, <1>2, <1>3, QTakenResults

LEMMA QStreamed ==
  ASSUME NEW x, HasFields(x, QMsgFields), QRead(x.header), NEW in, NEW max
  PROVE  QTaken(x, Q!ContinueReadBodyStream(x, in, max))
<1> DEFINE n == x.header.contentLength
           form == Q!appendBodyFixedSize(in, n)
           chunks == Q!readBodyChunked(in, 0)
           ahead == Q!readBodyWithStreaming(in, n, max)
           e == [x EXCEPT !.header = Q!H!SetContentLength(@, n)]
           y == [m |-> IF form.outcome = "ok" THEN [x EXCEPT !.form = TRUE] ELSE Q!Reset(x),
                 read |-> form]
<1>1. QGot(x, x) /\ QGot(x, e) /\ QGot(x, Q!ignored(x))
  BY QGotHeader, QGotIgnored
<1>2. QTaken(x, y)
  BY QTakenForm
<1>3. Q!ContinueReadBodyStream(x, in, max) =
        IF Q!readsForm(x) THEN y
        ELSE IF n = -2 THEN [m |-> Q!ignored(x), read |-> Q!Result(<<>>, in, "ok")]
        ELSE IF n = -1
        THEN IF chunks.outcome = "ok" THEN Q!ReadTrailer(x, chunks) ELSE [m |-> x, read |-> chunks]
        ELSE IF ahead.outcome \notin {"ok", "too large"} THEN [m |-> Q!Reset(x), read |-> ahead]
        ELSE [m |-> e, read |-> Q!requestStreamReadAll(ahead.body, ahead.rest, n)]
  BY Zenon DEF Q!ContinueReadBodyStream
<1> HIDE DEF n, form, chunks, ahead, e, y
<1> QED
  BY <1>1, <1>2, <1>3, QTakenResults

LEMMA QGotMessage ==
  ASSUME NEW x, HasFields(x, QMsgFields), QRead(x.header), ~x.header.disableSpecialHeader,
         NEW wire, IsList(wire.lines), NEW max, NEW stream
  PROVE  LET res == Q!ReadLimitBody(x, wire, max, stream)
         IN  /\ HasFields(res.m, QMsgFields) /\ QRead(res.m.header)
             /\ EndsInClose(wire.lines)
                  /\ (res.read.outcome = "ok"
                      \/ (res.read.outcome = "continue" /\ Q!MayContinue(res.m)))
                  => res.m.header.connectionClose
<1>1. PICK p : p = Q!H!Read(x.header, wire.first, wire.lines)
  OBVIOUS
<1>2. /\ QRead(p.hd)
      /\ ~p.err /\ EndsInClose(wire.lines) => p.hd.connectionClose
  BY <1>1, QHeaderRead
<1>3. PICK b : b = Q!resetSkipHeader(x)
  OBVIOUS
<1>4. PICK y : y = [b EXCEPT !.header = p.hd]
  OBVIOUS
<1>5. HasFields(y, QMsgFields) /\ y.header = p.hd
  BY <1>3, <1>4, QBodies DEF HasFields, QMsgFields
<1>6. Q!ReadLimitBody(x, wire, max, stream) = Q!afterHeader(y, p.err, wire.rest, max, stream)
  BY <1>1, <1>3, <1>4, Zenon DEF Q!ReadLimitBody
<1>7. CASE p.err
  <2>1. /\ Q!afterHeader(y, p.err, wire.rest, max, stream).m = y
        /\ Q!afterHeader(y, p.err, wire.rest, max, stream).read.outcome = "error"
    BY <1>7 DEF Q!afterHeader, Q!Result
  <2> QED
    BY <1>2, <1>5, <1>6, <2>1
<1>8. CASE ~p.err /\ Q!MayContinue(y)
  <2>1. Q!afterHeader(y, p.err, wire.rest, max, stream).m = y
    BY <1>8 DEF Q!afterHeader
  <2> QED
    BY <1>2, <1>5, <1>6, <1>8, <2>1
<1>9. CASE ~p.err /\ ~Q!MayContinue(y)
  <2>1. \/ Q!afterHeader(y, p.err, wire.rest, max, stream)
             = Q!ContinueReadBodyStream(y, wire.rest, max)
        \/ Q!afterHeader(y, p.err, wire.rest, max, stream)
             = Q!ContinueReadBody(y, wire.rest, max)
    BY <1>9 DEF Q!afterHeader
  <2>2. QTaken(y, Q!afterHeader(y, p.err, wire.rest, max, stream))
    BY <1>2, <1>5, <2>1, QContinued, QStreamed
  <2> QED
    BY <1>2, <1>5, <1>6, <1>9, <2>2 DEF QTaken
<1> QED
  BY <1>7, <1>8, <1>9

----------------------------------------------------------------------------
(* The inductive invariant.                                                *)

AppendedBytes == IF side = "response" THEN R!H!AppendBytes(m.header)
                 ELSE Q!H!AppendBytes(m.header)

MessageInv ==
  /\ side \in {"response", "request"}
  /\ IF side = "response" THEN RMsg(m) ELSE QMsg(m)
  /\ IF side = "response" THEN HasFields(peer, RMsgFields)
     ELSE HasFields(peer, QMsgFields) /\ QRead(peer.header)
  /\ opened \subseteq Streams /\ Once(m, opened)
  /\ stage \in {"sent", "asked", "read"} =>
       /\ WrittenAs(sent.wire, AppendedBytes)
       /\ side = "request" /\ sent.framed => ~m.header.disableSpecialHeader
  /\ stage = "asked" /\ sent.framed /\ m.header.connectionClose =>
       peer.header.connectionClose
  /\ CloseAgreed

LEMMA MessageInit == Init => MessageInv
<1> SUFFICES ASSUME Init PROVE MessageInv
  OBVIOUS
<1>1. PICK raw \in BOOLEAN :
        m = IF side = "response"
            THEN [R!New EXCEPT !.header.disableNormalizing = raw]
            ELSE [Q!New EXCEPT !.header.disableNormalizing = raw, !.header.host = <<"h">>]
  BY DEF Init
<1>2. stage = "build" /\ opened = {} /\ side \in {"response", "request"} /\ peer = New(side)
  BY DEF Init
<1>3. CASE side = "response"
  <2>1. PICK n : n = R!New
    OBVIOUS
  <2>2. PICK hd : hd = [n.header EXCEPT !.disableNormalizing = raw]
    OBVIOUS
  <2>3. /\ HasFields(n, RMsgFields) /\ RHead(n.header)
        /\ n.bodyStream = NoBody /\ n.closes = [s \in Streams |-> 0]
    BY <2>1, NewMessages DEF RMsg
  <2>4. RHead(hd)
    BY <2>2, <2>3 DEF RHead, HasFields, RFields
  <2>5. m = [n EXCEPT !.header = hd]
    BY <1>1, <1>3, <2>1, <2>2, <2>3 DEF HasFields, RMsgFields
  <2>6. /\ RMsg(m) /\ m.bodyStream = NoBody /\ m.closes = [s \in Streams |-> 0]
    BY <2>3, <2>4, <2>5 DEF RMsg, HasFields, RMsgFields
  <2>7. Once(m, {})
    BY <2>6, NoBodyFacts, StreamsAssumption DEF Once
  <2>8. peer = n
    BY <1>2, <1>3, <2>1 DEF New
  <2> QED
    BY <1>2, <1>3, <2>3, <2>6, <2>7, <2>8 DEF MessageInv, CloseAgreed
<1>4. CASE side = "request"
  <2>1. PICK n : n = Q!New
    OBVIOUS
  <2>2. PICK hd : hd = [n.header EXCEPT !.disableNormalizing = raw, !.host = <<"h">>]
    OBVIOUS
  <2>3. /\ HasFields(n, QMsgFields) /\ QHead(n.header)
        /\ n.bodyStream = NoBody /\ n.closes = [s \in Streams |-> 0]
    BY <2>1, NewMessages DEF QMsg
  <2>4. QHead(hd)
    BY <2>2, <2>3 DEF QHead, QRead, HasFields, QFields
  <2>5. m = [n EXCEPT !.header = hd]
    BY <1>1, <1>4, <2>1, <2>2, <2>3 DEF HasFields, QMsgFields
  <2>6. /\ QMsg(m) /\ m.bodyStream = NoBody /\ m.closes = [s \in Streams |-> 0]
    BY <2>3, <2>4, <2>5 DEF QMsg, HasFields, QMsgFields
  <2>7. Once(m, {})
    BY <2>6, NoBodyFacts, StreamsAssumption DEF Once
  <2>8. peer = n
    BY <1>2, <1>4, <2>1 DEF New
  <2> QED
    BY <1>2, <1>4, <2>3, <2>6, <2>7, <2>8 DEF MessageInv, CloseAgreed, QHead
<1> QED
  BY <1>2, <1>3, <1>4

\* A call on the message: nothing is on the connection.
LEMMA CallStep ==
  ASSUME MessageInv, NEW s, NEW new, Call(s, new),
         s = "response" => RMsg(new), s = "request" => QMsg(new),
         opened' \subseteq Streams, Once(new, opened')
  PROVE  MessageInv'
<1>1. /\ side' = side /\ stage' = "build" /\ m' = new /\ side = s
      /\ peer' = peer /\ sent' = sent /\ got' = got
  BY DEF Call
<1> QED
  BY <1>1 DEF MessageInv, CloseAgreed

LEMMA PlainR ==
  ASSUME MessageInv, NEW new, Plain("response", new), RMsg(m) => RMsg(new) /\ KeptOrShut(m, new)
  PROVE  MessageInv'
<1>1. side = "response" /\ RMsg(m) /\ opened' = opened
  BY DEF Plain, Call, MessageInv
<1>2. Once(new, opened')
  BY <1>1, StreamKeptOnce DEF MessageInv
<1> QED
  BY <1>1, <1>2, CallStep DEF Plain, MessageInv

LEMMA PlainQ ==
  ASSUME MessageInv, NEW new, Plain("request", new), QMsg(m) => QMsg(new) /\ KeptOrShut(m, new)
  PROVE  MessageInv'
<1>1. side = "request" /\ QMsg(m) /\ opened' = opened
  BY DEF Plain, Call, MessageInv
<1>2. Once(new, opened')
  BY <1>1, StreamKeptOnce DEF MessageInv
<1> QED
  BY <1>1, <1>2, CallStep DEF Plain, MessageInv

LEMMA HeaderR ==
  ASSUME MessageInv, NEW hd, RHeader(hd), RHead(m.header) => RHead(hd)
  PROVE  MessageInv'
<1>1. ASSUME RMsg(m)
      PROVE  LET new == [m EXCEPT !.header = hd] IN RMsg(new) /\ KeptOrShut(m, new)
  BY <1>1, RField DEF RMsg, KeptOrShut
<1> QED
  BY <1>1, PlainR DEF RHeader

LEMMA HeaderQ ==
  ASSUME MessageInv, NEW hd, QHeader(hd), QHead(m.header) => QHead(hd)
  PROVE  MessageInv'
<1>1. ASSUME QMsg(m)
      PROVE  LET new == [m EXCEPT !.header = hd] IN QMsg(new) /\ KeptOrShut(m, new)
  BY <1>1, QField DEF QMsg, KeptOrShut
<1> QED
  BY <1>1, PlainQ DEF QHeader

LEMMA ResponseCalls ==
  ASSUME MessageInv,
         SetR \/ AddR \/ DelR \/ CookieR \/ CloseR \/ TrailerR \/ LengthR
  PROVE  MessageInv'
<1>1. PICK hd : RHeader(hd) /\ (RHead(m.header) => RHead(hd))
  <2>1. CASE SetR \/ AddR
    BY <2>1, REdits DEF SetR, AddR
  <2>2. CASE DelR
    BY <2>2, REdits DEF DelR
  <2>3. CASE CookieR
    BY <2>3, RCookies DEF CookieR
  <2>4. CASE CloseR
    BY <2>4, RConnection DEF CloseR
  <2>5. CASE TrailerR
    BY <2>5, RNames DEF TrailerR
  <2>6. CASE LengthR
    BY <2>6, RLength DEF LengthR
  <2> QED
    BY <2>1, <2>2, <2>3, <2>4, <2>5, <2>6
<1> QED
  BY <1>1, HeaderR

LEMMA RequestCalls ==
  ASSUME MessageInv,
         SetQ \/ AddQ \/ DelQ \/ CookieQ \/ CloseQ \/ TrailerQ \/ FirstLineQ \/ LengthQ
  PROVE  MessageInv'
<1>1. PICK hd : QHeader(hd) /\ (QHead(m.header) => QHead(hd))
  <2>1. CASE SetQ \/ AddQ
    BY <2>1, QEdits DEF SetQ, AddQ
  <2>2. CASE DelQ
    BY <2>2, QEdits DEF DelQ
  <2>3. CASE CookieQ
    BY <2>3, QCookies DEF CookieQ
  <2>4. CASE CloseQ
    BY <2>4, QConnection DEF CloseQ
  <2>5. CASE TrailerQ
    BY <2>5, QNames DEF TrailerQ
  <2>6. CASE FirstLineQ
    BY <2>6, QNames DEF FirstLineQ
  <2>7. CASE LengthQ
    BY <2>7, QLength DEF LengthQ
  <2> QED
    BY <2>1, <2>2, <2>3, <2>4, <2>5, <2>6, <2>7
<1> QED
  BY <1>1, HeaderQ

LEMMA FirstLineRStep ==
  ASSUME MessageInv, FirstLineR
  PROVE  MessageInv'
<1>1. CASE Plain("response", [m EXCEPT !.skipBody = TRUE])
  <2>1. PICK new : new = [m EXCEPT !.skipBody = TRUE]
    OBVIOUS
  <2>2. \E v : new = [m EXCEPT !.skipBody = v]
    BY <2>1, Zenon
  <2>3. RMsg(m) => RMsg(new) /\ KeptOrShut(m, new)
    BY <2>2 DEF RMsg, HasFields, RMsgFields, KeptOrShut, StreamKept
  <2> QED
    BY <1>1, <2>1, <2>3, PlainR
<1>2. ASSUME NEW v, RHead(m.header)
      PROVE  RHead(R!H!SetStatusCode(m.header, v)) /\ RHead(R!H!SetProtocol(m.header, v))
  BY <1>2, RNames
<1>3. ASSUME NEW v,
             RHeader(R!H!SetStatusCode(m.header, v)) \/ RHeader(R!H!SetProtocol(m.header, v))
      PROVE  MessageInv'
  BY <1>2, <1>3, HeaderR
<1> QED
  BY <1>1, <1>3 DEF FirstLineR

LEMMA BodyRStep ==
  ASSUME MessageInv, BodyR \/ OtherR
  PROVE  MessageInv'
<1>1. CASE Plain("response", R!gzipBody(m))
  <2>1. side = "response" /\ RMsg(m) /\ opened' = opened /\ Call("response", R!gzipBody(m))
    BY <1>1 DEF Plain, Call, MessageInv
  <2>2. RMsg(R!gzipBody(m)) /\ Once(R!gzipBody(m), opened)
    BY <2>1, RGzip DEF MessageInv
  <2> QED
    BY <2>1, <2>2, CallStep DEF MessageInv
<1>2. CASE \E new : Plain("response", new) /\ (RMsg(m) => RMsg(new) /\ KeptOrShut(m, new))
  BY <1>2, PlainR
<1>3. ASSUME BodyR
      PROVE  \E new : Plain("response", new) /\ (RMsg(m) => RMsg(new) /\ KeptOrShut(m, new))
  <2>1. ASSUME NEW n, RMsg(m)
        PROVE  \A y \in {R!AppendBody(m, n), R!SetBody(m, n), R!SetBodyRaw(m, n),
                         R!SwapBody(m, n), R!ReleaseBody(m, n)} : RMsg(y) /\ KeptOrShut(m, y)
    BY <2>1, RBodies DEF RMsg
  <2>2. PICK n : \E y \in {R!AppendBody(m, n), R!SetBody(m, n), R!SetBodyRaw(m, n),
                           R!SwapBody(m, n), R!ReleaseBody(m, n)} : Plain("response", y)
    BY <1>3 DEF BodyR
  <2> QED
    BY <2>1, <2>2
<1>4. ASSUME OtherR
      PROVE  \/ Plain("response", R!gzipBody(m))
             \/ \E new : Plain("response", new) /\ (RMsg(m) => RMsg(new) /\ KeptOrShut(m, new))
  <2>1. ASSUME RMsg(m)
        PROVE  \A y \in {R!Body(m), R!ResetBody(m), R!Reset(m)} : RMsg(y) /\ KeptOrShut(m, y)
    BY <2>1, RBodies, RResets DEF RMsg, KeptOrShut
  <2> QED
    BY <1>4, <2>1 DEF OtherR
<1> QED
  BY <1>1, <1>2, <1>3, <1>4

LEMMA BodyQStep ==
  ASSUME MessageInv, BodyQ \/ OtherQ
  PROVE  MessageInv'
<1>1. ASSUME BodyQ
      PROVE  \E new : Plain("request", new) /\ (QMsg(m) => QMsg(new) /\ KeptOrShut(m, new))
  <2>1. ASSUME NEW n, QMsg(m)
        PROVE  \A y \in {Q!AppendBody(m, n), Q!SetBody(m, n), Q!SetBodyRaw(m, n),
                         Q!SwapBody(m, n), Q!ReleaseBody(m, n)} : QMsg(y) /\ KeptOrShut(m, y)
    BY <2>1, QBodies DEF QMsg
  <2>2. PICK n : \E y \in {Q!AppendBody(m, n), Q!SetBody(m, n), Q!SetBodyRaw(m, n),
                           Q!SwapBody(m, n), Q!ReleaseBody(m, n)} : Plain("request", y)
    BY <1>1 DEF BodyQ
  <2> QED
    BY <2>1, <2>2
<1>2. ASSUME OtherQ
      PROVE  \E new : Plain("request", new) /\ (QMsg(m) => QMsg(new) /\ KeptOrShut(m, new))
  <2>1. ASSUME QMsg(m)
        PROVE  \A y \in {Q!Body(m), Q!ResetBody(m), Q!MultipartForm(m)} :
                 QMsg(y) /\ KeptOrShut(m, y)
    BY <2>1, QBodies DEF QMsg
  <2>2. ASSUME QMsg(m)
        PROVE  QMsg([m EXCEPT !.postArgs = 1]) /\ KeptOrShut(m, [m EXCEPT !.postArgs = 1])
    BY <2>2 DEF QMsg, HasFields, QMsgFields, KeptOrShut, StreamKept
  <2>3. ASSUME QMsg(m) PROVE QMsg(Q!Reset(m)) /\ KeptOrShut(m, Q!Reset(m))
    BY <2>3, QResets DEF QMsg, QHead, KeptOrShut
  <2> QED
    BY <1>2, <2>1, <2>2, <2>3 DEF OtherQ
<1> QED
  BY <1>1, <1>2, PlainQ

\* SetBodyStream.
LEMMA StreamStep ==
  ASSUME MessageInv, StreamR \/ StreamQ
  PROVE  MessageInv'
<1>1. CASE StreamR
  <2>1. PICK id, n, ok, limited, size :
          /\ id \in Streams \ opened
          /\ Call("response", R!SetBodyStream(m,
                    [id |-> id, n |-> n, ok |-> ok, limited |-> limited], size))
          /\ opened' = opened \cup {id}
    BY <1>1, Zenon DEF StreamR, StreamBody
  <2>2. PICK s : s = [id |-> id, n |-> n, ok |-> ok, limited |-> limited]
    OBVIOUS
  <2>3. HasFields(s, {"id", "n", "ok", "limited"}) /\ s.id = id
    BY <2>2 DEF HasFields
  <2>4. RMsg(m) /\ opened \subseteq Streams /\ Once(m, opened)
    BY <2>1 DEF Call, MessageInv
  <2>5. PICK new : new = R!SetBodyStream(m, s, size)
    OBVIOUS
  <2>6. RMsg(new) /\ Once(new, opened \cup {id})
    <3>1. s.id \in Streams \ opened
      BY <2>1, <2>3
    <3>2. RMsg(new) /\ Once(new, opened \cup {s.id})
      BY <2>3, <2>4, <2>5, <3>1, RStream
    <3> QED
      BY <2>3, <3>2
  <2> QED
    BY <2>1, <2>2, <2>4, <2>5, <2>6, CallStep
<1>2. CASE StreamQ
  <2>1. PICK id, n, ok, limited, size :
          /\ id \in Streams \ opened
          /\ Call("request", Q!SetBodyStream(m,
                    [id |-> id, n |-> n, ok |-> ok, limited |-> limited], size))
          /\ opened' = opened \cup {id}
    BY <1>2, Zenon DEF StreamQ, StreamBody
  <2>2. PICK s : s = [id |-> id, n |-> n, ok |-> ok, limited |-> limited]
    OBVIOUS
  <2>3. HasFields(s, {"id", "n", "ok", "limited"}) /\ s.id = id
    BY <2>2 DEF HasFields
  <2>4. QMsg(m) /\ opened \subseteq Streams /\ Once(m, opened)
    BY <2>1 DEF Call, MessageInv
  <2>5. PICK new : new = Q!SetBodyStream(m, s, size)
    OBVIOUS
  <2>6. QMsg(new) /\ Once(new, opened \cup {id})
    <3>1. s.id \in Streams \ opened
      BY <2>1, <2>3
    <3>2. QMsg(new) /\ Once(new, opened \cup {s.id})
      BY <2>3, <2>4, <2>5, <3>1, QStream
    <3> QED
      BY <2>3, <3>2
  <2> QED
    BY <2>1, <2>2, <2>4, <2>5, <2>6, CallStep
<1> QED
  BY <1>1, <1>2

LEMMA WriteStep ==
  ASSUME MessageInv, Write
  PROVE  MessageInv'
<1>1. PICK w : w = IF side = "response" THEN R!Write(m) ELSE Q!Write(m)
  OBVIOUS
<1>2. /\ m' = w.m /\ stage' \in {"build", "sent"}
      /\ side' = side /\ opened' = opened /\ peer' = peer
  BY <1>1 DEF Write, Written
<1>3. sent' = [err |-> w.err, wire |-> w.wire, len |-> BodyLen, framed |-> Framed]
  BY <1>1, Zenon DEF Write, Written
<1>4. PICK e, l, f : /\ sent' = [err |-> e, wire |-> w.wire, len |-> l, framed |-> f]
                     /\ f = Framed
  BY <1>3, Zenon
<1>5. sent'.wire = w.wire /\ sent'.framed = f
  BY <1>4
<1>6. CASE side = "response"
  <2>1. RMsg(w.m) /\ KeptOrShut(m, w.m) /\ WrittenAs(w.wire, R!H!AppendBytes(w.m.header))
    BY <1>1, <1>6, RWrite DEF MessageInv
  <2>2. Once(w.m, opened)
    BY <2>1, StreamKeptOnce DEF MessageInv
  <2> QED
    BY <1>2, <1>5, <1>6, <2>1, <2>2 DEF MessageInv, CloseAgreed, AppendedBytes
<1>7. CASE side = "request"
  <2>1. /\ QMsg(w.m) /\ KeptOrShut(m, w.m) /\ WrittenAs(w.wire, Q!H!AppendBytes(w.m.header))
        /\ w.m.header.disableSpecialHeader = m.header.disableSpecialHeader
    BY <1>1, <1>7, QWrite DEF MessageInv
  <2>2. Once(w.m, opened)
    BY <2>1, StreamKeptOnce DEF MessageInv
  <2>3. Framed => ~m.header.disableSpecialHeader
    BY <1>7 DEF Framed
  <2>4. f => ~m.header.disableSpecialHeader
    BY <1>4, <2>3, Zenon
  <2> QED
    BY <1>2, <1>5, <1>7, <2>1, <2>2, <2>4 DEF MessageInv, CloseAgreed, AppendedBytes
<1> QED
  BY <1>6, <1>7 DEF MessageInv

\* The reads.
LEMMA InputLines ==
  ASSUME MessageInv, stage \in {"sent", "asked", "read"}
  PROVE  /\ Input.lines = AppendedBytes /\ IsList(Input.lines)
         /\ m.header.connectionClose /\ (side = "response" \/ ~m.header.disableSpecialHeader)
              => EndsInClose(Input.lines)
<1>1. HasFields(sent.wire, {"first", "lines", "rest"}) /\ sent.wire.lines = AppendedBytes
  BY DEF MessageInv, WrittenAs
<1>2. Input.lines = AppendedBytes
  BY <1>1 DEF Input, HasFields
<1>3. CASE side = "response"
  BY <1>2, <1>3, RWritten DEF MessageInv, RMsg, AppendedBytes
<1>4. CASE side = "request"
  BY <1>2, <1>4, QWritten DEF MessageInv, QMsg, AppendedBytes
<1> QED
  BY <1>2, <1>3, <1>4 DEF MessageInv

\* What the reader keeps of the message read.
LEMMA ReceivedStep ==
  ASSUME MessageInv, NEW res, NEW asked, Received(res, asked),
         stage \in {"sent", "asked", "read"},
         side = "response" => HasFields(res.m, RMsgFields),
         side = "request" => HasFields(res.m, QMsgFields) /\ QRead(res.m.header),
         /\ sent.framed /\ m.header.connectionClose
         /\ res.read.outcome = "ok" \/ asked
         => res.m.header.connectionClose
  PROVE  MessageInv'
<1>1. /\ side' = side /\ m' = m /\ opened' = opened /\ sent' = sent /\ got' = res.read
      /\ stage' = IF asked THEN "asked" ELSE "read"
  BY DEF Received
<1>2. /\ peer'.header = res.m.header
      /\ side = "response" => HasFields(peer', RMsgFields)
      /\ side = "request" => HasFields(peer', QMsgFields)
  <2>1. \/ peer' = res.m
        \/ \E b : peer' = [res.m EXCEPT !.body = b]
    BY DEF Received
  <2>2. side \in {"response", "request"}
    BY DEF MessageInv
  <2> QED
    BY <2>1, <2>2 DEF HasFields, RMsgFields, QMsgFields
<1>3. AppendedBytes' = AppendedBytes
  BY <1>1 DEF AppendedBytes
<1> QED
  BY <1>1, <1>2, <1>3 DEF MessageInv, CloseAgreed

LEMMA ReadResponseStep ==
  ASSUME MessageInv, ReadResponse
  PROVE  MessageInv'
<1>1. side = "response" /\ stage = "sent"
  BY DEF ReadResponse
<1> DEFINE start(v) == [R!Reset(peer) EXCEPT !.skipBody = m.skipBody, !.streamBody = v,
                          !.header.disableNormalizing = m.header.disableNormalizing]
           consumed(res) == IF res.read.outcome = "stream"
                            THEN R!ReadStream(res.m, res.read.rest) ELSE res
<1>2. PICK max, stream :
        Received(consumed(R!ReadLimitBody(start(stream), Input, max, Closed)), FALSE)
  BY Zenon DEF ReadResponse
<1>3. HasFields(start(stream), RMsgFields)
  <2>1. HasFields(R!Reset(peer), RMsgFields)
    BY <1>1, RResets DEF MessageInv, RMsg
  <2> QED
    BY <2>1 DEF HasFields, RMsgFields
<1>4. PICK read : read = R!ReadLimitBody(start(stream), Input, max, Closed)
  OBVIOUS
<1>5. /\ HasFields(read.m, RMsgFields) /\ HasFields(read.m.header, RFields)
      /\ read.read.outcome # "error" /\ m.header.connectionClose
           => read.m.header.connectionClose
  BY <1>1, <1>3, <1>4, InputLines, RGotMessage
<1>6. PICK res : res = consumed(read)
  OBVIOUS
<1>7. /\ HasFields(res.m, RMsgFields)
      /\ res.read.outcome = "ok" /\ m.header.connectionClose => res.m.header.connectionClose
  <2>1. CASE read.read.outcome = "stream"
    <3>1. RGot(read.m, res.m)
      BY <1>5, <1>6, <2>1, RGotStream
    <3> QED
      BY <1>5, <2>1, <3>1 DEF RGot
  <2>2. CASE read.read.outcome # "stream"
    BY <1>5, <1>6, <2>2
  <2> QED
    BY <2>1, <2>2
<1>8. \E asked : Received(res, asked) /\ asked = FALSE
  BY <1>2, <1>4, <1>6, Zenon
<1> QED
  BY <1>1, <1>7, <1>8, ReceivedStep

LEMMA ReadRequestStep ==
  ASSUME MessageInv, ReadRequest
  PROVE  MessageInv'
<1>1. side = "request" /\ stage = "sent"
  BY DEF ReadRequest
<1>2. PICK r : r = [Q!Reset(peer) EXCEPT
                      !.header.disableNormalizing = m.header.disableNormalizing]
  OBVIOUS
<1>3. HasFields(r, QMsgFields) /\ QRead(r.header) /\ ~r.header.disableSpecialHeader
  <2>1. PICK q : q = Q!Reset(peer)
    OBVIOUS
  <2>2. PICK hd : hd = [q.header EXCEPT !.disableNormalizing = m.header.disableNormalizing]
    OBVIOUS
  <2>3. HasFields(peer, QMsgFields) /\ QRead(peer.header)
    BY <1>1 DEF MessageInv
  <2>4. QMsg(q) /\ q.header = Q!H!Reset(peer.header)
    BY <2>1, <2>3, QResets
  <2>5. HasFields(q, QMsgFields) /\ QRead(q.header) /\ ~q.header.disableSpecialHeader
    BY <2>3, <2>4, QReset DEF QMsg, QHead
  <2>6. QRead(hd) /\ ~hd.disableSpecialHeader
    BY <2>2, <2>5 DEF QRead, HasFields, QFields
  <2>7. r = [q EXCEPT !.header = hd]
    BY <1>2, <2>1, <2>2, <2>5 DEF HasFields, QMsgFields
  <2> QED
    BY <2>5, <2>6, <2>7 DEF HasFields, QMsgFields
<1>4. PICK max, stream :
        LET res == Q!ReadLimitBody(r, Input, max, stream)
        IN  Received(res, res.read.outcome = "continue" /\ Q!MayContinue(res.m))
  BY <1>2, Zenon DEF ReadRequest
<1>5. PICK res : res = Q!ReadLimitBody(r, Input, max, stream)
  OBVIOUS
<1>6. \E asked : /\ Received(res, asked)
                 /\ asked = (res.read.outcome = "continue" /\ Q!MayContinue(res.m))
  BY <1>4, <1>5, Zenon
<1>7. PICK asked : /\ Received(res, asked)
                   /\ asked = (res.read.outcome = "continue" /\ Q!MayContinue(res.m))
  BY <1>6
<1>8. asked => res.read.outcome = "continue" /\ Q!MayContinue(res.m)
  BY <1>7, Zenon
<1>9. /\ HasFields(res.m, QMsgFields) /\ QRead(res.m.header)
      /\ EndsInClose(Input.lines) /\ (res.read.outcome = "ok" \/ asked)
           => res.m.header.connectionClose
  BY <1>1, <1>3, <1>5, <1>8, InputLines, QGotMessage
<1>10. sent.framed /\ m.header.connectionClose => EndsInClose(Input.lines)
  BY <1>1, InputLines DEF MessageInv
<1> QED
  BY <1>1, <1>7, <1>9, <1>10, ReceivedStep

LEMMA ContinueReadStep ==
  ASSUME MessageInv, ContinueRead
  PROVE  MessageInv'
<1>1. side = "request" /\ stage = "asked"
  BY DEF ContinueRead
<1>2. HasFields(peer, QMsgFields) /\ QRead(peer.header)
  BY <1>1 DEF MessageInv
<1>3. PICK max, stream :
        Received(IF stream THEN Q!ContinueReadBodyStream(peer, got.rest, max)
                 ELSE Q!ContinueReadBody(peer, got.rest, max), FALSE)
  BY Zenon DEF ContinueRead
<1>4. PICK res : res = IF stream THEN Q!ContinueReadBodyStream(peer, got.rest, max)
                       ELSE Q!ContinueReadBody(peer, got.rest, max)
  OBVIOUS
<1>5. QTaken(peer, res)
  BY <1>2, <1>4, QContinued, QStreamed
<1>6. \E asked : Received(res, asked) /\ asked = FALSE
  BY <1>3, <1>4, Zenon
<1>7. sent.framed /\ m.header.connectionClose => peer.header.connectionClose
  BY <1>1 DEF MessageInv
<1> QED
  BY <1>1, <1>5, <1>6, <1>7, ReceivedStep DEF QTaken

LEMMA MessageStep == MessageInv /\ [Next]_vars => MessageInv'
<1> SUFFICES ASSUME MessageInv, [Next]_vars PROVE MessageInv'
  OBVIOUS
<1>1. CASE SetR \/ AddR \/ DelR \/ CookieR \/ CloseR \/ TrailerR \/ LengthR
  BY <1>1, ResponseCalls
<1>2. CASE SetQ \/ AddQ \/ DelQ \/ CookieQ \/ CloseQ \/ TrailerQ \/ FirstLineQ \/ LengthQ
  BY <1>2, RequestCalls
<1>3. CASE FirstLineR
  BY <1>3, FirstLineRStep
<1>4. CASE BodyR \/ OtherR
  BY <1>4, BodyRStep
<1>5. CASE BodyQ \/ OtherQ
  BY <1>5, BodyQStep
<1>6. CASE StreamR \/ StreamQ
  BY <1>6, StreamStep
<1>7. CASE Write
  BY <1>7, WriteStep
<1>8. CASE ReadResponse
  BY <1>8, ReadResponseStep
<1>9. CASE ReadRequest
  BY <1>9, ReadRequestStep
<1>10. CASE ContinueRead
  BY <1>10, ContinueReadStep
<1>11. CASE Reuse
  BY <1>11 DEF Reuse, MessageInv, CloseAgreed
<1>12. CASE UNCHANGED vars
  BY <1>12 DEF vars, MessageInv, CloseAgreed, AppendedBytes
<1> QED
  BY <1>1, <1>2, <1>3, <1>4, <1>5, <1>6, <1>7, <1>8, <1>9, <1>10, <1>11, <1>12 DEF Next

LEMMA MessageInvariant == Spec => []MessageInv
  BY MessageInit, MessageStep, PTL DEF Spec

----------------------------------------------------------------------------
(* The theorems.                                                           *)

\* Every stream given to SetBodyStream is closed once: whatever sequence of
\* SetBody, AppendBody, SwapBody, ResetBody, Reset, Body, gzipBody, Write and
\* further SetBodyStream calls a message goes through, the stream is still its
\* body or closeBodyStream was called on it exactly once.
THEOREM StreamsAreClosedOnce == Spec => []StreamsClosedOnce
<1>1. MessageInv => StreamsClosedOnce
  BY DEF MessageInv, Once, StreamsClosedOnce
<1> QED
  BY <1>1, MessageInvariant, PTL

\* CopyTo copies what Write sends: a copy of a message, made into a new message
\* or into any one that was read before, is put on the wire as the message is
\* (streams, parsed forms and requests without special headers excepted).
THEOREM CopiesAreFaithful == Spec => []CopyFaithful
<1>1. MessageInv => CopyFaithful
  <2> SUFFICES ASSUME MessageInv PROVE CopyFaithful
    OBVIOUS
  <2>1. CASE side = "response"
    <3>1. ASSUME ~R!IsBodyStream(m), NEW dst \in {R!New, peer}
          PROVE  R!Write(R!CopyTo(m, dst)).wire = R!Write(m).wire
      <4>1. HasFields(dst, RMsgFields) /\ RMsg(m)
        BY <2>1, <3>1, NewMessages DEF MessageInv, RMsg
      <4> QED
        BY <3>1, <4>1, RCopyWire
    <3> QED
      BY <2>1, <3>1 DEF CopyFaithful
  <2>2. CASE side = "request"
    <3>1. ASSUME ~Q!IsBodyStream(m), ~m.form, ~m.header.disableSpecialHeader,
                 NEW dst \in {Q!New, peer}
          PROVE  Q!Write(Q!CopyTo(m, dst)).wire = Q!Write(m).wire
      <4>1. HasFields(dst, QMsgFields) /\ QRead(dst.header) /\ QMsg(m)
        BY <2>2, <3>1, NewMessages DEF MessageInv, QMsg, QHead
      <4> QED
        BY <3>1, <4>1, QCopyWire
    <3> QED
      BY <2>2, <3>1 DEF CopyFaithful
  <2> QED
    BY <2>1, <2>2 DEF MessageInv
<1> QED
  BY <1>1, MessageInvariant, PTL

\* The end that reads a message knows when the other will close the connection
\* after it: with whatever calls the header was built, ConnectionClose of the
\* writer puts "Connection: close" last on the wire and the parser, which takes
\* the last Connection line, sets ConnectionClose of the reader.
THEOREM ClosingIsAgreed == Spec => []CloseAgreed
<1>1. MessageInv => CloseAgreed
  BY DEF MessageInv
<1> QED
  BY <1>1, MessageInvariant, PTL

-----------------------------------------------------------------------------
(***************************************************************************)
(*                              The session                                *)
(***************************************************************************)

Active(p) == sreq[p].pc # "idle"

\* Who made a text: the draw of a token, 0 for none, or a client.  Those whose
\* texts are around so far.
Makers == Nat \cup Visitors
Used == (1 .. drawn) \cup Visitors
AllLengths == {"cut", "full"} \cup TextLengths

\* The values of a session made for v, a Data a request of v uses, and what
\* the store keeps of it
ValuesBy(v) == [by : {v}, type : Types \cup {"json"}]
Of(v) == UNION {[S -> ValuesBy(v)] : S \in SUBSET Keys}
DataOf(v) == [head : Makers, tail : Makers, len : AllLengths, moved : BOOLEAN,
              csrf : {Nil, v}, values : Of(v), status : {"Unmodified", "Modified"}]
Saved(v) == [csrf : {Nil, v}, values : Of(v)]
BlankDatas == [head : Makers, tail : Makers, len : AllLengths, moved : BOOLEAN,
               csrf : {Nil}, values : {NoValues}, status : {"Unmodified"}]

RequestTypes == [pc : {"idle", "start", "run", "failed", "commit", "set", "cookie"},
                 v : Visitors \cup {Nil}, d : Datas \cup {Nil}, new : BOOLEAN, ops : Nat]
CleanTypes == [alone : BOOLEAN, flushed : BOOLEAN,
               loaded : {NoValues} \cup UNION {Of(v) : v \in Visitors}]

SessionTyped ==
  /\ drawn \in Nat /\ free \subseteq Datas
  /\ cookie \in [Visitors -> [who : Makers, len : AllLengths]]
  /\ sreq \in [SessionReqs -> RequestTypes]
  /\ data = [d \in Datas |-> data[d]]
  /\ \A d \in free : data[d] \in BlankDatas

\* A request in progress has a Data of its own, with values of its client.
Working ==
  \A p \in SessionReqs : Active(p) =>
    /\ sreq[p].v \in Visitors /\ sreq[p].d \in Datas \ free
    /\ D(p) \in DataOf(sreq[p].v)
    /\ D(p).head \in Used
    /\ sreq[p].pc = "start" => D(p) \in BlankDatas
    /\ \A q \in SessionReqs : Active(q) /\ sreq[q].d = sreq[p].d => q = p

\* Every maker t of a text has one owner o[t]: the client that has the text in its
\* cookie, whose requests use it, and whose sessions the store keeps under keys
\* that begin with it, whatever the rest of the key.
OwnedBy(o) ==
  /\ \A v \in Visitors : o[v] = v
  /\ \A v \in Visitors : cookie[v] # NoText => cookie[v].who \in Used /\ o[cookie[v].who] = v
  /\ \A p \in SessionReqs : Active(p) => o[D(p).head] = sreq[p].v
  /\ \A k \in DOMAIN redis :
       /\ k = <<k[1], k[2], k[3]>> /\ k[1] \in {0, 1} /\ k[2] \in Used
       /\ o[k[2]] \in Visitors /\ redis[k] \in Saved(o[k[2]])
Owners == [Makers -> Visitors \cup {Nil}]
Owned == \E o \in Owners : OwnedBy(o)

OwnInv == SessionTyped /\ Working /\ Owned

-----------------------------------------------------------------------------
(* Values.                                                                 *)

LEMMA EmptyValues == ASSUME NEW v PROVE NoValues \in Of(v)
<1>1. NoValues \in [{} -> ValuesBy(v)]
  BY DEF NoValues
<1> QED
  BY <1>1 DEF Of

LEMMA PutValues ==
  ASSUME NEW v, NEW k \in Keys, NEW f \in Of(v), NEW x \in ValuesBy(v)
  PROVE  With(f, k, x) \in Of(v)
<1>1. PICK S \in SUBSET Keys : f \in [S -> ValuesBy(v)]
  BY DEF Of
<1>2. With(f, k, x) \in [S \cup {k} -> ValuesBy(v)]
  BY <1>1 DEF With
<1> QED
  BY <1>1, <1>2 DEF Of

LEMMA PopValues ==
  ASSUME NEW v, NEW k \in Keys, NEW f \in Of(v)
  PROVE  [x \in DOMAIN f \ {k} |-> f[x]] \in Of(v)
<1>1. PICK S \in SUBSET Keys : f \in [S -> ValuesBy(v)]
  BY DEF Of
<1>2. [x \in DOMAIN f \ {k} |-> f[x]] \in [S \ {k} -> ValuesBy(v)]
  BY <1>1
<1> QED
  BY <1>1, <1>2 DEF Of

LEMMA MergeValues ==
  ASSUME NEW v, NEW f \in Of(v), NEW g \in Of(v)
  PROVE  Merged(f, g) \in Of(v)
<1>1. PICK S \in SUBSET Keys : f \in [S -> ValuesBy(v)]
  BY DEF Of
<1>2. PICK T \in SUBSET Keys : g \in [T -> ValuesBy(v)]
  BY DEF Of
<1>3. Merged(f, g) \in [S \cup T -> ValuesBy(v)]
  BY <1>1, <1>2 DEF Merged
<1> QED
  BY <1>1, <1>2, <1>3 DEF Of

\* Decoding a value gives it the type JSON has.
AsJson(x) == [x EXCEPT !.type = "json"]

LEMMA DecodedValue ==
  ASSUME NEW v, NEW x \in ValuesBy(v)
  PROVE  /\ AsJson(x) \in ValuesBy(v)
         /\ AsJson(AsJson(x)) = AsJson(x)
<1>1. PICK t \in Types \cup {"json"} : x = [by |-> v, type |-> t]
  BY DEF ValuesBy
<1>2. AsJson(x) = [by |-> v, type |-> "json"]
  BY <1>1 DEF AsJson
<1>3. AsJson([by |-> v, type |-> "json"]) = [by |-> v, type |-> "json"]
  BY DEF AsJson
<1> QED
  BY <1>2, <1>3 DEF ValuesBy

\* What is decoded is the same client's, and is not changed by another round.
LEMMA DecodedValues ==
  ASSUME NEW v, NEW f \in Of(v)
  PROVE  Decoded(f) \in Of(v) /\ Decoded(Decoded(f)) = Decoded(f)
<1>1. PICK S \in SUBSET Keys : f \in [S -> ValuesBy(v)]
  BY DEF Of
<1>2. Decoded(f) = [k \in S |-> AsJson(f[k])]
  BY <1>1 DEF Decoded, AsJson
<1>3. \A k \in S : AsJson(f[k]) \in ValuesBy(v) /\ AsJson(AsJson(f[k])) = AsJson(f[k])
  BY <1>1, DecodedValue
<1>4. Decoded(f) \in [S -> ValuesBy(v)]
  BY <1>2, <1>3
<1>5. Decoded(Decoded(f)) = [k \in S |-> AsJson(AsJson(f[k]))]
  BY <1>2 DEF Decoded, AsJson
<1>6. Decoded(Decoded(f)) = [k \in S |-> AsJson(f[k])]
  BY <1>3, <1>5
<1> QED
  BY <1>1, <1>2, <1>4, <1>6 DEF Of

LEMMA OwnValues ==
  ASSUME NEW v, NEW f \in Of(v)
  PROVE  \A k \in DOMAIN f : f[k].by = v
  BY DEF Of, ValuesBy

\* A reset Data may be used for anyone.
LEMMA BlankData == ASSUME NEW v, NEW x \in BlankDatas PROVE x \in DataOf(v)
  BY EmptyValues DEF BlankDatas, DataOf

LEMMA BlankFields ==
  ASSUME NEW x \in BlankDatas
  PROVE  x.values = NoValues /\ x.status = "Unmodified"
  BY Zenon DEF BlankDatas

LEMMA DataFields ==
  ASSUME NEW v, NEW x \in DataOf(v)
  PROVE  /\ x.head \in Makers /\ x.tail \in Makers /\ x.len \in AllLengths /\ x.moved \in BOOLEAN
         /\ x.csrf \in {Nil, v} /\ x.values \in Of(v) /\ x.status \in {"Unmodified", "Modified"}
  BY Zenon DEF DataOf

\* A text in the array of the token changes nothing else.
LEMMA TextData ==
  ASSUME NEW v, NEW x \in DataOf(v), NEW text \in [who : Makers, len : AllLengths]
  PROVE  /\ SetToken(x, text) \in DataOf(v)
         /\ SetToken(x, text).head = text.who /\ SetToken(x, text).len = text.len
         /\ text.len = "full" => SetToken(x, text).tail = text.who /\ SetToken(x, text).moved = x.moved
         /\ SetToken(x, text).values = x.values /\ SetToken(x, text).status = x.status
         /\ x \in BlankDatas => SetToken(x, text) \in BlankDatas
<1>1. text.who \in Makers /\ text.len \in AllLengths
  OBVIOUS
<1>2. PICK t \in Makers : t = IF text.len = "short" THEN x.tail ELSE text.who
  BY <1>1, DataFields
<1>3. PICK moved \in BOOLEAN : moved = (x.moved \/ text.len = "long")
  BY DataFields
<1>4. x.moved \in BOOLEAN
  BY DataFields
<1>5. SetToken(x, text) = [x EXCEPT !.head = text.who, !.tail = t, !.len = text.len, !.moved = moved]
  BY <1>2, <1>3 DEF SetToken
<1>6. SetToken(x, text) \in DataOf(v)
  BY <1>1, <1>5, Zenon DEF DataOf
<1>7. /\ SetToken(x, text).head = text.who /\ SetToken(x, text).len = text.len
      /\ SetToken(x, text).tail = t /\ SetToken(x, text).moved = moved
      /\ SetToken(x, text).values = x.values /\ SetToken(x, text).status = x.status
  BY <1>1, <1>5, Zenon DEF DataOf
<1>8. x \in BlankDatas => SetToken(x, text) \in BlankDatas
  BY <1>1, <1>5, Zenon DEF BlankDatas
<1>9. text.len = "full" => t = text.who /\ moved = x.moved
  BY <1>2, <1>3, <1>4
<1> QED
  BY <1>6, <1>7, <1>8, <1>9

-----------------------------------------------------------------------------
LEMMA OwnStarts == SessionInit => OwnInv
<1> SUFFICES ASSUME SessionInit PROVE OwnInv
  OBVIOUS
<1> USE DEF SessionInit
<1>1. NoRequest \in RequestTypes
  BY Zenon DEF NoRequest, RequestTypes
<1>2. FreshData \in BlankDatas /\ NoText \in [who : Makers, len : AllLengths]
  <2>1. 0 \in Makers /\ "cut" \in AllLengths /\ FALSE \in BOOLEAN
    BY DEF Makers, AllLengths
  <2> QED
    BY <2>1, Zenon DEF FreshData, BlankDatas, NoToken, NoText
<1>3. SessionTyped
  BY <1>1, <1>2 DEF SessionTyped
<1>4. \A p \in SessionReqs : ~Active(p)
  BY DEF Active, NoRequest
<1>5. Working
  BY <1>4 DEF Working
<1> DEFINE o == [t \in Makers |-> IF t \in Visitors THEN t ELSE Nil]
<1>6. o \in Owners
  BY DEF Owners
<1>7. OwnedBy(o)
  BY <1>4 DEF OwnedBy, Makers
<1> QED
  BY <1>3, <1>5, <1>6, <1>7 DEF OwnInv, Owned

-----------------------------------------------------------------------------
(* A request of v goes on with Data y: no other request's Data changes.    *)

Moves(p, y, r) ==
  /\ data' = [data EXCEPT ![sreq[p].d] = y]
  /\ sreq' = [sreq EXCEPT ![p] = r]
  /\ cookie' = cookie /\ free' = free

\* The text stays or is a token drawn anew.
TokenKept(p, y) ==
  \/ y.head = D(p).head /\ drawn' = drawn
  \/ y.head = drawn + 1 /\ drawn' = drawn + 1

\* The store loses keys, or gets the session of p.
StoreKept(p) ==
  \A k \in DOMAIN redis' :
    \/ k \in DOMAIN redis /\ redis'[k] = redis[k]
    \/ /\ k = <<k[1], D(p).head, k[3]>> /\ k[1] \in {0, 1}
       /\ redis'[k] \in Saved(sreq[p].v)

GoesOn(p, r) ==
  /\ r \in RequestTypes /\ r.pc \notin {"idle", "start"}
  /\ r.v = sreq[p].v /\ r.d = sreq[p].d

LEMMA MoveViews ==
  ASSUME OwnInv, NEW p \in SessionReqs, Active(p), NEW y, NEW r, GoesOn(p, r), Moves(p, y, r)
  PROVE  /\ D(p)' = y /\ sreq'[p] = r
         /\ \A q \in SessionReqs \ {p} : sreq'[q] = sreq[q]
         /\ \A q \in SessionReqs \ {p} : Active(q) => D(q)' = D(q)
         /\ \A q \in SessionReqs : Active(q)' <=> Active(q)
         /\ \A q \in SessionReqs : sreq'[q].v = sreq[q].v /\ sreq'[q].d = sreq[q].d
<1>1. sreq'[p] = r /\ \A q \in SessionReqs \ {p} : sreq'[q] = sreq[q]
  BY DEF OwnInv, SessionTyped, Moves
<1>2. \A q \in SessionReqs : sreq'[q].v = sreq[q].v /\ sreq'[q].d = sreq[q].d
  BY <1>1 DEF GoesOn
<1>3. \A q \in SessionReqs : Active(q)' <=> Active(q)
  BY <1>1 DEF GoesOn, Active
<1>4. sreq[p].d \in Datas /\ \A q \in SessionReqs \ {p} : Active(q) => sreq[q].d # sreq[p].d
  BY DEF OwnInv, Working
<1>5. data'[sreq[p].d] = y /\ \A d \in Datas : d # sreq[p].d => data'[d] = data[d]
  BY <1>4 DEF OwnInv, SessionTyped, Moves
<1>6. D(p)' = y
  BY <1>2, <1>5 DEF D
<1>7. \A q \in SessionReqs \ {p} : Active(q) => D(q)' = D(q)
  BY <1>2, <1>4, <1>5 DEF D, OwnInv, Working
<1> QED
  BY <1>1, <1>2, <1>3, <1>6, <1>7

\* No text is forgotten.
LEMMA UsedGrows ==
  ASSUME drawn \in Nat, drawn' \in Nat, drawn' >= drawn
  PROVE  Used \subseteq Used' /\ Used' \subseteq Makers
  BY DEF Used, Makers

LEMMA MoveTyped ==
  ASSUME OwnInv, NEW p \in SessionReqs, Active(p), NEW y, NEW r, GoesOn(p, r), Moves(p, y, r),
         y \in DataOf(sreq[p].v), TokenKept(p, y)
  PROVE  SessionTyped' /\ Working' /\ y.head \in Used'
<1> USE DEF OwnInv
<1>0. drawn \in Nat /\ D(p).head \in Used
  BY DEF SessionTyped, Working
<1>1. drawn' \in Nat /\ drawn' >= drawn
  BY <1>0 DEF TokenKept
<1>a. Used \subseteq Used'
  BY <1>0, <1>1, UsedGrows
<1>b. y.head \in Used'
  BY <1>0, <1>1, <1>a DEF TokenKept, Used
<1>2. sreq' \in [SessionReqs -> RequestTypes]
  BY DEF SessionTyped, Moves, GoesOn
<1>3. cookie' = cookie /\ free' = free
  BY DEF Moves
<1>4. \A d \in free : data'[d] = data[d]
  BY DEF SessionTyped, Moves, Working
<1>5. data' = [d \in Datas |-> data'[d]]
  BY DEF SessionTyped, Moves
<1>6. SessionTyped'
  BY <1>1, <1>2, <1>3, <1>4, <1>5 DEF SessionTyped
<1>7. Working'
  <2> SUFFICES ASSUME NEW q \in SessionReqs, Active(q)'
               PROVE  /\ sreq'[q].v \in Visitors /\ sreq'[q].d \in Datas \ free'
                      /\ D(q)' \in DataOf(sreq'[q].v)
                      /\ D(q)'.head \in Used'
                      /\ sreq'[q].pc = "start" => D(q)' \in BlankDatas
                      /\ \A s \in SessionReqs : Active(s)' /\ sreq'[s].d = sreq'[q].d => s = q
    BY DEF Working
  <2>1. Active(q) /\ sreq'[q].v = sreq[q].v /\ sreq'[q].d = sreq[q].d
    BY MoveViews
  <2>2. sreq'[q].v \in Visitors /\ sreq'[q].d \in Datas \ free'
    BY <1>3, <2>1 DEF Working
  <2>3. \A s \in SessionReqs : Active(s)' /\ sreq'[s].d = sreq'[q].d => s = q
    BY <2>1, MoveViews DEF Working
  <2>4. CASE q = p
    <3>1. D(q)' = y /\ sreq'[q].pc # "start"
      BY <2>4, MoveViews DEF GoesOn
    <3> QED
      BY <1>b, <2>1, <2>2, <2>3, <2>4, <3>1
  <2>5. CASE q # p
    <3>1. D(q)' = D(q) /\ sreq'[q] = sreq[q]
      BY <2>1, <2>5, MoveViews
    <3>2. D(q).head \in Used'
      BY <1>a, <2>1 DEF Working
    <3> QED
      BY <2>1, <2>2, <2>3, <3>1, <3>2 DEF Working
  <2> QED
    BY <2>4, <2>5
<1> QED
  BY <1>6, <1>7, <1>b

LEMMA MoveOwned ==
  ASSUME OwnInv, NEW p \in SessionReqs, Active(p), NEW y, NEW r, GoesOn(p, r), Moves(p, y, r),
         y \in DataOf(sreq[p].v), TokenKept(p, y), StoreKept(p)
  PROVE  Owned'
<1> USE DEF OwnInv
<1>1. PICK o \in Owners : OwnedBy(o)
  BY DEF Owned
<1>2. /\ drawn \in Nat /\ drawn' \in Nat /\ drawn' >= drawn
      /\ y.head \in Used' /\ Used \subseteq Used' /\ Used' \subseteq Makers
  <2>1. drawn \in Nat /\ drawn' \in Nat /\ drawn' >= drawn
    BY DEF SessionTyped, TokenKept
  <2> QED
    BY <2>1, MoveTyped, UsedGrows
<1>3. PICK n \in Owners : n = [o EXCEPT ![y.head] = sreq[p].v]
  BY <1>1 DEF Working, Owners
<1>4. sreq[p].v \in Visitors /\ n[y.head] = sreq[p].v
  BY <1>1, <1>2, <1>3 DEF Working, Owners
<1>5. \A t \in Used : n[t] = o[t]
  <2>1. y.head = D(p).head \/ y.head \notin Used
    BY <1>2, SessionAssumption DEF TokenKept, Used
  <2>2. o[D(p).head] = sreq[p].v
    BY <1>1 DEF OwnedBy
  <2>3. \A t \in Makers : t # y.head => n[t] = o[t]
    BY <1>3 DEF Owners
  <2> QED
    BY <1>2, <1>4, <2>1, <2>2, <2>3
<1>6. ASSUME NEW v \in Visitors
      PROVE  n[v] = v /\ (cookie'[v] # NoText => cookie'[v].who \in Used' /\ n[cookie'[v].who] = v)
  <2>1. v \in Used /\ cookie' = cookie
    BY DEF Used, Moves
  <2> QED
    BY <1>1, <1>2, <1>5, <2>1 DEF OwnedBy
<1>7. ASSUME NEW q \in SessionReqs, Active(q)'
      PROVE  n[D(q)'.head] = sreq'[q].v
  <2>1. Active(q) /\ sreq'[q].v = sreq[q].v
    BY <1>7, MoveViews
  <2>2. CASE q = p
    BY <1>4, <2>1, <2>2, MoveViews
  <2>3. CASE q # p
    <3>1. D(q)' = D(q) /\ D(q).head \in Used
      BY <2>1, <2>3, MoveViews DEF Working
    <3> QED
      BY <1>1, <1>5, <2>1, <3>1 DEF OwnedBy
  <2> QED
    BY <2>2, <2>3
<1>8. D(p).head \in Used /\ o[D(p).head] = sreq[p].v
  BY <1>1 DEF Working, OwnedBy
<1>9. ASSUME NEW k \in DOMAIN redis'
      PROVE  /\ k = <<k[1], k[2], k[3]>> /\ k[1] \in {0, 1} /\ k[2] \in Used'
             /\ n[k[2]] \in Visitors /\ redis'[k] \in Saved(n[k[2]])
  <2>1. CASE k \in DOMAIN redis /\ redis'[k] = redis[k]
    <3>1. /\ k = <<k[1], k[2], k[3]>> /\ k[1] \in {0, 1} /\ k[2] \in Used
          /\ o[k[2]] \in Visitors /\ redis[k] \in Saved(o[k[2]])
      BY <1>1, <2>1 DEF OwnedBy
    <3> QED
      BY <1>2, <1>5, <2>1, <3>1
  <2>2. CASE /\ k = <<k[1], D(p).head, k[3]>> /\ k[1] \in {0, 1}
             /\ redis'[k] \in Saved(sreq[p].v)
    <3>1. k[2] = D(p).head
      BY <2>2
    <3>2. n[k[2]] = sreq[p].v /\ k[2] \in Used'
      BY <1>2, <1>5, <1>8, <3>1
    <3> QED
      BY <1>4, <2>2, <3>1, <3>2
  <2> QED
    BY <2>1, <2>2 DEF StoreKept
<1>10. OwnedBy(n)'
  BY <1>6, <1>7, <1>9 DEF OwnedBy
<1> QED
  BY <1>10 DEF Owned, Owners, Makers

LEMMA MoveOwn ==
  ASSUME OwnInv, NEW p \in SessionReqs, Active(p), NEW y, NEW r, GoesOn(p, r), Moves(p, y, r),
         y \in DataOf(sreq[p].v), TokenKept(p, y), StoreKept(p)
  PROVE  OwnInv'
  BY MoveTyped, MoveOwned DEF OwnInv

-----------------------------------------------------------------------------
(* The steps of a request between getSession and Release.                  *)

\* A key the step leaves alone.
Same(k) ==
  /\ k \in DOMAIN redis' <=> k \in DOMAIN redis
  /\ k \in DOMAIN redis => redis'[k] = redis[k]

\* The store changes only at keys that begin with the text of p.
StoreLocal(p) == \A k : k[2] # D(p).head => Same(k)

Step(p, y, r) ==
  /\ Active(p) /\ GoesOn(p, r) /\ Moves(p, y, r)
  /\ y \in DataOf(sreq[p].v) /\ TokenKept(p, y)
  /\ StoreKept(p) /\ StoreLocal(p)
  /\ kept' = kept

LEMMA StepOwn ==
  ASSUME OwnInv, NEW p \in SessionReqs, NEW y, NEW r, Step(p, y, r)
  PROVE  OwnInv'
  BY MoveOwn DEF Step

\* The request of p at another place, after the handlers, and after an operation
At(p, l) == [sreq[p] EXCEPT !.pc = l]
After(p, l) == [sreq[p] EXCEPT !.pc = l, !.ops = 0]
Next1(p) == [sreq[p] EXCEPT !.ops = @ + 1]

LEMMA RequestAt ==
  ASSUME OwnInv, NEW p \in SessionReqs, NEW l \in {"run", "failed", "commit", "set", "cookie"}
  PROVE  /\ GoesOn(p, At(p, l)) /\ At(p, l).pc = l
         /\ GoesOn(p, After(p, l)) /\ After(p, l).pc = l
<1>1. sreq[p] \in RequestTypes
  BY DEF OwnInv, SessionTyped
<1>2. At(p, l) \in RequestTypes /\ After(p, l) \in RequestTypes
  BY <1>1 DEF RequestTypes, At, After
<1>3. /\ At(p, l).pc = l /\ At(p, l).v = sreq[p].v /\ At(p, l).d = sreq[p].d
      /\ After(p, l).pc = l /\ After(p, l).v = sreq[p].v /\ After(p, l).d = sreq[p].d
  BY <1>1 DEF RequestTypes, At, After
<1> QED
  BY <1>2, <1>3 DEF GoesOn

LEMMA RequestOp ==
  ASSUME OwnInv, NEW p \in SessionReqs, sreq[p].pc = "run"
  PROVE  GoesOn(p, Next1(p)) /\ Next1(p).pc = "run"
<1>1. sreq[p] \in RequestTypes
  BY DEF OwnInv, SessionTyped
<1>2. /\ Next1(p).pc = "run" /\ Next1(p).v = sreq[p].v /\ Next1(p).d = sreq[p].d
  BY <1>1 DEF RequestTypes, Next1
<1>3. Next1(p) \in RequestTypes
  BY <1>1 DEF RequestTypes, Next1
<1> QED
  BY <1>2, <1>3 DEF GoesOn

\* Steps that leave the Data alone.
LEMMA PlainStep ==
  ASSUME OwnInv, NEW p \in SessionReqs, Active(p), NEW r, GoesOn(p, r),
         sreq' = [sreq EXCEPT ![p] = r], StoreKept(p), StoreLocal(p),
         UNCHANGED <<cookie, data, free, drawn, kept>>
  PROVE  Step(p, D(p), r)
<1>2. sreq[p].d \in Datas /\ D(p) \in DataOf(sreq[p].v)
  BY DEF OwnInv, Working
<1>3. data' = [data EXCEPT ![sreq[p].d] = D(p)]
  BY <1>2 DEF OwnInv, SessionTyped, D
<1>5. Moves(p, D(p), r)
  BY <1>3 DEF Moves
<1>6. TokenKept(p, D(p))
  BY DEF TokenKept
<1> QED
  BY <1>2, <1>5, <1>6 DEF Step

LEMMA StoreSame == ASSUME NEW p \in SessionReqs, redis' = redis PROVE StoreKept(p) /\ StoreLocal(p)
  BY DEF StoreKept, StoreLocal, Same

LEMMA PrefixValues == ASSUME NEW x, NEW f \in InFront(x) PROVE f \in {0, 1}
  BY DEF InFront

LEMMA StoreFailsStep ==
  ASSUME OwnInv, NEW p \in SessionReqs, StoreFails(p)
  PROVE  Step(p, D(p), At(p, "failed"))
<1>1. Active(p)
  BY DEF StoreFails, Active
<1>2. sreq' = [sreq EXCEPT ![p] = At(p, "failed")]
  BY DEF StoreFails, At
<1> QED
  BY <1>1, <1>2, PlainStep, RequestAt, StoreSame DEF StoreFails

LEMMA HandledStep ==
  ASSUME OwnInv, NEW p \in SessionReqs, Handled(p)
  PROVE  Step(p, D(p), After(p, IF D(p).status = "Modified" THEN "set" ELSE "commit"))
<1> DEFINE l == IF D(p).status = "Modified" THEN "set" ELSE "commit"
<1>1. Active(p)
  BY DEF Handled, Active
<1>2. sreq' = [sreq EXCEPT ![p] = After(p, l)]
  BY DEF Handled, After
<1>3. l \in {"set", "commit"}
  OBVIOUS
<1> HIDE DEF l
<1>4. Step(p, D(p), After(p, l))
  BY <1>1, <1>2, <1>3, PlainStep, RequestAt, StoreSame DEF Handled
<1> QED
  BY <1>4 DEF l

LEMMA ExpireatStep ==
  ASSUME OwnInv, NEW p \in SessionReqs, Expireat(p)
  PROVE  \E f \in InFront(D(p)) :
           LET l == IF Key(D(p), f) \in DOMAIN redis THEN "cookie" ELSE "set"
           IN Step(p, D(p), At(p, l)) /\ l \in {"cookie", "set"}
<1>1. Active(p)
  BY DEF Expireat, Active
<1>2. PICK f \in InFront(D(p)) :
        sreq' = [sreq EXCEPT ![p].pc = IF Key(D(p), f) \in DOMAIN redis THEN "cookie" ELSE "set"]
  BY DEF Expireat
<1> DEFINE l == IF Key(D(p), f) \in DOMAIN redis THEN "cookie" ELSE "set"
<1>3. sreq' = [sreq EXCEPT ![p] = At(p, l)] /\ l \in {"cookie", "set"}
  BY <1>2 DEF At
<1> HIDE DEF l
<1>4. Step(p, D(p), At(p, l))
  BY <1>1, <1>3, PlainStep, RequestAt, StoreSame DEF Expireat
<1> QED
  BY <1>3, <1>4 DEF l

LEMMA SetStep ==
  ASSUME OwnInv, NEW p \in SessionReqs, Set(p)
  PROVE  Step(p, D(p), At(p, "cookie"))
<1>1. Active(p) /\ sreq' = [sreq EXCEPT ![p] = At(p, "cookie")]
  BY DEF Set, Active, At
<1>2. D(p).csrf \in {Nil, sreq[p].v} /\ D(p).values \in Of(sreq[p].v)
  BY <1>1, DataFields DEF OwnInv, Working
<1>3. PICK x \in Saved(sreq[p].v) : x = [csrf |-> D(p).csrf, values |-> D(p).values]
  BY <1>2 DEF Saved
<1>4. PICK f \in InFront(D(p)) : redis' = With(redis, Key(D(p), f), x)
  BY <1>3 DEF Set
<1>5. f \in {0, 1} /\ Key(D(p), f) = <<f, D(p).head, D(p).tail>>
  BY <1>4, PrefixValues DEF Key
<1>6. StoreKept(p) /\ StoreLocal(p)
  BY <1>4, <1>5 DEF With, StoreKept, StoreLocal, Same
<1> QED
  BY <1>1, <1>6, PlainStep, RequestAt DEF Set

\* What Start puts into the Data.
Found(p, f) == ~sreq[p].new /\ Key(D(p), f) \in DOMAIN redis
LoadedValues(p, f) == IF Found(p, f) THEN Decoded(redis[Key(D(p), f)].values) ELSE D(p).values
LoadedCsrf(p, f) == IF Found(p, f) THEN redis[Key(D(p), f)].csrf ELSE D(p).csrf
StartData(p, f) ==
  [D(p) EXCEPT !.values = LoadedValues(p, f),
               !.csrf = IF LoadedCsrf(p, f) = Nil THEN sreq[p].v ELSE LoadedCsrf(p, f)]

LEMMA StartStep ==
  ASSUME OwnInv, NEW p \in SessionReqs, Start(p)
  PROVE  \E f \in InFront(D(p)) :
           /\ Step(p, StartData(p, f), At(p, "run"))
           /\ StartData(p, f).head = D(p).head /\ StartData(p, f).tail = D(p).tail
           /\ StartData(p, f).len = D(p).len /\ StartData(p, f).moved = D(p).moved
           /\ StartData(p, f).status = D(p).status /\ StartData(p, f).values = LoadedValues(p, f)
           /\ LoadedValues(p, f) \in Of(sreq[p].v)
           /\ clean' = [clean EXCEPT ![p].loaded = LoadedValues(p, f)]
<1>1. Active(p) /\ sreq[p].pc = "start"
  BY DEF Start, Active
<1>2. /\ sreq[p].v \in Visitors /\ D(p) \in DataOf(sreq[p].v) /\ sreq[p].d \in Datas
  BY <1>1 DEF OwnInv, Working
<1>3. PICK f \in InFront(D(p)) :
        /\ data' = [data EXCEPT ![sreq[p].d] = StartData(p, f)]
        /\ clean' = [clean EXCEPT ![p].loaded = LoadedValues(p, f)]
  <2>1. data[sreq[p].d] = D(p)
    BY DEF D
  <2> QED
    BY <1>2, <2>1, Zenon DEF Start, StartData, LoadedValues, LoadedCsrf, Found
<1>4. LoadedValues(p, f) \in Of(sreq[p].v) /\ LoadedCsrf(p, f) \in {Nil, sreq[p].v}
  <2>1. CASE Found(p, f)
    <3>1. PICK o \in Owners : OwnedBy(o)
      BY DEF OwnInv, Owned
    <3> DEFINE k == Key(D(p), f)
    <3>2. k \in DOMAIN redis /\ k[2] = D(p).head
      BY <2>1 DEF Found, Key
    <3>3. redis[k] \in Saved(sreq[p].v)
      BY <1>1, <3>1, <3>2 DEF OwnedBy
    <3>4. redis[k].values \in Of(sreq[p].v) /\ redis[k].csrf \in {Nil, sreq[p].v}
      BY <3>3 DEF Saved
    <3> QED
      BY <2>1, <3>4, DecodedValues DEF LoadedValues, LoadedCsrf
  <2>2. CASE ~Found(p, f)
    BY <1>2, <2>2, DataFields DEF LoadedValues, LoadedCsrf
  <2> QED
    BY <2>1, <2>2
<1>5. PICK c : /\ c = (IF LoadedCsrf(p, f) = Nil THEN sreq[p].v ELSE LoadedCsrf(p, f))
               /\ c \in {Nil, sreq[p].v}
  BY <1>4
<1>6. StartData(p, f) = [D(p) EXCEPT !.values = LoadedValues(p, f), !.csrf = c]
  BY <1>5 DEF StartData
<1>7. StartData(p, f) \in DataOf(sreq[p].v)
  BY <1>2, <1>4, <1>5, <1>6, Zenon DEF DataOf
<1>8. /\ StartData(p, f).head = D(p).head /\ StartData(p, f).tail = D(p).tail
      /\ StartData(p, f).len = D(p).len /\ StartData(p, f).moved = D(p).moved
      /\ StartData(p, f).status = D(p).status /\ StartData(p, f).values = LoadedValues(p, f)
  BY <1>2, <1>6, Zenon DEF DataOf
<1>9. sreq' = [sreq EXCEPT ![p] = At(p, "run")]
  BY DEF Start, At
<1>10. /\ Moves(p, StartData(p, f), At(p, "run")) /\ TokenKept(p, StartData(p, f))
       /\ StoreKept(p) /\ StoreLocal(p) /\ kept' = kept
  BY <1>3, <1>8, <1>9, StoreSame DEF Start, Moves, TokenKept
<1>11. GoesOn(p, At(p, "run"))
  BY RequestAt
<1>12. Step(p, StartData(p, f), At(p, "run"))
  BY <1>1, <1>7, <1>10, <1>11 DEF Step
<1> QED
  BY <1>3, <1>4, <1>8, <1>12

\* One operation of a handler.
LEMMA OpStep ==
  ASSUME OwnInv, NEW p \in SessionReqs, sreq[p].pc = "run", NEW y, Op(p, y),
         y \in DataOf(sreq[p].v), TokenKept(p, y), StoreKept(p), StoreLocal(p)
  PROVE  Step(p, y, Next1(p))
<1>1. sreq' = [sreq EXCEPT ![p] = Next1(p)]
  BY DEF Op, Next1
<1>2. Moves(p, y, Next1(p)) /\ kept' = kept
  BY <1>1 DEF Op, Moves
<1> QED
  BY <1>2, RequestOp DEF Step, Active

Edited(x, f, s) == [x EXCEPT !.values = f, !.status = s]

LEMMA EditData ==
  ASSUME NEW v, NEW x \in DataOf(v), NEW f \in Of(v), NEW s \in {"Unmodified", "Modified"}
  PROVE  /\ Edited(x, f, s) \in DataOf(v)
         /\ Edited(x, f, s).head = x.head /\ Edited(x, f, s).tail = x.tail
         /\ Edited(x, f, s).len = x.len /\ Edited(x, f, s).moved = x.moved
         /\ Edited(x, f, s).status = s
<1>1. Edited(x, f, s) \in DataOf(v)
  BY Zenon DEF DataOf, Edited
<1>2. /\ Edited(x, f, s).head = x.head /\ Edited(x, f, s).tail = x.tail
      /\ Edited(x, f, s).len = x.len /\ Edited(x, f, s).moved = x.moved
      /\ Edited(x, f, s).status = s
  BY Zenon DEF DataOf, Edited
<1> QED
  BY <1>1, <1>2

\* A deletion under the prefix put twice changes nothing, another one concerns
\* the sessions of p.
LEMMA DeleteTwice ==
  ASSUME OwnInv, NEW k, k[1] = 2, redis' = Deleted(k)
  PROVE  \A j : Same(j)
<1>1. k \notin DOMAIN redis
  BY DEF OwnInv, Owned, OwnedBy
<1> QED
  BY <1>1 DEF Deleted, Same

LEMMA DeleteLocal ==
  ASSUME OwnInv, NEW p \in SessionReqs, NEW f, NEW w \in BOOLEAN,
         redis' = Deleted(DeleteKey(D(p), f, w))
  PROVE  StoreKept(p) /\ StoreLocal(p)
<1>1. DeleteKey(D(p), f, w)[2] = D(p).head
  BY DEF DeleteKey, Key
<1> QED
  BY <1>1 DEF Deleted, StoreKept, StoreLocal, Same

LEMMA RunningData ==
  ASSUME OwnInv, NEW p \in SessionReqs, sreq[p].pc = "run"
  PROVE  /\ Active(p) /\ sreq[p].v \in Visitors /\ D(p) \in DataOf(sreq[p].v)
         /\ D(p).values \in Of(sreq[p].v) /\ D(p).status \in {"Unmodified", "Modified"}
         /\ D(p).head \in Used
<1>1. Active(p)
  BY DEF Active
<1> QED
  BY <1>1, DataFields DEF OwnInv, Working

\* An operation that edits values and status and leaves the store alone.
LEMMA EditStep ==
  ASSUME OwnInv, NEW p \in SessionReqs, sreq[p].pc = "run",
         NEW f \in Of(sreq[p].v), NEW s \in {"Unmodified", "Modified"},
         Op(p, Edited(D(p), f, s)),
         drawn' = drawn, StoreKept(p), StoreLocal(p)
  PROVE  Step(p, Edited(D(p), f, s), Next1(p))
<1> DEFINE y == Edited(D(p), f, s)
<1>0. D(p) \in DataOf(sreq[p].v)
  BY RunningData
<1>1. y \in DataOf(sreq[p].v) /\ y.head = D(p).head
  BY <1>0, EditData
<1>2. TokenKept(p, y)
  BY <1>1 DEF TokenKept
<1> QED
  BY <1>1, <1>2, OpStep

LEMMA PutStep ==
  ASSUME OwnInv, NEW p \in SessionReqs, sreq[p].pc = "run", NEW k \in Keys, NEW type \in Types,
         Put(p, k, type)
  PROVE  \E f \in Of(sreq[p].v) : Step(p, Edited(D(p), f, "Modified"), Next1(p))
<1>1. PICK x \in ValuesBy(sreq[p].v) : x = [by |-> sreq[p].v, type |-> type]
  BY DEF ValuesBy
<1> DEFINE f == With(D(p).values, k, x)
<1>2. f \in Of(sreq[p].v)
  BY <1>1, RunningData, PutValues
<1>3. Op(p, Edited(D(p), f, "Modified"))
  BY <1>1 DEF Put, Edited
<1>4. drawn' = drawn /\ StoreKept(p) /\ StoreLocal(p)
  BY StoreSame DEF Put
<1> QED
  BY <1>2, <1>3, <1>4, EditStep

LEMMA PopStep ==
  ASSUME OwnInv, NEW p \in SessionReqs, sreq[p].pc = "run", NEW k \in Keys, Pop(p, k)
  PROVE  \E f \in Of(sreq[p].v) : Step(p, Edited(D(p), f, "Modified"), Next1(p))
<1> DEFINE f == [x \in DOMAIN D(p).values \ {k} |-> D(p).values[x]]
<1>1. f \in Of(sreq[p].v)
  BY RunningData, PopValues
<1>2. Op(p, Edited(D(p), f, "Modified"))
  BY DEF Pop, Edited
<1>3. drawn' = drawn /\ StoreKept(p) /\ StoreLocal(p)
  BY StoreSame DEF Pop
<1> QED
  BY <1>1, <1>2, <1>3, EditStep

LEMMA ClearStep ==
  ASSUME OwnInv, NEW p \in SessionReqs, sreq[p].pc = "run", Clear(p)
  PROVE  /\ NoValues \in Of(sreq[p].v)
         /\ Step(p, Edited(D(p), NoValues, "Modified"), Next1(p))
<1>1. NoValues \in Of(sreq[p].v)
  BY EmptyValues
<1>2. Op(p, Edited(D(p), NoValues, "Modified"))
  BY DEF Clear, Edited
<1>3. drawn' = drawn /\ StoreKept(p) /\ StoreLocal(p)
  BY StoreSame DEF Clear
<1> QED
  BY <1>1, <1>2, <1>3, EditStep

LEMMA FlushStep ==
  ASSUME OwnInv, NEW p \in SessionReqs, sreq[p].pc = "run", Flush(p)
  PROVE  /\ NoValues \in Of(sreq[p].v)
         /\ Step(p, Edited(D(p), NoValues, D(p).status), Next1(p))
<1>0. D(p) \in DataOf(sreq[p].v)
  BY RunningData
<1>1. NoValues \in Of(sreq[p].v)
  BY EmptyValues
<1>2. [D(p) EXCEPT !.values = NoValues] = Edited(D(p), NoValues, D(p).status)
  BY <1>0 DEF DataOf, Edited
<1>3. Op(p, Edited(D(p), NoValues, D(p).status))
  BY <1>2 DEF Flush
<1>4. drawn' = drawn /\ StoreKept(p) /\ StoreLocal(p)
  BY StoreSame DEF Flush
<1> QED
  BY <1>1, <1>3, <1>4, EditStep, RunningData

LEMMA MergeStep ==
  ASSUME OwnInv, NEW p \in SessionReqs, sreq[p].pc = "run", NEW t \in 1 .. drawn,
         MergeSession(p, t)
  PROVE  \E f \in Of(sreq[p].v) : Step(p, Edited(D(p), f, "Modified"), Next1(p))
<1>1. PICK o \in Owners : OwnedBy(o)
  BY DEF OwnInv, Owned
<1> DEFINE from == SetToken(FreshData, Drawn(t))
           k == Key(from, 1)
           f == Merged(D(p).values, Decoded(redis[k].values))
<1>2. k = <<1, t, t>>
  <2>1. Drawn(t).who = t /\ Drawn(t).len = "full"
    BY DEF Drawn
  <2>2. from.head = t /\ from.tail = t
    BY <2>1 DEF SetToken, FreshData
  <2> QED
    BY <2>2 DEF Key
<1>3. /\ k \in DOMAIN redis /\ redis[k].csrf = sreq[p].v
      /\ Op(p, Edited(D(p), f, "Modified")) /\ drawn' = drawn
      /\ redis' = Deleted(DeleteKey(from, 1, FALSE))
  BY DEF MergeSession, Edited
<1>4. redis[k] \in Saved(o[t])
  BY <1>1, <1>2, <1>3 DEF OwnedBy
<1>5. o[t] = sreq[p].v
  BY <1>3, <1>4, RunningData, SessionAssumption DEF Saved
<1>6. redis[k].values \in Of(sreq[p].v)
  BY <1>4, <1>5 DEF Saved
<1>7. f \in Of(sreq[p].v)
  BY <1>6, DecodedValues, MergeValues, RunningData
<1>8. DeleteKey(from, 1, FALSE)[1] = 2
  BY DEF DeleteKey, Key
<1>9. StoreKept(p) /\ StoreLocal(p)
  BY <1>3, <1>8, DeleteTwice DEF Same, StoreKept, StoreLocal
<1> HIDE DEF f
<1> QED
  BY <1>3, <1>7, <1>9, EditStep

\* The Data after Migrate and after Destroy.
Migrated(x, t, f) == [SetToken(x, Drawn(t)) EXCEPT !.status = "Modified", !.values = f]

LEMMA DrawnText ==
  ASSUME NEW t \in Nat
  PROVE  /\ Drawn(t) \in [who : Makers, len : AllLengths]
         /\ Drawn(t).who = t /\ Drawn(t).len = "full"
  BY DEF Drawn, Makers, AllLengths

LEMMA MigrateData ==
  ASSUME NEW v, NEW x \in DataOf(v), NEW t \in Nat, NEW f \in Of(v)
  PROVE  /\ Migrated(x, t, f) \in DataOf(v)
         /\ Migrated(x, t, f).head = t /\ Migrated(x, t, f).tail = t
         /\ Migrated(x, t, f).status = "Modified"
<1>1. PICK y \in DataOf(v) : y = SetToken(x, Drawn(t)) /\ y.head = t /\ y.tail = t
  BY DrawnText, TextData
<1>2. Migrated(x, t, f) = [y EXCEPT !.status = "Modified", !.values = f]
  BY <1>1 DEF Migrated
<1>3. "Modified" \in {"Unmodified", "Modified"}
  OBVIOUS
<1>4. [y EXCEPT !.status = "Modified", !.values = f] \in DataOf(v)
  BY <1>3, Zenon DEF DataOf
<1>5. /\ [y EXCEPT !.status = "Modified", !.values = f].head = y.head
      /\ [y EXCEPT !.status = "Modified", !.values = f].tail = y.tail
      /\ [y EXCEPT !.status = "Modified", !.values = f].status = "Modified"
  BY Zenon DEF DataOf
<1> QED
  BY <1>1, <1>2, <1>4, <1>5

\* reset of a Data leaves one that may be used for anyone.
LEMMA ResetData ==
  ASSUME NEW v, NEW x \in DataOf(v)
  PROVE  reset(x) \in BlankDatas /\ reset(x).head = x.head /\ reset(x).len = "cut"
<1>1. "cut" \in AllLengths
  BY DEF AllLengths
<1>2. reset(x) \in BlankDatas
  BY <1>1, Zenon DEF DataOf, BlankDatas, reset
<1>3. reset(x).head = x.head /\ reset(x).len = "cut"
  BY Zenon DEF DataOf, reset
<1> QED
  BY <1>2, <1>3

Emptied(x) == reset([x EXCEPT !.status = "Destroyed"])

LEMMA EmptiedData ==
  ASSUME NEW v, NEW x \in DataOf(v)
  PROVE  Emptied(x) \in DataOf(v) /\ Emptied(x).head = x.head /\ Emptied(x).len = "cut"
<1>1. Emptied(x) = reset(x)
  BY DEF DataOf, Emptied, reset
<1>2. reset(x) \in BlankDatas
  BY ResetData
<1> QED
  BY <1>1, <1>2, ResetData, BlankData

LEMMA MigrateStep ==
  ASSUME OwnInv, NEW p \in SessionReqs, sreq[p].pc = "run", NEW destroy \in BOOLEAN,
         NEW flush \in BOOLEAN, Migrate(p, destroy, flush)
  PROVE  \E f \in Of(sreq[p].v) : Step(p, Migrated(D(p), drawn + 1, f), Next1(p))
<1> DEFINE f == IF flush THEN NoValues ELSE D(p).values
<1>2. D(p) \in DataOf(sreq[p].v) /\ drawn \in Nat
  BY RunningData DEF OwnInv, SessionTyped
<1>3. f \in Of(sreq[p].v)
  BY EmptyValues, RunningData
<1>1. PICK g \in InFront(D(p)) :
        /\ Op(p, Migrated(D(p), drawn + 1, f)) /\ drawn' = drawn + 1
        /\ redis' = redis \/ redis' = Deleted(DeleteKey(D(p), g, FALSE))
  <2>1. SetToken(D(p), Drawn(drawn + 1)).values = D(p).values
    BY <1>2, DrawnText, TextData
  <2> QED
    BY <2>1 DEF Migrate, Migrated
<1>4. StoreKept(p) /\ StoreLocal(p)
  BY <1>1, StoreSame, DeleteLocal
<1> HIDE DEF f
<1>5. /\ Migrated(D(p), drawn + 1, f) \in DataOf(sreq[p].v)
      /\ Migrated(D(p), drawn + 1, f).head = drawn + 1
  <2>1. PICK t \in Nat : t = drawn + 1
    BY <1>2
  <2>2. Migrated(D(p), t, f) \in DataOf(sreq[p].v) /\ Migrated(D(p), t, f).head = t
    BY <1>2, <1>3, MigrateData
  <2> QED
    BY <2>1, <2>2
<1>6. TokenKept(p, Migrated(D(p), drawn + 1, f))
  BY <1>1, <1>5 DEF TokenKept
<1> QED
  BY <1>1, <1>3, <1>4, <1>5, <1>6, OpStep

LEMMA DestroyStep ==
  ASSUME OwnInv, NEW p \in SessionReqs, sreq[p].pc = "run", NEW w \in BOOLEAN, Destroy(p, w)
  PROVE  Step(p, Emptied(D(p)), Next1(p))
<1>1. PICK f \in InFront(D(p)) :
        /\ Op(p, Emptied(D(p))) /\ drawn' = drawn
        /\ redis' = Deleted(DeleteKey(D(p), f, w))
  BY DEF Destroy, Emptied
<1>2. D(p) \in DataOf(sreq[p].v)
  BY RunningData
<1>3. Emptied(D(p)) \in DataOf(sreq[p].v) /\ Emptied(D(p)).head = D(p).head
  BY <1>2, EmptiedData
<1>4. TokenKept(p, Emptied(D(p)))
  BY <1>1, <1>3 DEF TokenKept
<1>5. StoreKept(p) /\ StoreLocal(p)
  BY <1>1, DeleteLocal
<1> QED
  BY <1>1, <1>3, <1>4, <1>5, OpStep

LEMMA DestroyFailsStep ==
  ASSUME OwnInv, NEW p \in SessionReqs, sreq[p].pc = "run", NEW w \in BOOLEAN, DestroyFails(p, w)
  PROVE  /\ Step(p, D(p), Next1(p))
         /\ \A k \in DOMAIN redis' : k \in DOMAIN redis /\ redis'[k] = redis[k]
<1>1. PICK f \in InFront(D(p)) :
        /\ Op(p, D(p)) /\ drawn' = drawn
        /\ redis' = redis \/ redis' = Deleted(DeleteKey(D(p), f, w))
  BY DEF DestroyFails
<1>2. StoreKept(p) /\ StoreLocal(p)
  BY <1>1, DeleteLocal, StoreSame
<1>3. D(p) \in DataOf(sreq[p].v) /\ TokenKept(p, D(p))
  BY <1>1, RunningData DEF TokenKept
<1>4. \A k \in DOMAIN redis' : k \in DOMAIN redis /\ redis'[k] = redis[k]
  BY <1>1 DEF Deleted
<1> QED
  BY <1>1, <1>2, <1>3, <1>4, OpStep

-----------------------------------------------------------------------------
(* getSession, DecodeFails, Release and Expire.                            *)

\* The text, the Data and the request getSession starts with.
Texts(v) == {NoText, cookie[v]} \cup OwnTexts(v)
Taken(text) == IF text = NoText THEN Drawn(drawn + 1) ELSE text
TakenData(d, text) == SetToken(data[d], Taken(text))
NewRequest(v, d, text) == [pc |-> "start", v |-> v, d |-> d, new |-> (text = NoText), ops |-> 0]

LEMMA TakenText ==
  ASSUME OwnInv, NEW p \in SessionReqs, NEW v \in Visitors, NEW d \in Datas, NEW text \in Texts(v),
         getSession(p, v, d, text)
  PROVE  /\ Taken(text) \in [who : Makers, len : AllLengths]
         /\ drawn \in Nat /\ drawn' \in Nat /\ drawn' >= drawn
         /\ Used \subseteq Used' /\ Used' \subseteq Makers /\ Taken(text).who \in Used'
         /\ \A o \in Owners : OwnedBy(o) => \/ Taken(text).who \in Used /\ o[Taken(text).who] = v
                                            \/ Taken(text).who \notin Used
<1>1. /\ drawn \in Nat /\ drawn' = IF text = NoText THEN drawn + 1 ELSE drawn
      /\ cookie[v] \in [who : Makers, len : AllLengths]
  BY DEF getSession, OwnInv, SessionTyped
<1>2. drawn' \in Nat /\ drawn' >= drawn
  BY <1>1
<1>3. Used \subseteq Used' /\ Used' \subseteq Makers
  BY <1>1, <1>2, UsedGrows
<1>4. PICK o \in Owners : OwnedBy(o)
  BY DEF OwnInv, Owned
<1>5. CASE text = NoText
  <2>1. PICK t \in Nat : t = drawn + 1
    BY <1>1
  <2>2. Taken(text) = Drawn(t)
    BY <1>5, <2>1 DEF Taken
  <2>3. t \in Used' /\ t \notin Used
    BY <1>1, <1>5, <2>1, SessionAssumption DEF Used
  <2> QED
    BY <1>1, <1>2, <1>3, <2>2, <2>3, DrawnText
<1>6. CASE text # NoText /\ text = cookie[v]
  <2>1. Taken(text) = cookie[v]
    BY <1>6 DEF Taken
  <2>2. \A n \in Owners : OwnedBy(n) => cookie[v].who \in Used /\ n[cookie[v].who] = v
    BY <1>6 DEF OwnedBy
  <2> QED
    BY <1>1, <1>2, <1>3, <1>4, <2>1, <2>2
<1>7. CASE text # NoText /\ text \in OwnTexts(v)
  <2>1. PICK l \in TextLengths : Taken(text) = [who |-> v, len |-> l]
    BY <1>7 DEF Taken, OwnTexts
  <2>2. Taken(text) \in [who : Makers, len : AllLengths] /\ Taken(text).who = v
    BY <2>1 DEF Makers, AllLengths
  <2>3. v \in Used
    BY DEF Used
  <2> QED
    BY <1>1, <1>2, <1>3, <2>2, <2>3 DEF OwnedBy
<1> QED
  BY <1>5, <1>6, <1>7 DEF Texts

LEMMA TakeViews ==
  ASSUME OwnInv, NEW p \in SessionReqs, NEW v \in Visitors, NEW d \in Datas, NEW text \in Texts(v),
         getSession(p, v, d, text)
  PROVE  /\ ~Active(p) /\ Active(p)' /\ d \in free
         /\ sreq' = [sreq EXCEPT ![p] = NewRequest(v, d, text)]
         /\ sreq'[p] = NewRequest(v, d, text)
         /\ data' = [data EXCEPT ![d] = TakenData(d, text)]
         /\ NewRequest(v, d, text) \in RequestTypes /\ sreq'[p].pc = "start"
         /\ sreq'[p].v = v /\ sreq'[p].d = d
         /\ data[d] \in BlankDatas /\ TakenData(d, text) \in BlankDatas
         /\ D(p)' = TakenData(d, text) /\ TakenData(d, text).head = Taken(text).who
         /\ \A q \in SessionReqs \ {p} : sreq'[q] = sreq[q] /\ (Active(q)' <=> Active(q))
         /\ \A q \in SessionReqs \ {p} : Active(q) => sreq[q].d # d /\ D(q)' = D(q)
<1>1. sreq[p].pc = "idle" /\ d \in free /\ data[d] \in BlankDatas
  BY DEF getSession, OwnInv, SessionTyped
<1>2. /\ sreq' = [sreq EXCEPT ![p] = NewRequest(v, d, text)]
      /\ data' = [data EXCEPT ![d] = TakenData(d, text)]
  BY Zenon DEF getSession, NewRequest, TakenData, Taken
<1>3. Taken(text) \in [who : Makers, len : AllLengths]
  BY TakenText
<1>4. TakenData(d, text) \in BlankDatas /\ TakenData(d, text).head = Taken(text).who
  <2>1. data[d] \in DataOf(v)
    BY <1>1, BlankData
  <2> QED
    BY <1>1, <1>3, <2>1, TextData DEF TakenData
<1>6. NewRequest(v, d, text) \in RequestTypes
  <2>1. /\ (text = NoText) \in BOOLEAN /\ 0 \in Nat /\ v \in Visitors \cup {Nil}
        /\ d \in Datas \cup {Nil}
        /\ "start" \in {"idle", "start", "run", "failed", "commit", "set", "cookie"}
    OBVIOUS
  <2> QED
    BY <2>1, Zenon DEF NewRequest, RequestTypes
<1>7. /\ NewRequest(v, d, text).pc = "start" /\ NewRequest(v, d, text).v = v
      /\ NewRequest(v, d, text).d = d
  BY DEF NewRequest
<1>8. sreq'[p] = NewRequest(v, d, text) /\ \A q \in SessionReqs \ {p} : sreq'[q] = sreq[q]
  BY <1>2 DEF OwnInv, SessionTyped
<1>9. data'[d] = TakenData(d, text) /\ \A e \in Datas : e # d => data'[e] = data[e]
  BY <1>2 DEF OwnInv, SessionTyped
<1>10. ~Active(p) /\ Active(p)' /\ \A q \in SessionReqs \ {p} : Active(q)' <=> Active(q)
  BY <1>1, <1>7, <1>8 DEF Active
<1>11. D(p)' = TakenData(d, text)
  BY <1>7, <1>8, <1>9 DEF D
<1>12. \A q \in SessionReqs \ {p} : Active(q) => sreq[q].d # d /\ D(q)' = D(q)
  BY <1>1, <1>8, <1>9 DEF D, OwnInv, Working
<1> QED
  BY <1>1, <1>2, <1>4, <1>6, <1>7, <1>8, <1>10, <1>11, <1>12

LEMMA TakeOwn ==
  ASSUME OwnInv, NEW p \in SessionReqs, NEW v \in Visitors, NEW d \in Datas, NEW text \in Texts(v),
         getSession(p, v, d, text)
  PROVE  OwnInv'
<1> DEFINE w == Taken(text).who
<1>0. free' = free \ {d} /\ cookie' = cookie /\ redis' = redis
  BY DEF getSession
<1>a. /\ ~Active(p) /\ d \in free /\ sreq'[p].v = v /\ sreq'[p].d = d
      /\ D(p)' \in BlankDatas /\ D(p)'.head = w
  BY TakeViews
<1>b. \A q \in SessionReqs \ {p} :
        /\ sreq'[q] = sreq[q] /\ (Active(q)' <=> Active(q))
        /\ Active(q) => sreq[q].d # d /\ D(q)' = D(q)
  BY TakeViews
<1>c. /\ drawn' \in Nat /\ w \in Used' /\ w \in Makers /\ Used \subseteq Used' /\ Used' \subseteq Makers
      /\ \A o \in Owners : OwnedBy(o) => (w \in Used /\ o[w] = v) \/ w \notin Used
  BY TakenText
<1> HIDE DEF w
<1>1. SessionTyped'
  <2>1. sreq' \in [SessionReqs -> RequestTypes]
    <3>1. sreq' = [sreq EXCEPT ![p] = NewRequest(v, d, text)] /\ NewRequest(v, d, text) \in RequestTypes
      BY TakeViews
    <3> QED
      BY <3>1 DEF OwnInv, SessionTyped
  <2>2. data' = [e \in Datas |-> data'[e]] /\ \A e \in Datas \ {d} : data'[e] = data[e]
    <3>1. data' = [data EXCEPT ![d] = TakenData(d, text)]
      BY TakeViews
    <3> QED
      BY <3>1 DEF OwnInv, SessionTyped
  <2> QED
    BY <1>0, <1>c, <2>1, <2>2 DEF OwnInv, SessionTyped
<1>2. Working'
  <2> SUFFICES ASSUME NEW q \in SessionReqs, Active(q)'
               PROVE  /\ sreq'[q].v \in Visitors /\ sreq'[q].d \in Datas \ free'
                      /\ D(q)' \in DataOf(sreq'[q].v)
                      /\ D(q)'.head \in Used'
                      /\ sreq'[q].pc = "start" => D(q)' \in BlankDatas
                      /\ \A s \in SessionReqs : Active(s)' /\ sreq'[s].d = sreq'[q].d => s = q
    BY DEF Working
  <2>1. CASE q = p
    <3>1. D(q)' \in DataOf(sreq'[q].v)
      BY <1>a, <2>1, BlankData
    <3>2. \A s \in SessionReqs : Active(s)' /\ sreq'[s].d = sreq'[q].d => s = q
      BY <1>a, <1>b, <2>1
    <3> QED
      BY <1>0, <1>a, <1>c, <2>1, <3>1, <3>2
  <2>2. CASE q # p
    <3>1. Active(q) /\ sreq'[q] = sreq[q] /\ D(q)' = D(q) /\ sreq[q].d # d
      BY <1>b, <2>2
    <3>2. D(q).head \in Used'
      BY <1>c, <3>1 DEF OwnInv, Working
    <3>3. \A s \in SessionReqs : Active(s)' /\ sreq'[s].d = sreq'[q].d => s = q
      BY <1>a, <1>b, <3>1 DEF OwnInv, Working
    <3> QED
      BY <1>0, <3>1, <3>2, <3>3 DEF OwnInv, Working
  <2> QED
    BY <2>1, <2>2
<1>3. Owned'
  <2>1. PICK o \in Owners : OwnedBy(o)
    BY DEF OwnInv, Owned
  <2>2. PICK n \in Owners : n = [o EXCEPT ![w] = v]
    BY <2>1 DEF Owners
  <2>3. n[w] = v /\ \A t \in Used : n[t] = o[t]
    <3>1. n[w] = v /\ \A t \in Makers : t # w => n[t] = o[t]
      BY <1>c, <2>1, <2>2 DEF Owners
    <3>2. w \in Used => o[w] = v
      BY <1>c, <2>1
    <3> QED
      BY <1>c, <3>1, <3>2
  <2>4. ASSUME NEW u \in Visitors
        PROVE  n[u] = u /\ (cookie'[u] # NoText => cookie'[u].who \in Used' /\ n[cookie'[u].who] = u)
    <3>1. u \in Used
      BY DEF Used
    <3> QED
      BY <1>0, <1>c, <2>1, <2>3, <3>1 DEF OwnedBy
  <2>5. ASSUME NEW q \in SessionReqs, Active(q)' PROVE n[D(q)'.head] = sreq'[q].v
    <3>1. CASE q = p
      BY <1>a, <2>3, <3>1
    <3>2. CASE q # p
      BY <1>b, <2>1, <2>3, <2>5, <3>2 DEF OwnInv, Working, OwnedBy
    <3> QED
      BY <3>1, <3>2
  <2>6. ASSUME NEW k \in DOMAIN redis'
        PROVE  /\ k = <<k[1], k[2], k[3]>> /\ k[1] \in {0, 1} /\ k[2] \in Used'
               /\ n[k[2]] \in Visitors /\ redis'[k] \in Saved(n[k[2]])
    <3>1. /\ k = <<k[1], k[2], k[3]>> /\ k[1] \in {0, 1} /\ k[2] \in Used
          /\ o[k[2]] \in Visitors /\ redis[k] \in Saved(o[k[2]]) /\ redis'[k] = redis[k]
      BY <1>0, <2>1, <2>6 DEF OwnedBy
    <3> QED
      BY <1>c, <2>3, <3>1
  <2>7. OwnedBy(n)'
    BY <2>4, <2>5, <2>6 DEF OwnedBy
  <2> QED
    BY <2>7 DEF Owned, Owners, Makers
<1> QED
  BY <1>1, <1>2, <1>3 DEF OwnInv

\* A request that ends leaves the others alone.
Ends(p) == Active(p) /\ sreq' = [sreq EXCEPT ![p] = NoRequest]

LEMMA EndsViews ==
  ASSUME OwnInv, NEW p \in SessionReqs, Ends(p)
  PROVE  /\ ~Active(p)' /\ sreq' \in [SessionReqs -> RequestTypes]
         /\ \A q \in SessionReqs \ {p} : sreq'[q] = sreq[q] /\ (Active(q)' <=> Active(q))
<1>1. NoRequest \in RequestTypes /\ NoRequest.pc = "idle"
  BY Zenon DEF NoRequest, RequestTypes
<1>2. /\ sreq' \in [SessionReqs -> RequestTypes]
      /\ sreq'[p] = NoRequest /\ \A q \in SessionReqs \ {p} : sreq'[q] = sreq[q]
  BY <1>1 DEF Ends, OwnInv, SessionTyped
<1>3. ~Active(p)' /\ \A q \in SessionReqs \ {p} : Active(q)' <=> Active(q)
  BY <1>1, <1>2 DEF Active
<1> QED
  BY <1>2, <1>3

\* The deletion DecodeFails asks for has the prefix twice.
LEMMA DecodeFailsViews ==
  ASSUME OwnInv, NEW p \in SessionReqs, DecodeFails(p)
  PROVE  /\ Ends(p) /\ sreq[p].pc = "start" /\ UNCHANGED <<cookie, data, free, drawn, kept>>
         /\ clean' = [clean EXCEPT ![p] = NotClean]
         /\ \A k : Same(k)
         /\ \A q \in SessionReqs : D(q)' = data[sreq'[q].d]
<1>1. PICK f \in InFront(D(p)) : redis' = Deleted(DeleteKey(D(p), f, FALSE))
  BY DEF DecodeFails
<1>2. DeleteKey(D(p), f, FALSE)[1] = 2
  BY DEF DeleteKey, Key
<1>3. \A k : Same(k)
  BY <1>1, <1>2, DeleteTwice
<1> QED
  BY <1>3 DEF DecodeFails, Ends, Active, D

LEMMA DecodeFailsOwn ==
  ASSUME OwnInv, NEW p \in SessionReqs, DecodeFails(p)
  PROVE  OwnInv'
<1>1. /\ Ends(p) /\ UNCHANGED <<cookie, data, free, drawn>> /\ \A k : Same(k)
      /\ \A q \in SessionReqs : D(q)' = data[sreq'[q].d]
  BY DecodeFailsViews
<1>2. /\ ~Active(p)' /\ sreq' \in [SessionReqs -> RequestTypes]
      /\ \A q \in SessionReqs \ {p} : sreq'[q] = sreq[q] /\ (Active(q)' <=> Active(q))
  BY <1>1, EndsViews
<1>3. SessionTyped'
  BY <1>1, <1>2 DEF OwnInv, SessionTyped
<1>4. \A q \in SessionReqs \ {p} : D(q)' = D(q)
  BY <1>1, <1>2 DEF D
<1>5. Used' = Used
  BY <1>1 DEF Used
<1>6. Working'
  BY <1>1, <1>2, <1>4, <1>5 DEF OwnInv, Working
<1>7. PICK o \in Owners : OwnedBy(o)
  BY DEF OwnInv, Owned
<1>8. \A k \in DOMAIN redis' : k \in DOMAIN redis /\ redis'[k] = redis[k]
  BY <1>1 DEF Same
<1>9. OwnedBy(o)'
  BY <1>1, <1>2, <1>4, <1>5, <1>7, <1>8 DEF OwnedBy
<1> QED
  BY <1>3, <1>6, <1>9 DEF OwnInv, Owned, Owners, Makers

LEMMA ReleaseViews ==
  ASSUME OwnInv, NEW p \in SessionReqs, Release(p)
  PROVE  /\ Ends(p) /\ sreq[p].d \in Datas /\ reset(D(p)) \in BlankDatas
         /\ data' = [data EXCEPT ![sreq[p].d] = reset(D(p))]
         /\ clean' = [clean EXCEPT ![p] = NotClean]
         /\ \A q \in SessionReqs \ {p} : Active(q) => sreq[q].d # sreq[p].d /\ D(q)' = D(q)
<1>1. Ends(p)
  BY DEF Release, Ends, Active
<1>2. sreq[p].d \in Datas /\ D(p) \in DataOf(sreq[p].v)
  BY <1>1 DEF OwnInv, Working, Ends
<1>3. reset(D(p)) \in BlankDatas
  BY <1>2, ResetData
<1>4. data' = [data EXCEPT ![sreq[p].d] = reset(D(p))] /\ clean' = [clean EXCEPT ![p] = NotClean]
  BY DEF Release
<1>6. \A q \in SessionReqs \ {p} : sreq'[q] = sreq[q]
  BY <1>1, EndsViews
<1>8. \A d \in Datas : d # sreq[p].d => data'[d] = data[d]
  BY <1>4 DEF OwnInv, SessionTyped
<1>9. \A q \in SessionReqs \ {p} : Active(q) => sreq[q].d # sreq[p].d /\ D(q)' = D(q)
  BY <1>1, <1>6, <1>8 DEF D, OwnInv, Working, Ends
<1> QED
  BY <1>1, <1>2, <1>3, <1>4, <1>9

LEMMA ReleaseOwn ==
  ASSUME OwnInv, NEW p \in SessionReqs, Release(p)
  PROVE  OwnInv'
<1>0. /\ free' = free \cup {sreq[p].d} /\ drawn' = drawn /\ redis' = redis
      /\ Active(p) /\ Ends(p) /\ sreq[p].d \in Datas /\ reset(D(p)) \in BlankDatas
      /\ data' = [data EXCEPT ![sreq[p].d] = reset(D(p))]
  BY ReleaseViews DEF Release, Ends
<1>a. /\ ~Active(p)' /\ sreq' \in [SessionReqs -> RequestTypes]
      /\ \A q \in SessionReqs \ {p} :
           /\ sreq'[q] = sreq[q] /\ (Active(q)' <=> Active(q))
           /\ Active(q) => sreq[q].d # sreq[p].d /\ D(q)' = D(q)
  BY <1>0, EndsViews, ReleaseViews
<1>b. /\ sreq[p].v \in Visitors /\ D(p).head \in Used /\ D(p) \in DataOf(sreq[p].v)
      /\ Used' = Used /\ Used \subseteq Makers
  BY <1>0 DEF OwnInv, SessionTyped, Working, Used, Makers
<1>c. PICK t : /\ cookie' = cookie \/ cookie' = [cookie EXCEPT ![sreq[p].v] = t]
               /\ t \in [who : Makers, len : AllLengths]
               /\ t = NoText \/ t.who = D(p).head
  <2>1. NoText \in [who : Makers, len : AllLengths]
    BY DEF NoText, Makers, AllLengths, NoToken
  <2>2. /\ [who |-> D(p).head, len |-> D(p).len] \in [who : Makers, len : AllLengths]
        /\ [who |-> D(p).head, len |-> D(p).len].who = D(p).head
    BY <1>b, DataFields
  <2> QED
    BY <2>1, <2>2 DEF Release, Token
<1>1. cookie' \in [Visitors -> [who : Makers, len : AllLengths]]
  BY <1>b, <1>c DEF OwnInv, SessionTyped
<1>2. SessionTyped'
  <2>2. /\ data' = [d \in Datas |-> data'[d]] /\ data'[sreq[p].d] = reset(D(p))
        /\ \A d \in Datas \ {sreq[p].d} : data'[d] = data[d]
    BY <1>0 DEF OwnInv, SessionTyped
  <2> QED
    BY <1>0, <1>a, <1>1, <2>2 DEF OwnInv, SessionTyped
<1>3. Working'
  <2> SUFFICES ASSUME NEW q \in SessionReqs, Active(q)'
               PROVE  /\ sreq'[q].v \in Visitors /\ sreq'[q].d \in Datas \ free'
                      /\ D(q)' \in DataOf(sreq'[q].v)
                      /\ D(q)'.head \in Used'
                      /\ sreq'[q].pc = "start" => D(q)' \in BlankDatas
                      /\ \A s \in SessionReqs : Active(s)' /\ sreq'[s].d = sreq'[q].d => s = q
    BY DEF Working
  <2>1. q # p /\ Active(q) /\ sreq'[q] = sreq[q] /\ D(q)' = D(q) /\ sreq[q].d # sreq[p].d
    BY <1>0, <1>a
  <2>2. \A s \in SessionReqs : Active(s)' /\ sreq'[s].d = sreq'[q].d => s = q
    BY <1>0, <1>a, <2>1 DEF OwnInv, Working
  <2> QED
    BY <1>0, <1>b, <2>1, <2>2 DEF OwnInv, Working
<1>4. Owned'
  <2>1. PICK o \in Owners : OwnedBy(o)
    BY DEF OwnInv, Owned
  <2>2. o[D(p).head] = sreq[p].v
    BY <1>0, <2>1 DEF OwnedBy
  <2>3. ASSUME NEW v \in Visitors
        PROVE  o[v] = v /\ (cookie'[v] # NoText => cookie'[v].who \in Used' /\ o[cookie'[v].who] = v)
    <3>1. cookie'[v] = cookie[v] \/ (v = sreq[p].v /\ cookie'[v] = t)
      BY <1>b, <1>c DEF OwnInv, SessionTyped
    <3> QED
      BY <1>b, <1>c, <2>1, <2>2, <3>1 DEF OwnedBy
  <2>4. ASSUME NEW q \in SessionReqs, Active(q)' PROVE o[D(q)'.head] = sreq'[q].v
    BY <1>0, <1>a, <2>1, <2>4 DEF OwnedBy
  <2>5. OwnedBy(o)'
    BY <1>0, <1>b, <2>1, <2>3, <2>4 DEF OwnedBy
  <2> QED
    BY <2>5 DEF Owned, Owners, Makers
<1> QED
  BY <1>2, <1>3, <1>4 DEF OwnInv

\* The store loses a session, nothing else changes that is in OwnInv.
LEMMA ExpireOwn ==
  ASSUME OwnInv, NEW k \in DOMAIN redis, Expire(k)
  PROVE  OwnInv'
<1>1. UNCHANGED <<cookie, data, free, sreq, drawn>>
  BY DEF Expire
<1>2. DOMAIN redis' \subseteq DOMAIN redis /\ \A x \in DOMAIN redis' : redis'[x] = redis[x]
  BY DEF Expire, Deleted
<1>3. Used' = Used /\ \A p \in SessionReqs : (Active(p)' <=> Active(p)) /\ D(p)' = D(p)
  BY <1>1 DEF Active, D, Used
<1>4. SessionTyped' /\ Working'
  BY <1>1, <1>3 DEF OwnInv, SessionTyped, Working
<1>5. PICK o \in Owners : OwnedBy(o)
  BY DEF OwnInv, Owned
<1>6. OwnedBy(o)'
  BY <1>1, <1>2, <1>3, <1>5 DEF OwnedBy
<1> QED
  BY <1>4, <1>6 DEF OwnInv, Owned, Owners, Makers

LEMMA HandlerOwn ==
  ASSUME OwnInv, NEW p \in SessionReqs, Handler(p)
  PROVE  OwnInv'
<1>0. sreq[p].pc = "run"
  BY DEF Handler
<1>1. ASSUME NEW k \in Keys, NEW type \in Types, Put(p, k, type) PROVE OwnInv'
  BY <1>0, <1>1, PutStep, StepOwn
<1>2. ASSUME NEW k \in Keys, Pop(p, k) PROVE OwnInv'
  BY <1>0, <1>2, PopStep, StepOwn
<1>3. CASE Clear(p)
  BY <1>0, <1>3, ClearStep, StepOwn
<1>4. CASE Flush(p)
  BY <1>0, <1>4, FlushStep, StepOwn
<1>5. ASSUME NEW destroy \in BOOLEAN, NEW flush \in BOOLEAN, Migrate(p, destroy, flush)
      PROVE  OwnInv'
  BY <1>0, <1>5, MigrateStep, StepOwn
<1>6. ASSUME NEW w \in BOOLEAN, Destroy(p, w) PROVE OwnInv'
  BY <1>0, <1>6, DestroyStep, StepOwn
<1>7. ASSUME NEW w \in BOOLEAN, DestroyFails(p, w) PROVE OwnInv'
  BY <1>0, <1>7, DestroyFailsStep, StepOwn
<1>8. ASSUME NEW t \in 1 .. drawn, MergeSession(p, t) PROVE OwnInv'
  BY <1>0, <1>8, MergeStep, StepOwn
<1> QED
  BY <1>1, <1>2, <1>3, <1>4, <1>5, <1>6, <1>7, <1>8 DEF Handler

LEMMA NextOwn == OwnInv /\ [SessionNext]_sessionVars => OwnInv'
<1> SUFFICES ASSUME OwnInv, [SessionNext]_sessionVars PROVE OwnInv'
  OBVIOUS
<1>1. ASSUME NEW p \in SessionReqs, NEW v \in Visitors, NEW d \in Datas, NEW text \in Texts(v),
             getSession(p, v, d, text)
      PROVE  OwnInv'
  BY <1>1, TakeOwn
<1>2. ASSUME NEW p \in SessionReqs, Start(p) PROVE OwnInv'
  BY <1>2, StartStep, StepOwn
<1>3. ASSUME NEW p \in SessionReqs, StoreFails(p) PROVE OwnInv'
  BY <1>3, StoreFailsStep, StepOwn
<1>4. ASSUME NEW p \in SessionReqs, Handled(p) PROVE OwnInv'
  BY <1>4, HandledStep, StepOwn
<1>5. ASSUME NEW p \in SessionReqs, Expireat(p) PROVE OwnInv'
  BY <1>5, ExpireatStep, StepOwn
<1>6. ASSUME NEW p \in SessionReqs, Set(p) PROVE OwnInv'
  BY <1>6, SetStep, StepOwn
<1>7. CASE UNCHANGED sessionVars
  BY <1>7 DEF sessionVars, OwnInv, SessionTyped, Working, Owned, OwnedBy, Owners, Makers, Used, Active, D
<1> QED
  BY <1>1, <1>2, <1>3, <1>4, <1>5, <1>6, <1>7, HandlerOwn, DecodeFailsOwn, ReleaseOwn, ExpireOwn
  DEF SessionNext, Texts

LEMMA OwnInvariant == SessionSpec => []OwnInv
  BY OwnStarts, NextOwn, PTL DEF SessionSpec

\* A request sees values and a CSRF token of its own client's session only, although
\* Datas and their arrays are pooled, clients send texts of their own, shorter and
\* longer than a token, tokens migrate and sessions are merged.
THEOREM SessionsAreOwn == SessionSpec => []SessionOwn
<1>1. OwnInv => SessionOwn
  <2> SUFFICES ASSUME OwnInv, NEW p \in SessionReqs, sreq[p].pc \notin {"idle", "start"}
               PROVE  /\ D(p).csrf \in {Nil, sreq[p].v}
                      /\ \A k \in DOMAIN D(p).values : D(p).values[k].by = sreq[p].v
    BY DEF SessionOwn
  <2>1. D(p) \in DataOf(sreq[p].v)
    BY DEF OwnInv, Working, Active
  <2>2. D(p).csrf \in {Nil, sreq[p].v} /\ D(p).values \in Of(sreq[p].v)
    BY <2>1, DataFields
  <2> QED
    BY <2>2, OwnValues
<1> QED
  BY <1>1, OwnInvariant, PTL


-----------------------------------------------------------------------------
(* What the last request of a client left.                                 *)

\* A Data with a drawn token in an array that has not moved has one key.
Whole(x) == x.len = "full" /\ ~x.moved
Home(t) == <<1, t, t>>

\* The store has values rd at a key that the codec gives back as it would f.
Keeps(rd, k, f) == k \in DOMAIN rd /\ Decoded(rd[k].values) = Decoded(f)

\* A request r with Data x and history c, alone with the session of its client
\* (cookie ck, kept kp): until Start it has the client's token, or a new one the
\* store does not know; until Commit the store does not have other values than
\* the Data, unless an operation marked the Data; and after Commit it has them.
Faith(r, x, c, rd, ck, kp) ==
  c.alone =>
    /\ r.pc = "start" =>
         /\ kp # Nil => ~r.new /\ x.head = ck.who /\ Whole(x)
         /\ r.new => Whole(x) /\ Home(x.head) \notin DOMAIN rd
    /\ r.pc = "run" => (kp # Nil => c.loaded = Decoded(kp))
    /\ r.pc = "commit" => x.status = "Unmodified"
    /\ Whole(x) =>
         /\ x.tail = x.head
         /\ r.pc \in {"run", "commit"} /\ x.status = "Unmodified" /\ ~c.flushed =>
              (Home(x.head) \in DOMAIN rd => Keeps(rd, Home(x.head), x.values))
         /\ r.pc = "cookie" /\ ~(c.flushed /\ x.status = "Unmodified") =>
              Keeps(rd, Home(x.head), x.values)

Faithful ==
  \A p \in SessionReqs : Active(p) =>
    Faith(sreq[p], D(p), clean[p], redis, cookie[sreq[p].v], kept[sreq[p].v])

\* Nobody else works for the client of a request that is alone.
AloneExact ==
  \A p \in SessionReqs : Active(p) /\ clean[p].alone =>
    \A q \in SessionReqs \ {p} : Active(q) => sreq[q].v # sreq[p].v

\* Until a request of the client has started, the store has what was kept, under
\* the token of the cookie.
Resting(v) == \A p \in SessionReqs : Active(p) /\ sreq[p].v = v => sreq[p].pc = "start"
AtRest ==
  \A v \in Visitors : kept[v] # Nil /\ Resting(v) =>
    cookie[v].len = "full" /\ Keeps(redis, Home(cookie[v].who), kept[v])

KeptTyped ==
  /\ clean \in [SessionReqs -> CleanTypes]
  /\ kept = [v \in Visitors |-> kept[v]]

KeptInv == OwnInv /\ KeptTyped /\ Faithful /\ AloneExact /\ AtRest

\* A session that is not deleted or set is kept.
LEMMA KeepsSame ==
  ASSUME NEW k, NEW f, Same(k)
  PROVE  Keeps(redis, k, f) <=> Keeps(redis', k, f)
  BY DEF Same, Keeps

\* The steps of a request leave the sessions of other clients alone.
LEMMA OthersSame ==
  ASSUME OwnInv, NEW p \in SessionReqs, Active(p), StoreLocal(p)
  PROVE  /\ \A v \in Visitors \ {sreq[p].v} : cookie[v] # NoText => Same(Home(cookie[v].who))
         /\ \A q \in SessionReqs : Active(q) /\ sreq[q].v # sreq[p].v => Same(Home(D(q).head))
<1>1. PICK o \in Owners : OwnedBy(o)
  BY DEF OwnInv, Owned
<1>2. o[D(p).head] = sreq[p].v
  BY <1>1 DEF OwnedBy
<1>3. ASSUME NEW t, t # D(p).head PROVE Same(Home(t))
  <2>1. Home(t)[2] = t
    BY DEF Home
  <2> QED
    BY <1>3, <2>1 DEF StoreLocal
<1>4. ASSUME NEW v \in Visitors \ {sreq[p].v}, cookie[v] # NoText PROVE cookie[v].who # D(p).head
  BY <1>1, <1>2, <1>4 DEF OwnedBy
<1>5. ASSUME NEW q \in SessionReqs, Active(q), sreq[q].v # sreq[p].v PROVE D(q).head # D(p).head
  BY <1>1, <1>2, <1>5 DEF OwnedBy
<1> QED
  BY <1>3, <1>4, <1>5

\* Faith depends on the store at the key of the Data only.
LEMMA FaithSame ==
  ASSUME NEW r, NEW x, NEW c, NEW ck, NEW kp, Faith(r, x, c, redis, ck, kp), Same(Home(x.head))
  PROVE  Faith(r, x, c, redis', ck, kp)
<1> DEFINE k == Home(x.head)
<1>1. k \in DOMAIN redis' <=> k \in DOMAIN redis
  BY DEF Same
<1>2. Keeps(redis, k, x.values) <=> Keeps(redis', k, x.values)
  BY KeepsSame
<1> HIDE DEF k
<1> QED
  BY <1>1, <1>2 DEF Faith, k

LEMMA NotCut == NoText.len = "cut"
  BY DEF NoText

LEMMA StepKept ==
  ASSUME KeptInv, NEW p \in SessionReqs, NEW y, NEW r, Step(p, y, r),
         NEW c \in CleanTypes, clean' = [clean EXCEPT ![p] = c], c.alone = clean[p].alone,
         Faith(r, y, c, redis', cookie[sreq[p].v], kept[sreq[p].v])
  PROVE  KeptInv'
<1>0. OwnInv /\ Active(p) /\ StoreLocal(p) /\ GoesOn(p, r) /\ Moves(p, y, r) /\ kept' = kept
  BY DEF KeptInv, Step
<1>1. OwnInv'
  BY <1>0, StepOwn
<1>2. /\ clean' \in [SessionReqs -> CleanTypes] /\ clean'[p] = c
      /\ \A q \in SessionReqs \ {p} : clean'[q] = clean[q]
  BY DEF KeptInv, KeptTyped
<1>3. KeptTyped'
  BY <1>0, <1>2 DEF KeptInv, KeptTyped
<1>4. /\ D(p)' = y /\ sreq'[p] = r /\ cookie' = cookie /\ r.pc # "start"
      /\ \A q \in SessionReqs \ {p} : sreq'[q] = sreq[q]
      /\ \A q \in SessionReqs \ {p} : Active(q) => D(q)' = D(q)
      /\ \A q \in SessionReqs : Active(q)' <=> Active(q)
      /\ \A q \in SessionReqs : sreq'[q].v = sreq[q].v
  BY <1>0, MoveViews DEF Moves, GoesOn
<1>5. AloneExact'
  BY <1>2, <1>4 DEF KeptInv, AloneExact
<1>6. AtRest'
  <2> SUFFICES ASSUME NEW v \in Visitors, kept[v] # Nil, Resting(v)'
               PROVE  cookie[v].len = "full" /\ Keeps(redis', Home(cookie[v].who), kept[v])
    BY <1>0, <1>4 DEF AtRest
  <2>1. v # sreq[p].v
    BY <1>0, <1>4 DEF Resting
  <2>2. Resting(v)
    BY <1>4, <2>1 DEF Resting
  <2>3. cookie[v].len = "full" /\ Keeps(redis, Home(cookie[v].who), kept[v])
    BY <2>2 DEF KeptInv, AtRest
  <2>4. Same(Home(cookie[v].who))
    BY <1>0, <2>1, <2>3, NotCut, OthersSame
  <2> QED
    BY <2>3, <2>4, KeepsSame
<1>7. Faithful'
  <2> SUFFICES ASSUME NEW q \in SessionReqs, Active(q)
               PROVE  Faith(sreq'[q], D(q)', clean'[q], redis', cookie[sreq[q].v], kept[sreq[q].v])
    BY <1>0, <1>4 DEF Faithful
  <2>1. CASE q = p
    BY <1>2, <1>4, <2>1
  <2>2. CASE q # p
    <3>1. Faith(sreq[q], D(q), clean[q], redis, cookie[sreq[q].v], kept[sreq[q].v])
      BY DEF KeptInv, Faithful
    <3>2. CASE clean[q].alone
      <4>1. sreq[p].v # sreq[q].v
        BY <1>0, <2>2, <3>2 DEF KeptInv, AloneExact
      <4>2. Same(Home(D(q).head))
        BY <1>0, <4>1, OthersSame
      <4>3. Faith(sreq[q], D(q), clean[q], redis', cookie[sreq[q].v], kept[sreq[q].v])
        BY <3>1, <4>2, FaithSame
      <4> QED
        BY <1>2, <1>4, <2>2, <4>3
    <3>3. CASE ~clean[q].alone
      <4>1. ~clean'[q].alone
        BY <1>2, <2>2, <3>3
      <4> QED
        BY <4>1 DEF Faith
    <3> QED
      BY <3>2, <3>3
  <2> QED
    BY <2>1, <2>2
<1> QED
  BY <1>1, <1>3, <1>5, <1>6, <1>7 DEF KeptInv

\* The history stays when the handlers are not at work.
LEMMA QuietKept ==
  ASSUME KeptInv, NEW p \in SessionReqs, NEW y, NEW r, Step(p, y, r), clean' = clean,
         Faith(r, y, clean[p], redis', cookie[sreq[p].v], kept[sreq[p].v])
  PROVE  KeptInv'
<1>1. clean[p] \in CleanTypes /\ clean' = [clean EXCEPT ![p] = clean[p]]
  BY DEF KeptInv, KeptTyped
<1> QED
  BY <1>1, StepKept

LEMMA StoreFailsKept ==
  ASSUME KeptInv, NEW p \in SessionReqs, StoreFails(p)
  PROVE  KeptInv'
<1>1. OwnInv /\ Active(p)
  BY DEF KeptInv, StoreFails, Active
<1>2. At(p, "failed").pc = "failed" /\ Step(p, D(p), At(p, "failed")) /\ clean' = clean
  BY <1>1, RequestAt, StoreFailsStep DEF StoreFails
<1>3. clean[p].alone /\ Whole(D(p)) => D(p).tail = D(p).head
  BY <1>1 DEF KeptInv, Faithful, Faith
<1>4. Faith(At(p, "failed"), D(p), clean[p], redis', cookie[sreq[p].v], kept[sreq[p].v])
  BY <1>2, <1>3 DEF Faith
<1> QED
  BY <1>2, <1>4, QuietKept

LEMMA HandledKept ==
  ASSUME KeptInv, NEW p \in SessionReqs, Handled(p)
  PROVE  KeptInv'
<1> DEFINE l == IF D(p).status = "Modified" THEN "set" ELSE "commit"
<1>1. OwnInv /\ Active(p) /\ sreq[p].pc = "run"
  BY DEF KeptInv, Handled, Active
<1>2. After(p, l).pc = l /\ Step(p, D(p), After(p, l)) /\ clean' = clean /\ redis' = redis
  BY <1>1, RequestAt, HandledStep DEF Handled
<1>3. Faith(sreq[p], D(p), clean[p], redis, cookie[sreq[p].v], kept[sreq[p].v])
  BY <1>1 DEF KeptInv, Faithful
<1>4. D(p).status \in {"Unmodified", "Modified"}
  BY <1>1, RunningData
<1>5. Faith(After(p, l), D(p), clean[p], redis, cookie[sreq[p].v], kept[sreq[p].v])
  BY <1>1, <1>2, <1>3, <1>4 DEF Faith
<1> QED
  BY <1>2, <1>5, QuietKept

\* The key of a Data with a drawn token.
LEMMA PlainKey ==
  ASSUME NEW x, Whole(x), x.tail = x.head, NEW f \in InFront(x)
  PROVE  Key(x, f) = Home(x.head)
  BY DEF Whole, InFront, Key, Home

LEMMA ExpireatKept ==
  ASSUME KeptInv, NEW p \in SessionReqs, Expireat(p)
  PROVE  KeptInv'
<1>1. OwnInv /\ Active(p) /\ sreq[p].pc = "commit"
  BY DEF KeptInv, Expireat, Active
<1>2. PICK f \in InFront(D(p)), l \in {"cookie", "set"} :
        /\ l = IF Key(D(p), f) \in DOMAIN redis THEN "cookie" ELSE "set"
        /\ Step(p, D(p), At(p, l))
  BY <1>1, ExpireatStep
<1>3. At(p, l).pc = l /\ clean' = clean /\ redis' = redis
  BY <1>1, RequestAt DEF Expireat
<1>4. Faith(sreq[p], D(p), clean[p], redis, cookie[sreq[p].v], kept[sreq[p].v])
  BY <1>1 DEF KeptInv, Faithful
<1>5. Whole(D(p)) /\ D(p).tail = D(p).head => Key(D(p), f) = Home(D(p).head)
  BY PlainKey
<1>6. Faith(At(p, l), D(p), clean[p], redis, cookie[sreq[p].v], kept[sreq[p].v])
  BY <1>1, <1>2, <1>3, <1>4, <1>5 DEF Faith
<1> QED
  BY <1>2, <1>3, <1>6, QuietKept

LEMMA SetKept ==
  ASSUME KeptInv, NEW p \in SessionReqs, Set(p)
  PROVE  KeptInv'
<1>1. OwnInv /\ Active(p) /\ sreq[p].pc = "set"
  BY DEF KeptInv, Set, Active
<1>2. At(p, "cookie").pc = "cookie" /\ Step(p, D(p), At(p, "cookie")) /\ clean' = clean
  BY <1>1, RequestAt, SetStep DEF Set
<1>3. Faith(sreq[p], D(p), clean[p], redis, cookie[sreq[p].v], kept[sreq[p].v])
  BY <1>1 DEF KeptInv, Faithful
<1>4. PICK f \in InFront(D(p)) :
        redis' = With(redis, Key(D(p), f), [csrf |-> D(p).csrf, values |-> D(p).values])
  BY DEF Set
<1>5. Keeps(redis', Key(D(p), f), D(p).values)
  BY <1>4 DEF With, Keeps
<1>6. Whole(D(p)) /\ D(p).tail = D(p).head => Keeps(redis', Home(D(p).head), D(p).values)
  BY <1>5, PlainKey
<1>7. Faith(At(p, "cookie"), D(p), clean[p], redis', cookie[sreq[p].v], kept[sreq[p].v])
  BY <1>1, <1>2, <1>3, <1>6 DEF Faith
<1> QED
  BY <1>2, <1>7, QuietKept

\* What a Start that is alone loads.
LEMMA StartLoads ==
  ASSUME KeptInv, NEW p \in SessionReqs, Active(p), sreq[p].pc = "start", clean[p].alone,
         NEW f \in InFront(D(p))
  PROVE  /\ Whole(D(p)) /\ Home(D(p).head) \in DOMAIN redis =>
              Keeps(redis, Home(D(p).head), LoadedValues(p, f))
         /\ kept[sreq[p].v] # Nil => LoadedValues(p, f) = Decoded(kept[sreq[p].v])
<1> DEFINE v == sreq[p].v
           k == Home(D(p).head)
<1>1. OwnInv /\ v \in Visitors /\ D(p).head \in Used
  BY DEF KeptInv, OwnInv, Working
<1>2. Faith(sreq[p], D(p), clean[p], redis, cookie[v], kept[v])
  BY DEF KeptInv, Faithful
<1>3. /\ kept[v] # Nil => ~sreq[p].new /\ D(p).head = cookie[v].who /\ Whole(D(p))
      /\ sreq[p].new => k \notin DOMAIN redis
      /\ Whole(D(p)) => D(p).tail = D(p).head
  BY <1>2 DEF Faith
<1>4. Whole(D(p)) => Key(D(p), f) = k
  BY <1>3, PlainKey
<1>5. ASSUME Whole(D(p)), k \in DOMAIN redis
      PROVE  /\ LoadedValues(p, f) = Decoded(redis[k].values)
             /\ Keeps(redis, k, LoadedValues(p, f))
  <2>1. LoadedValues(p, f) = Decoded(redis[k].values)
    BY <1>3, <1>4, <1>5 DEF LoadedValues, Found
  <2>2. PICK o \in Owners : OwnedBy(o)
    BY <1>1 DEF OwnInv, Owned
  <2>3. PICK u : redis[k].values \in Of(u)
    BY <1>5, <2>2 DEF OwnedBy, Saved
  <2>4. Decoded(Decoded(redis[k].values)) = Decoded(redis[k].values)
    BY <2>3, DecodedValues
  <2> QED
    BY <1>5, <2>1, <2>4 DEF Keeps
<1>6. ASSUME kept[v] # Nil PROVE LoadedValues(p, f) = Decoded(kept[v])
  <2>1. Resting(v)
    BY DEF KeptInv, AloneExact, Resting
  <2>2. Keeps(redis, k, kept[v])
    BY <1>1, <1>3, <1>6, <2>1 DEF KeptInv, AtRest
  <2> QED
    BY <1>3, <1>5, <1>6, <2>2 DEF Keeps
<1> QED
  BY <1>5, <1>6

LEMMA StartKept ==
  ASSUME KeptInv, NEW p \in SessionReqs, Start(p)
  PROVE  KeptInv'
<1>1. /\ OwnInv /\ Active(p) /\ sreq[p].pc = "start" /\ sreq[p].v \in Visitors
      /\ D(p) \in BlankDatas
  BY DEF KeptInv, Start, Active, OwnInv, Working
<1>2. PICK f \in InFront(D(p)) :
        /\ Step(p, StartData(p, f), At(p, "run"))
        /\ StartData(p, f).head = D(p).head /\ StartData(p, f).tail = D(p).tail
        /\ StartData(p, f).len = D(p).len /\ StartData(p, f).moved = D(p).moved
        /\ StartData(p, f).status = D(p).status /\ StartData(p, f).values = LoadedValues(p, f)
        /\ LoadedValues(p, f) \in Of(sreq[p].v)
        /\ clean' = [clean EXCEPT ![p].loaded = LoadedValues(p, f)]
  BY <1>1, StartStep
<1> DEFINE c == [clean[p] EXCEPT !.loaded = LoadedValues(p, f)]
           y == StartData(p, f)
<1>3. At(p, "run").pc = "run" /\ redis' = redis
  BY <1>1, RequestAt DEF Start
<1>4. clean[p] \in CleanTypes /\ clean' = [clean EXCEPT ![p] = c]
  BY <1>2 DEF KeptInv, KeptTyped
<1>5. c \in CleanTypes
  <2>1. LoadedValues(p, f) \in {NoValues} \cup UNION {Of(v) : v \in Visitors}
    BY <1>1, <1>2
  <2> QED
    BY <1>4, <2>1, Zenon DEF CleanTypes
<1>6. c.alone = clean[p].alone /\ c.loaded = LoadedValues(p, f)
  BY <1>4, Zenon DEF CleanTypes
<1>7. Whole(y) <=> Whole(D(p))
  BY <1>2 DEF Whole
<1>8. clean[p].alone =>
        /\ Whole(D(p)) => D(p).tail = D(p).head
        /\ Whole(D(p)) /\ Home(D(p).head) \in DOMAIN redis =>
             Keeps(redis, Home(D(p).head), LoadedValues(p, f))
        /\ kept[sreq[p].v] # Nil => LoadedValues(p, f) = Decoded(kept[sreq[p].v])
  <2>1. Faith(sreq[p], D(p), clean[p], redis, cookie[sreq[p].v], kept[sreq[p].v])
    BY <1>1 DEF KeptInv, Faithful
  <2>2. clean[p].alone /\ Whole(D(p)) => D(p).tail = D(p).head
    BY <2>1 DEF Faith
  <2> QED
    BY <1>1, <2>2, StartLoads
<1> HIDE DEF c, y
<1>9. /\ y.head = D(p).head /\ y.tail = D(p).tail /\ y.values = LoadedValues(p, f)
      /\ Step(p, y, At(p, "run"))
  BY <1>2 DEF y
<1>10. Faith(At(p, "run"), y, c, redis', cookie[sreq[p].v], kept[sreq[p].v])
  BY <1>3, <1>6, <1>7, <1>8, <1>9 DEF Faith
<1> QED
  BY <1>4, <1>5, <1>6, <1>9, <1>10, StepKept

\* An operation on the Data of a request marks it, leaves it without a whole token,
\* (Flush) notes that it was flushed, or (Destroy that fails) loses the session.
LEMMA OpKept ==
  ASSUME KeptInv, NEW p \in SessionReqs, sreq[p].pc = "run", NEW y, Step(p, y, Next1(p)),
         NEW c \in CleanTypes, clean' = [clean EXCEPT ![p] = c],
         c.alone = clean[p].alone, c.loaded = clean[p].loaded,
         Whole(y) => \/ y.status = "Modified" /\ y.tail = y.head
                     \/ y.head = D(p).head /\ y.tail = D(p).tail /\ Whole(D(p)) /\ c.flushed
                     \/ /\ y = D(p) /\ c.flushed = clean[p].flushed
                        /\ \A k \in DOMAIN redis' : k \in DOMAIN redis /\ redis'[k] = redis[k]
  PROVE  KeptInv'
<1>1. OwnInv /\ Active(p) /\ Next1(p).pc = "run"
  BY RequestOp DEF KeptInv, Active
<1>2. Faith(sreq[p], D(p), clean[p], redis, cookie[sreq[p].v], kept[sreq[p].v])
  BY <1>1 DEF KeptInv, Faithful
<1>3. ASSUME c.alone
      PROVE  /\ kept[sreq[p].v] # Nil => c.loaded = Decoded(kept[sreq[p].v])
             /\ Whole(y) =>
                  /\ y.tail = y.head
                  /\ y.status = "Unmodified" /\ ~c.flushed =>
                       (Home(y.head) \in DOMAIN redis' => Keeps(redis', Home(y.head), y.values))
  <2>1. kept[sreq[p].v] # Nil => c.loaded = Decoded(kept[sreq[p].v])
    BY <1>2, <1>3 DEF Faith
  <2>2. CASE Whole(y) /\ y.status = "Modified" /\ y.tail = y.head
    BY <2>1, <2>2
  <2>3. CASE Whole(y) /\ y.head = D(p).head /\ y.tail = D(p).tail /\ Whole(D(p)) /\ c.flushed
    BY <1>2, <1>3, <2>1, <2>3 DEF Faith
  <2>4. CASE /\ Whole(y) /\ y = D(p) /\ c.flushed = clean[p].flushed
             /\ \A k \in DOMAIN redis' : k \in DOMAIN redis /\ redis'[k] = redis[k]
    BY <1>2, <1>3, <2>1, <2>4 DEF Faith, Keeps
  <2> QED
    BY <2>1, <2>2, <2>3, <2>4
<1>4. Faith(Next1(p), y, c, redis', cookie[sreq[p].v], kept[sreq[p].v])
  BY <1>1, <1>3 DEF Faith
<1> QED
  BY <1>4, StepKept

\* One that leaves the history alone.
LEMMA MarkKept ==
  ASSUME KeptInv, NEW p \in SessionReqs, sreq[p].pc = "run", NEW y, Step(p, y, Next1(p)),
         clean' = clean,
         Whole(y) => \/ y.status = "Modified" /\ y.tail = y.head
                     \/ /\ y = D(p)
                        /\ \A k \in DOMAIN redis' : k \in DOMAIN redis /\ redis'[k] = redis[k]
  PROVE  KeptInv'
<1>1. clean[p] \in CleanTypes /\ clean' = [clean EXCEPT ![p] = clean[p]]
  BY DEF KeptInv, KeptTyped
<1> QED
  BY <1>1, OpKept

\* One that marks the Data and leaves its token alone; when the request is not
\* alone or the token is not whole there is nothing to show.
LEMMA EditKept ==
  ASSUME KeptInv, NEW p \in SessionReqs, sreq[p].pc = "run", NEW f \in Of(sreq[p].v),
         Step(p, Edited(D(p), f, "Modified"), Next1(p)), clean' = clean
  PROVE  KeptInv'
<1> DEFINE y == Edited(D(p), f, "Modified")
<1>1. OwnInv /\ Active(p) /\ D(p) \in DataOf(sreq[p].v)
  BY RunningData DEF KeptInv
<1>2. /\ y.head = D(p).head /\ y.tail = D(p).tail /\ y.len = D(p).len /\ y.moved = D(p).moved
      /\ y.status = "Modified"
  BY <1>1, EditData
<1>3. Faith(sreq[p], D(p), clean[p], redis, cookie[sreq[p].v], kept[sreq[p].v])
  BY <1>1 DEF KeptInv, Faithful
<1>4. clean[p] \in CleanTypes /\ clean' = [clean EXCEPT ![p] = clean[p]] /\ Next1(p).pc = "run"
  BY <1>1, RequestOp DEF KeptInv, KeptTyped
<1> HIDE DEF y
<1>5. Faith(Next1(p), y, clean[p], redis', cookie[sreq[p].v], kept[sreq[p].v])
  BY <1>2, <1>3, <1>4 DEF Faith, Whole
<1> QED
  BY <1>4, <1>5, StepKept DEF y

LEMMA FlushKept ==
  ASSUME KeptInv, NEW p \in SessionReqs, sreq[p].pc = "run", Flush(p)
  PROVE  KeptInv'
<1> DEFINE y == Edited(D(p), NoValues, D(p).status)
           c == [clean[p] EXCEPT !.flushed = TRUE]
<1>1. Step(p, y, Next1(p)) /\ NoValues \in Of(sreq[p].v)
  BY FlushStep DEF KeptInv
<1>2. /\ y.head = D(p).head /\ y.tail = D(p).tail /\ y.len = D(p).len /\ y.moved = D(p).moved
  BY <1>1, RunningData, EditData DEF KeptInv
<1>3. clean[p] \in CleanTypes /\ clean' = [clean EXCEPT ![p] = c]
  BY DEF Flush, KeptInv, KeptTyped
<1>4. TRUE \in BOOLEAN
  OBVIOUS
<1>5. c \in CleanTypes
  BY <1>3, <1>4, Zenon DEF CleanTypes
<1>6. c.alone = clean[p].alone /\ c.loaded = clean[p].loaded /\ c.flushed
  BY <1>3, Zenon DEF CleanTypes
<1> HIDE DEF y, c
<1> QED
  BY <1>1, <1>2, <1>3, <1>5, <1>6, OpKept DEF Whole

LEMMA DestroyKept ==
  ASSUME KeptInv, NEW p \in SessionReqs, sreq[p].pc = "run", NEW w \in BOOLEAN, Destroy(p, w)
  PROVE  KeptInv'
<1>1. Step(p, Emptied(D(p)), Next1(p))
  BY DestroyStep DEF KeptInv
<1>2. Emptied(D(p)).len = "cut"
  BY RunningData, EmptiedData DEF KeptInv
<1>3. clean[p] \in CleanTypes /\ clean' = [clean EXCEPT ![p] = clean[p]]
  BY DEF Destroy, KeptInv, KeptTyped
<1> QED
  BY <1>1, <1>2, <1>3, OpKept DEF Whole

LEMMA HandlerKept ==
  ASSUME KeptInv, NEW p \in SessionReqs, Handler(p)
  PROVE  KeptInv'
<1>0. OwnInv /\ sreq[p].pc = "run"
  BY DEF KeptInv, Handler
<1>1. ASSUME NEW k \in Keys, NEW type \in Types, Put(p, k, type) PROVE KeptInv'
  <2>1. clean' = clean
    BY <1>1 DEF Put
  <2> QED
    BY <1>0, <1>1, <2>1, PutStep, EditKept
<1>2. ASSUME NEW k \in Keys, Pop(p, k) PROVE KeptInv'
  <2>1. clean' = clean
    BY <1>2 DEF Pop
  <2> QED
    BY <1>0, <1>2, <2>1, PopStep, EditKept
<1>3. CASE Clear(p)
  <2>1. clean' = clean
    BY <1>3 DEF Clear
  <2> QED
    BY <1>0, <1>3, <2>1, ClearStep, EditKept
<1>4. CASE Flush(p)
  BY <1>0, <1>4, FlushKept
<1>5. ASSUME NEW destroy \in BOOLEAN, NEW flush \in BOOLEAN, Migrate(p, destroy, flush)
      PROVE  KeptInv'
  <2>1. PICK f \in Of(sreq[p].v) : Step(p, Migrated(D(p), drawn + 1, f), Next1(p))
    BY <1>0, <1>5, MigrateStep
  <2>2. PICK t \in Nat : t = drawn + 1
    BY <1>0 DEF OwnInv, SessionTyped
  <2>3. /\ Migrated(D(p), t, f).status = "Modified"
        /\ Migrated(D(p), t, f).tail = Migrated(D(p), t, f).head
    BY <1>0, RunningData, MigrateData
  <2>4. clean' = clean
    BY <1>5 DEF Migrate
  <2> QED
    BY <1>0, <2>1, <2>2, <2>3, <2>4, MarkKept
<1>6. ASSUME NEW w \in BOOLEAN, Destroy(p, w) PROVE KeptInv'
  BY <1>0, <1>6, DestroyKept
<1>7. ASSUME NEW w \in BOOLEAN, DestroyFails(p, w) PROVE KeptInv'
  <2>1. clean' = clean
    BY <1>7 DEF DestroyFails
  <2> QED
    BY <1>0, <1>7, <2>1, DestroyFailsStep, MarkKept
<1>8. ASSUME NEW t \in 1 .. drawn, MergeSession(p, t) PROVE KeptInv'
  <2>1. clean' = clean
    BY <1>8 DEF MergeSession
  <2> QED
    BY <1>0, <1>8, <2>1, MergeStep, EditKept
<1> QED
  BY <1>1, <1>2, <1>3, <1>4, <1>5, <1>6, <1>7, <1>8 DEF Handler

\* What getSession gives a request that is alone.
LEMMA TakeFaith ==
  ASSUME KeptInv, NEW p \in SessionReqs, NEW v \in Visitors, NEW d \in Datas, NEW text \in Texts(v),
         getSession(p, v, d, text), Others(p, v) = {}, text = cookie[v], ~data[d].moved,
         NEW c
  PROVE  Faith(NewRequest(v, d, text), TakenData(d, text), c, redis, cookie[v], kept[v])
<1> DEFINE x == TakenData(d, text)
           r == NewRequest(v, d, text)
<1>0. OwnInv /\ r.pc = "start" /\ (r.new <=> text = NoText)
  BY DEF KeptInv, NewRequest
<1>1. Taken(text) \in [who : Makers, len : AllLengths] /\ drawn \in Nat
  BY <1>0, TakenText
<1>2. data[d] \in DataOf(v)
  BY <1>0, TakeViews, BlankData
<1>3. /\ x.head = Taken(text).who /\ x.len = Taken(text).len
      /\ Taken(text).len = "full" => x.tail = x.head /\ ~x.moved
  BY <1>1, <1>2, TextData DEF TakenData
<1> HIDE DEF x, r
<1>4. Whole(x) => x.tail = x.head
  BY <1>3 DEF Whole
<1>5. kept[v] # Nil => ~r.new /\ x.head = cookie[v].who /\ Whole(x)
  <2> SUFFICES ASSUME kept[v] # Nil PROVE ~r.new /\ x.head = cookie[v].who /\ Whole(x)
    OBVIOUS
  <2>1. Resting(v)
    <3>1. \A q \in SessionReqs : Active(q) /\ sreq[q].v = v => q = p
      BY DEF Others, Active
    <3>2. ~Active(p)
      BY <1>0, TakeViews
    <3> QED
      BY <3>1, <3>2 DEF Resting
  <2>2. cookie[v].len = "full"
    BY <2>1 DEF KeptInv, AtRest
  <2>3. text # NoText /\ Taken(text) = cookie[v]
    BY <2>2, NotCut DEF Taken
  <2> QED
    BY <1>0, <1>3, <2>2, <2>3 DEF Whole
<1>6. r.new => Whole(x) /\ Home(x.head) \notin DOMAIN redis
  <2> SUFFICES ASSUME text = NoText PROVE Whole(x) /\ Home(x.head) \notin DOMAIN redis
    BY <1>0
  <2>1. PICK t \in Nat : t = drawn + 1
    BY <1>1
  <2>2. Taken(text).who = t /\ Taken(text).len = "full"
    BY <2>1, DrawnText DEF Taken
  <2>3. t \notin Used
    BY <1>1, <2>1, SessionAssumption DEF Used
  <2>4. PICK o : OwnedBy(o)
    BY <1>0 DEF OwnInv, Owned
  <2>5. Home(t)[2] = t
    BY DEF Home
  <2>6. Home(t) \notin DOMAIN redis
    BY <2>3, <2>4, <2>5 DEF OwnedBy
  <2> QED
    BY <1>3, <2>2, <2>6 DEF Whole
<1>7. Faith(r, x, c, redis, cookie[v], kept[v])
  BY <1>0, <1>4, <1>5, <1>6 DEF Faith
<1> QED
  BY <1>7 DEF x, r

LEMMA NotAlone ==
  ASSUME NEW x \in CleanTypes
  PROVE  [x EXCEPT !.alone = FALSE] \in CleanTypes /\ ~[x EXCEPT !.alone = FALSE].alone
<1>1. FALSE \in BOOLEAN
  OBVIOUS
<1>2. [x EXCEPT !.alone = FALSE] \in CleanTypes
  BY <1>1, Zenon DEF CleanTypes
<1>3. ~[x EXCEPT !.alone = FALSE].alone
  BY Zenon DEF CleanTypes
<1> QED
  BY <1>2, <1>3

LEMMA CleanNot ==
  /\ NotClean \in CleanTypes /\ ~NotClean.alone
  /\ \A b \in BOOLEAN : [NotClean EXCEPT !.alone = b] \in CleanTypes
                        /\ [NotClean EXCEPT !.alone = b].alone = b
<1>1. FALSE \in BOOLEAN
  OBVIOUS
<1>2. NotClean \in CleanTypes
  BY <1>1, Zenon DEF NotClean, CleanTypes
<1>3. ~NotClean.alone
  BY DEF NotClean
<1>4. ASSUME NEW b \in BOOLEAN
      PROVE  [NotClean EXCEPT !.alone = b] \in CleanTypes /\ [NotClean EXCEPT !.alone = b].alone = b
  <2>1. [NotClean EXCEPT !.alone = b] \in CleanTypes
    BY <1>2, Zenon DEF CleanTypes
  <2>2. [NotClean EXCEPT !.alone = b].alone = b
    BY <1>2, Zenon DEF CleanTypes
  <2> QED
    BY <2>1, <2>2
<1> QED
  BY <1>2, <1>3, <1>4

LEMMA TakeKept ==
  ASSUME KeptInv, NEW p \in SessionReqs, NEW v \in Visitors, NEW d \in Datas, NEW text \in Texts(v),
         getSession(p, v, d, text)
  PROVE  KeptInv'
<1>0. OwnInv /\ OwnInv'
  BY TakeOwn DEF KeptInv
<1>1. /\ ~Active(p) /\ Active(p)' /\ sreq'[p] = NewRequest(v, d, text) /\ sreq'[p].v = v
      /\ sreq'[p].pc = "start" /\ D(p)' = TakenData(d, text)
  BY <1>0, TakeViews
<1>2. cookie' = cookie /\ redis' = redis /\ kept' = kept
  BY DEF getSession
<1>3. \A q \in SessionReqs \ {p} :
        /\ sreq'[q] = sreq[q] /\ (Active(q)' <=> Active(q)) /\ (Active(q) => D(q)' = D(q))
  BY <1>0, TakeViews
<1>4. \A q \in SessionReqs \ {p} : q \in Others(p, v) <=> Active(q) /\ sreq[q].v = v
  BY DEF Others, Active
<1>5. PICK b \in BOOLEAN : b = (Others(p, v) = {} /\ text = cookie[v] /\ ~data[d].moved)
  OBVIOUS
<1> DEFINE c == [NotClean EXCEPT !.alone = b]
<1>6. clean' = [q \in SessionReqs |->
                  IF q = p THEN c
                  ELSE IF q \in Others(p, v) THEN [clean[q] EXCEPT !.alone = FALSE] ELSE clean[q]]
  BY <1>5 DEF getSession
<1>7. c \in CleanTypes /\ c.alone = b
  BY CleanNot
<1> HIDE DEF c
<1>8. \A q \in SessionReqs : clean[q] \in CleanTypes
  BY DEF KeptInv, KeptTyped
<1>9. /\ clean'[p] = c
      /\ \A q \in SessionReqs \ {p} : clean'[q].alone => q \notin Others(p, v) /\ clean'[q] = clean[q]
  BY <1>6, <1>8, NotAlone
<1>10. KeptTyped'
  <2>1. \A q \in SessionReqs : clean'[q] \in CleanTypes
    BY <1>6, <1>7, <1>8, NotAlone
  <2>2. clean' \in [SessionReqs -> CleanTypes]
    BY <1>6, <2>1
  <2> QED
    BY <1>2, <2>2 DEF KeptInv, KeptTyped
<1>11. AloneExact'
  <2> SUFFICES ASSUME NEW s \in SessionReqs, Active(s)', clean'[s].alone,
                      NEW q \in SessionReqs \ {s}, Active(q)'
               PROVE  sreq'[q].v # sreq'[s].v
    BY DEF AloneExact
  <2>1. CASE s = p
    <3>1. Others(p, v) = {}
      BY <1>5, <1>7, <1>9, <2>1
    <3> QED
      BY <1>1, <1>3, <1>4, <2>1, <3>1
  <2>2. CASE s # p /\ q = p
    BY <1>1, <1>3, <1>4, <1>9, <2>2
  <2>3. CASE s # p /\ q # p
    BY <1>3, <1>9, <2>3 DEF KeptInv, AloneExact
  <2> QED
    BY <2>1, <2>2, <2>3
<1>12. AtRest'
  <2> SUFFICES ASSUME NEW u \in Visitors, kept[u] # Nil, Resting(u)'
               PROVE  cookie[u].len = "full" /\ Keeps(redis, Home(cookie[u].who), kept[u])
    BY <1>2 DEF AtRest
  <2>1. Resting(u)
    BY <1>1, <1>3 DEF Resting
  <2> QED
    BY <2>1 DEF KeptInv, AtRest
<1>13. Faith(sreq'[p], D(p)', clean'[p], redis, cookie[v], kept[v])
  <2>1. CASE b
    BY <1>1, <1>5, <2>1, TakeFaith
  <2>2. CASE ~b
    BY <1>7, <1>9, <2>2 DEF Faith
  <2> QED
    BY <2>1, <2>2
<1>14. Faithful'
  <2> SUFFICES ASSUME NEW q \in SessionReqs, Active(q)', q # p
               PROVE  Faith(sreq'[q], D(q)', clean'[q], redis, cookie[sreq'[q].v], kept[sreq'[q].v])
    BY <1>1, <1>2, <1>13 DEF Faithful
  <2>1. Faith(sreq'[q], D(q)', clean[q], redis, cookie[sreq'[q].v], kept[sreq'[q].v])
    BY <1>3 DEF KeptInv, Faithful
  <2>2. CASE clean'[q].alone
    BY <1>9, <2>1, <2>2
  <2>3. CASE ~clean'[q].alone
    BY <2>3 DEF Faith
  <2> QED
    BY <2>2, <2>3
<1> QED
  BY <1>0, <1>10, <1>11, <1>12, <1>14 DEF KeptInv

\* The end of a request: the history of the others stays.
LEMMA EndsKept ==
  ASSUME KeptInv, NEW p \in SessionReqs, Ends(p), clean' = [clean EXCEPT ![p] = NotClean],
         \A q \in SessionReqs \ {p} : Active(q) => D(q)' = D(q),
         \A k : Same(k),
         \A u \in Visitors : u # sreq[p].v => cookie'[u] = cookie[u] /\ kept'[u] = kept[u]
  PROVE  clean' \in [SessionReqs -> CleanTypes] /\ AloneExact' /\ Faithful'
<1>0. OwnInv /\ Active(p)
  BY DEF KeptInv, Ends
<1>1. /\ ~Active(p)'
      /\ \A q \in SessionReqs \ {p} : sreq'[q] = sreq[q] /\ (Active(q)' <=> Active(q))
  BY <1>0, EndsViews
<1>2. /\ clean' \in [SessionReqs -> CleanTypes] /\ ~clean'[p].alone
      /\ \A q \in SessionReqs \ {p} : clean'[q] = clean[q]
  BY CleanNot DEF KeptInv, KeptTyped
<1>3. AloneExact'
  BY <1>1, <1>2 DEF KeptInv, AloneExact
<1>4. Faithful'
  <2> SUFFICES ASSUME NEW q \in SessionReqs, q # p, Active(q)
               PROVE  Faith(sreq[q], D(q), clean[q], redis', cookie'[sreq[q].v], kept'[sreq[q].v])
    BY <1>1, <1>2 DEF Faithful
  <2>1. Faith(sreq[q], D(q), clean[q], redis', cookie[sreq[q].v], kept[sreq[q].v])
    BY FaithSame DEF KeptInv, Faithful
  <2>2. CASE clean[q].alone
    <3>1. sreq[q].v # sreq[p].v /\ sreq[q].v \in Visitors
      BY <1>0, <2>2 DEF KeptInv, AloneExact, OwnInv, Working
    <3> QED
      BY <2>1, <3>1
  <2>3. CASE ~clean[q].alone
    BY <2>3 DEF Faith
  <2> QED
    BY <2>2, <2>3
<1> QED
  BY <1>2, <1>3, <1>4

LEMMA DecodeFailsKept ==
  ASSUME KeptInv, NEW p \in SessionReqs, DecodeFails(p)
  PROVE  KeptInv'
<1>0. OwnInv /\ OwnInv'
  BY DecodeFailsOwn DEF KeptInv
<1>1. /\ Ends(p) /\ sreq[p].pc = "start" /\ UNCHANGED <<cookie, data, kept>>
      /\ clean' = [clean EXCEPT ![p] = NotClean] /\ \A k : Same(k)
  BY <1>0, DecodeFailsViews
<1>2. \A q \in SessionReqs \ {p} : sreq'[q] = sreq[q] /\ (Active(q)' <=> Active(q)) /\ D(q)' = D(q)
  BY <1>0, <1>1, EndsViews DEF D
<1>3. clean' \in [SessionReqs -> CleanTypes] /\ AloneExact' /\ Faithful'
  BY <1>1, <1>2, EndsKept
<1>4. AtRest'
  <2> SUFFICES ASSUME NEW u \in Visitors, kept[u] # Nil, Resting(u)'
               PROVE  cookie[u].len = "full" /\ Keeps(redis', Home(cookie[u].who), kept[u])
    BY <1>1 DEF AtRest
  <2>1. Resting(u)
    BY <1>1, <1>2 DEF Resting
  <2>2. cookie[u].len = "full" /\ Keeps(redis, Home(cookie[u].who), kept[u])
    BY <2>1 DEF KeptInv, AtRest
  <2> QED
    BY <1>1, <2>2, KeepsSame
<1> QED
  BY <1>0, <1>1, <1>3, <1>4 DEF KeptInv, KeptTyped

LEMMA ReleaseKept ==
  ASSUME KeptInv, NEW p \in SessionReqs, Release(p)
  PROVE  KeptInv'
<1> DEFINE v == sreq[p].v
<1>0. OwnInv /\ OwnInv'
  BY ReleaseOwn DEF KeptInv
<1>1. /\ Ends(p) /\ Active(p) /\ clean' = [clean EXCEPT ![p] = NotClean] /\ redis' = redis
      /\ sreq[p].v \in Visitors /\ D(p) \in DataOf(sreq[p].v)
      /\ \A q \in SessionReqs \ {p} : Active(q) => D(q)' = D(q)
  BY <1>0, ReleaseViews DEF Release, OwnInv, Working, Ends
<1>2. /\ ~Active(p)'
      /\ \A q \in SessionReqs \ {p} : sreq'[q] = sreq[q] /\ (Active(q)' <=> Active(q))
  BY <1>0, <1>1, EndsViews
<1>3. \A u \in Visitors : u # v => cookie'[u] = cookie[u] /\ kept'[u] = kept[u]
  <2>1. cookie' = cookie \/ \E t : cookie' = [cookie EXCEPT ![sreq[p].v] = t]
    BY DEF Release
  <2>2. \E f : kept' = [kept EXCEPT ![sreq[p].v] = f]
    BY DEF Release
  <2> QED
    BY <1>0, <2>1, <2>2 DEF OwnInv, SessionTyped, KeptInv, KeptTyped
<1>4. \A k : Same(k)
  BY <1>1 DEF Same
<1>5. clean' \in [SessionReqs -> CleanTypes] /\ AloneExact' /\ Faithful'
  BY <1>1, <1>3, <1>4, EndsKept
<1>6. KeptTyped'
  BY <1>5 DEF Release, KeptInv, KeptTyped
<1>7. AtRest'
  <2> SUFFICES ASSUME NEW u \in Visitors, kept'[u] # Nil, Resting(u)'
               PROVE  cookie'[u].len = "full" /\ Keeps(redis, Home(cookie'[u].who), kept'[u])
    BY <1>1 DEF AtRest
  <2>1. CASE u # v
    <3>1. Resting(u)
      BY <1>1, <1>2, <2>1 DEF Resting
    <3> QED
      BY <1>3, <2>1, <3>1 DEF KeptInv, AtRest
  <2>2. CASE u = v
    <3>1. kept'[u] = IF sreq[p].pc = "failed" THEN Nil ELSE Left(p)
      BY <1>1, <2>2 DEF Release, KeptInv, KeptTyped
    <3>2. /\ sreq[p].pc = "cookie" /\ clean[p].alone /\ Whole(D(p))
          /\ ~(clean[p].flushed /\ D(p).status = "Unmodified")
          /\ kept'[u] = D(p).values
      BY <3>1 DEF Release, Left, Whole
    <3>3. D(p).status # "Destroyed"
      <4>1. D(p).status \in {"Unmodified", "Modified"}
        BY <1>1, DataFields
      <4> QED
        BY <4>1
    <3>4. cookie' = [cookie EXCEPT ![sreq[p].v] = Token(D(p))]
      BY <3>2, <3>3 DEF Release
    <3>5. Token(D(p)) = [who |-> D(p).head, len |-> "full"]
      BY <3>2 DEF Token, Whole
    <3>6. cookie'[u].who = D(p).head /\ cookie'[u].len = "full"
      BY <1>0, <2>2, <3>4, <3>5 DEF OwnInv, SessionTyped
    <3>7. Faith(sreq[p], D(p), clean[p], redis, cookie[sreq[p].v], kept[sreq[p].v])
      BY <1>1 DEF KeptInv, Faithful
    <3>8. Keeps(redis, Home(D(p).head), D(p).values)
      BY <3>2, <3>7 DEF Faith
    <3> QED
      BY <3>2, <3>6, <3>8
  <2> QED
    BY <2>1, <2>2
<1> QED
  BY <1>0, <1>5, <1>6, <1>7 DEF KeptInv

LEMMA ExpireKept ==
  ASSUME KeptInv, NEW k \in DOMAIN redis, Expire(k)
  PROVE  KeptInv'
<1>0. OwnInv /\ OwnInv'
  BY ExpireOwn DEF KeptInv
<1>1. UNCHANGED <<cookie, data, sreq>> /\ \A j : j # k => Same(j)
  BY DEF Expire, Deleted, Same
<1>2. \A p \in SessionReqs : (Active(p)' <=> Active(p)) /\ D(p)' = D(p)
  BY <1>1 DEF Active, D
<1>3. \A t : t # k[2] => Same(Home(t))
  <2>1. \A t : Home(t)[2] = t
    BY DEF Home
  <2> QED
    BY <1>1, <2>1
<1>4. /\ kept' = [v \in Visitors |-> kept'[v]]
      /\ \A v \in Visitors : kept'[v] # Nil => kept'[v] = kept[v] /\ cookie[v].who # k[2]
  BY DEF Expire
<1>5. \A q \in SessionReqs : clean[q] \in CleanTypes
  BY DEF KeptInv, KeptTyped
<1>6. clean' = [p \in SessionReqs |-> IF Active(p) /\ D(p).head = k[2]
                                     THEN [clean[p] EXCEPT !.alone = FALSE] ELSE clean[p]]
  BY DEF Expire, Active
<1>7. \A p \in SessionReqs :
        /\ clean'[p] \in CleanTypes
        /\ clean'[p].alone => clean'[p] = clean[p] /\ (Active(p) => D(p).head # k[2])
  BY <1>5, <1>6, NotAlone
<1>8. KeptTyped'
  BY <1>4, <1>6, <1>7 DEF KeptTyped
<1>9. AloneExact'
  BY <1>1, <1>2, <1>7 DEF KeptInv, AloneExact
<1>10. AtRest'
  <2> SUFFICES ASSUME NEW v \in Visitors, kept'[v] # Nil, Resting(v)'
               PROVE  cookie[v].len = "full" /\ Keeps(redis', Home(cookie[v].who), kept'[v])
    BY <1>1 DEF AtRest
  <2>1. Resting(v)
    BY <1>1, <1>2 DEF Resting
  <2>2. cookie[v].len = "full" /\ Keeps(redis, Home(cookie[v].who), kept[v])
    BY <1>4, <2>1 DEF KeptInv, AtRest
  <2> QED
    BY <1>3, <1>4, <2>2, KeepsSame
<1>11. Faithful'
  <2> SUFFICES ASSUME NEW p \in SessionReqs, Active(p)
               PROVE  Faith(sreq[p], D(p), clean'[p], redis', cookie[sreq[p].v], kept'[sreq[p].v])
    BY <1>1, <1>2 DEF Faithful
  <2>1. CASE clean'[p].alone
    <3>1. Same(Home(D(p).head)) /\ clean'[p] = clean[p] /\ sreq[p].v \in Visitors
      BY <1>0, <1>3, <1>7, <2>1 DEF OwnInv, Working
    <3>2. Faith(sreq[p], D(p), clean[p], redis, cookie[sreq[p].v], kept[sreq[p].v])
      BY DEF KeptInv, Faithful
    <3>3. Faith(sreq[p], D(p), clean[p], redis', cookie[sreq[p].v], kept[sreq[p].v])
      BY <3>1, <3>2, FaithSame
    <3>4. Faith(sreq[p], D(p), clean[p], redis', cookie[sreq[p].v], Nil)
      BY <3>3 DEF Faith
    <3>5. kept'[sreq[p].v] = Nil \/ kept'[sreq[p].v] = kept[sreq[p].v]
      BY <1>4, <3>1
    <3> QED
      BY <3>1, <3>3, <3>4, <3>5
  <2>2. CASE ~clean'[p].alone
    BY <2>2 DEF Faith
  <2> QED
    BY <2>1, <2>2
<1> QED
  BY <1>0, <1>8, <1>9, <1>10, <1>11 DEF KeptInv

LEMMA KeptStarts == SessionInit => KeptInv
<1> SUFFICES ASSUME SessionInit PROVE KeptInv
  OBVIOUS
<1>1. \A p \in SessionReqs : ~Active(p)
  BY DEF SessionInit, Active, NoRequest
<1>2. KeptTyped
  BY CleanNot DEF SessionInit, KeptTyped
<1>3. Faithful /\ AloneExact
  BY <1>1 DEF Faithful, AloneExact
<1>4. AtRest
  BY DEF SessionInit, AtRest
<1> QED
  BY <1>2, <1>3, <1>4, OwnStarts DEF KeptInv

LEMMA NextKept == KeptInv /\ [SessionNext]_sessionVars => KeptInv'
<1> SUFFICES ASSUME KeptInv, [SessionNext]_sessionVars PROVE KeptInv'
  OBVIOUS
<1>1. ASSUME NEW p \in SessionReqs, NEW v \in Visitors, NEW d \in Datas, NEW text \in Texts(v),
             getSession(p, v, d, text)
      PROVE  KeptInv'
  BY <1>1, TakeKept
<1>2. ASSUME UNCHANGED sessionVars PROVE KeptInv'
  <2>1. OwnInv'
    BY NextOwn DEF KeptInv
  <2>2. \A p \in SessionReqs : (Active(p)' <=> Active(p)) /\ D(p)' = D(p)
    BY <1>2 DEF sessionVars, Active, D
  <2>3. \A v \in Visitors : Resting(v)' <=> Resting(v)
    BY <1>2, <2>2 DEF sessionVars, Resting
  <2> QED
    BY <1>2, <2>1, <2>2, <2>3 DEF sessionVars, KeptInv, KeptTyped, Faithful, AloneExact, AtRest
<1> QED
  BY <1>1, <1>2, StartKept, DecodeFailsKept, StoreFailsKept, HandlerKept, HandledKept, ExpireatKept,
     SetKept, ReleaseKept, ExpireKept DEF SessionNext, Texts

\* A client that sends the cookie it was given, one request at a time, finds in the
\* session what its last request left, as the codec gives it back, whatever the
\* handlers did and other clients do meanwhile; the exceptions are those of
\* SessionKept.
THEOREM SessionsAreKept == SessionSpec => []SessionKept
<1>1. KeptInv => SessionKept
  BY DEF KeptInv, Faithful, Faith, Active, SessionKept
<1> QED
  BY <1>1, KeptStarts, NextKept, PTL DEF SessionSpec
=============================================================================
