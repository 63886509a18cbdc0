----------------------------- MODULE RouteStore -----------------------------
(***************************************************************************)
(* The radix tree of src/fasthttp-routing/store.go, as operators on node   *)
(* values.  A key is a sequence of symbols: a static character, or a       *)
(* parameter token such as <id> (one symbol: tokens are compared whole).   *)
(***************************************************************************)
EXTENDS Integers, Sequences, SequencesExt

CONSTANTS Tokens,    \* [token -> [name, pattern]], pattern in {"", "digits", "all"}
          Slash,
          Digits     \* the characters the regular expression \d matches

Blank == <<>>                \* the empty parameter value
NoData == 0
MaxOrder == 1000             \* math.MaxInt32

\* type node; minOrder, pindex and pnames as in the code, pindex from -1
Node(static, key, order, pindex, pnames) ==
  [static |-> static, key |-> key, data |-> NoData, order |-> 0, minOrder |-> order,
   children |-> <<>>, pchildren |-> <<>>, pindex |-> pindex, pnames |-> pnames]

newStore == [root |-> Node(TRUE, <<>>, 0, -1, <<>>), count |-> 0]

Rest(key, m) == SubSeq(key, m + 1, Len(key))

RECURSIVE addChild(_, _, _, _)

\* addChild, "add param node": key begins with a token
addParam(n, key, data, order) ==
  LET names == Append(n.pnames, Tokens[Head(key)].name)
      child == Node(FALSE, <<Head(key)>>, order, Len(names) - 1, names)
      sub == IF Len(key) = 1
             THEN [n |-> [child EXCEPT !.data = data, !.order = order], pn |-> Len(names)]
             ELSE addChild(child, Tail(key), data, order)
  IN [n |-> [n EXCEPT !.pchildren = Append(@, sub.n)], pn |-> sub.pn]

\* (*node).addChild: the new node n and the number of parameters pn
addChild(n, key, data, order) ==
  LET p == SelectInSeq(key, LAMBDA c : c \in DOMAIN Tokens)
      child == Node(TRUE, IF p = 0 THEN key ELSE SubSeq(key, 1, p - 1), order, n.pindex, n.pnames)
      sub == IF p = 0 THEN [n |-> [child EXCEPT !.data = data, !.order = order],
                            pn |-> n.pindex + 1]
                      ELSE addParam(child, Rest(key, p - 1), data, order)
  IN IF p = 1 THEN addParam(n, key, data, order)
     ELSE [n |-> [n EXCEPT !.children = (Head(key) :> sub.n) @@ @], pn |-> sub.pn]

\* The length of the longest common prefix
Matched(s, t) == Len(LongestCommonPrefix({s, t}))

\* (*node).add, "split the node key": n keeps the first m symbols of its key
Split(n, m) ==
  LET n1 == [n EXCEPT !.key = Rest(n.key, m)]
  IN [n EXCEPT !.key = SubSeq(@, 1, m), !.data = NoData, !.pchildren = <<>>,
               !.children = Head(n1.key) :> n1]

RECURSIVE add(_, _, _, _)

\* (*node).add: pn = -1 when the key does not belong under n
add(n, key, data, order) ==
  LET m == Matched(key, n.key)
      rest == Rest(key, m)
      Takers == {i \in DOMAIN n.pchildren : add(n.pchildren[i], rest, data, order).pn >= 0}
  IN CASE m = Len(n.key) /\ m = Len(key) ->
            [n |-> IF n.data = NoData THEN [n EXCEPT !.data = data, !.order = order] ELSE n,
             pn |-> n.pindex + 1]
       [] m = Len(n.key) /\ m < Len(key) ->
            IF Head(rest) \in DOMAIN n.children
            THEN LET sub == add(n.children[Head(rest)], rest, data, order)
                 IN [n |-> [n EXCEPT !.children[Head(rest)] = sub.n], pn |-> sub.pn]
            ELSE IF Takers # {}
            THEN LET i == Min(Takers)
                     sub == add(n.pchildren[i], rest, data, order)
                 IN [n |-> [n EXCEPT !.pchildren[i] = sub.n], pn |-> sub.pn]
            ELSE addChild(n, rest, data, order)
       [] m < Len(n.key) /\ (m = 0 \/ ~n.static) -> [n |-> n, pn |-> -1]
       [] OTHER -> add(Split(n, m), key, data, order)

\* (*store).Add: the new store s and the number of parameters of the key
Add(s, key, data) ==
  LET r == add(s.root, key, data, s.count + 1)
  IN [s |-> [root |-> r.n, count |-> s.count + 1], pn |-> r.pn]

\* How much of key a token takes: -1 if its regular expression does not match
Taken(token, key) ==
  LET end == SelectInSeq(key, LAMBDA c : c = Slash)
      stop == SelectInSeq(key, LAMBDA c : c \notin Digits)
      digits == IF stop = 0 THEN Len(key) ELSE stop - 1
  IN CASE Tokens[token].pattern = "all" -> Len(key)
       [] Tokens[token].pattern = "digits" -> IF digits = 0 THEN -1 ELSE digits
       [] OTHER -> IF end = 0 THEN Len(key) ELSE end - 1

NoMatch(pvalues) == [data |-> NoData, pnames |-> <<>>, order |-> MaxOrder, pvalues |-> pvalues]

\* (*node).get, the match of a child against the best one so far, acc: a better
\* one replaces it, with its values copied out of a slice of its own if alloc
Better(acc, alloc, child, r) ==
  LET left == [acc EXCEPT !.allocated = alloc, !.tvalues = r.pvalues]
      copied == [i \in DOMAIN acc.pvalues |->
                   IF i \in child.pindex + 1 .. Len(r.pnames) THEN r.pvalues[i] ELSE acc.pvalues[i]]
  IN IF r.data # NoData /\ r.order < acc.order
     THEN [left EXCEPT !.data = r.data, !.pnames = r.pnames, !.order = r.order,
                       !.pvalues = IF alloc THEN copied ELSE r.pvalues]
     ELSE IF alloc THEN left ELSE [left EXCEPT !.pvalues = r.pvalues]

RECURSIVE get(_, _, _)
RECURSIVE TryChildren(_, _, _)

\* Mutant: the children write into the slice of the match found before.
TryChildShared(key, acc, child) ==
  IF child.minOrder >= acc.order THEN acc
  ELSE Better(acc, FALSE, child, get(child, key, acc.pvalues))

\* (*node).get, "try matching param children": one child after the match acc.
\* Once there is a match the children write into a slice of their own.
TryChild(key, acc, child) ==
  LET alloc == acc.allocated \/ acc.data # NoData
      tvalues == IF acc.allocated THEN acc.tvalues
                 ELSE IF alloc THEN [i \in DOMAIN acc.pvalues |-> Blank] ELSE acc.pvalues
  IN IF child.minOrder >= acc.order THEN acc
     ELSE Better(acc, alloc, child, get(child, key, tvalues))

TryChildren(key, acc, children) ==
  IF children = <<>> THEN acc
  ELSE TryChildren(key, TryChild(key, acc, Head(children)), Tail(children))

\* How much of key the node itself takes, -1 if it does not match
TakenBy(n, key) ==
  IF ~n.static THEN Taken(Head(n.key), key)
  ELSE IF IsPrefix(n.key, key) THEN Len(n.key) ELSE -1

\* (*node).get after the node took its part: a static child or the node's own
\* data, then the parameter children
getRest(n, key, pvalues) ==
  LET Found(r) == [data |-> r.data, pnames |-> r.pnames, order |-> r.order,
                   pvalues |-> r.pvalues, tvalues |-> <<>>, allocated |-> FALSE]
      Own == [NoMatch(pvalues) EXCEPT !.data = n.data, !.pnames = n.pnames, !.order = n.order]
  IN TryChildren(key,
                 Found(CASE key # <<>> /\ Head(key) \in DOMAIN n.children ->
                              get(n.children[Head(key)], key, pvalues)
                         [] key = <<>> /\ n.data # NoData -> Own
                         [] OTHER -> NoMatch(pvalues)),
                 n.pchildren)

\* (*node).get: data, names and order of the match, and the slice as it leaves it
get(n, key, pvalues) ==
  LET k == TakenBy(n, key)
  IN IF k < 0 THEN NoMatch(pvalues)
     ELSE getRest(n, Rest(key, k),
                  IF n.static THEN pvalues
                  ELSE [pvalues EXCEPT ![n.pindex + 1] = SubSeq(key, 1, k)])

\* (*store).Get
Get(s, path, pvalues) == get(s.root, path, pvalues)

-----------------------------------------------------------------------------
RECURSIVE KeyValues(_, _)

\* The reference: the parameter values with which key matches path, one
\* token after the other, or <<"no">> as the last of them
KeyValues(key, path) ==
  CASE key = <<>> -> IF path = <<>> THEN <<>> ELSE << <<"no">> >>
    [] key # <<>> /\ Head(key) \in DOMAIN Tokens ->
         LET k == Taken(Head(key), path)
         IN IF k < 0 THEN << <<"no">> >>
            ELSE <<SubSeq(path, 1, k)>> \o KeyValues(Tail(key), Rest(path, k))
    [] OTHER -> IF path # <<>> /\ Head(path) = Head(key) THEN KeyValues(Tail(key), Tail(path))
                ELSE << <<"no">> >>

Matches(key, path) == LET v == KeyValues(key, path) IN v = <<>> \/ Last(v) # <<"no">>
=============================================================================
