-------------------------- MODULE WorkerPoolProofs --------------------------
(***************************************************************************)
(* Proofs about WorkerPool, for every number of workers and connections    *)
(* and both kinds of channels: what the binary search of clean finds, that *)
(* a waiting worker is promised one message, and that a connection is with *)
(* one worker.                                                             *)
(***************************************************************************)
EXTENDS WorkerPool, SeqLemmas, FiniteSetTheorems

-----------------------------------------------------------------------------
(* The binary search.                                                      *)

\* The pairs (l, r) the search meets, how many workers lie between them, and
\* the body of the loop.
Pairs == (0..Len(ready)) \X (-1..(Len(ready) - 1))
Size(x) == IF x[1] > x[2] THEN 0 ELSE x[2] - x[1] + 1
Mid(x) == (x[1] + x[2]) \div 2
Loop(g, x) ==
  IF x[1] > x[2] THEN x[2]
  ELSE IF Before(Mid(x)) THEN g[<<Mid(x) + 1, x[2]>>]
  ELSE g[<<x[1], Mid(x) - 1>>]

\* A probe that is not the last leaves a smaller part of the list.
LEMMA ProbeShrinks ==
  ASSUME ready \in Seq(Workers), NEW x \in Pairs, x[1] <= x[2]
  PROVE  /\ Mid(x) \in 0..(Len(ready) - 1) /\ x[1] <= Mid(x) /\ Mid(x) <= x[2]
         /\ <<Mid(x) + 1, x[2]>> \in Pairs /\ Size(<<Mid(x) + 1, x[2]>>) < Size(x)
         /\ <<x[1], Mid(x) - 1>> \in Pairs /\ Size(<<x[1], Mid(x) - 1>>) < Size(x)
         /\ Size(x) \in Nat /\ Size(x) <= Len(ready)
<1>0. Len(ready) \in Nat /\ x[1] \in 0..Len(ready) /\ x[2] \in -1..(Len(ready) - 1)
  BY DEF Pairs
<1>1. Mid(x) \in Int /\ x[1] <= Mid(x) /\ Mid(x) <= x[2]
  BY <1>0 DEF Mid
<1>2. <<Mid(x) + 1, x[2]>> \in Pairs /\ <<x[1], Mid(x) - 1>> \in Pairs
  BY <1>0, <1>1 DEF Pairs
<1>3. Size(x) = x[2] - x[1] + 1
  BY <1>0 DEF Size
<1>4. Size(<<Mid(x) + 1, x[2]>>) < Size(x)
  BY <1>0, <1>1, <1>3 DEF Size
<1>5. Size(<<x[1], Mid(x) - 1>>) < Size(x)
  BY <1>0, <1>1, <1>3 DEF Size
<1> QED
  BY <1>0, <1>1, <1>2, <1>3, <1>4, <1>5

\* The search ends: there is a function that is its own result of the loop.
LEMMA SearchEnds ==
  ASSUME ready \in Seq(Workers)
  PROVE  \E g : g = [x \in Pairs |-> Loop(g, x)]
<1> DEFINE n == Len(ready)
           Upto(g, d) == \A x \in Pairs : Size(x) <= d => g[x] = Loop(g, x)
           S == {d \in Nat : \E g \in [Pairs -> Int] : Upto(g, d)}
<1>0. n \in Nat /\ \A x \in Pairs : /\ x[1] \in Int /\ x[2] \in Int
                                    /\ Size(x) \in Nat /\ Size(x) <= n
  BY DEF Pairs, Size
<1>1. 0 \in S
  <2> DEFINE g == [x \in Pairs |-> x[2]]
  <2>1. g \in [Pairs -> Int]
    BY <1>0
  <2>2. ASSUME NEW x \in Pairs, Size(x) <= 0 PROVE g[x] = Loop(g, x)
    <3>1. x[1] > x[2]
      BY <1>0, <2>2 DEF Size
    <3> QED
      BY <3>1 DEF Loop
  <2> HIDE DEF g
  <2>3. Upto(g, 0)
    BY <2>2
  <2> QED
    BY <2>1, <2>3
<1>2. ASSUME NEW d \in Nat, d \in S PROVE d + 1 \in S
  <2>1. PICK g \in [Pairs -> Int] : Upto(g, d)
    BY <1>2
  <2> DEFINE h == [x \in Pairs |-> IF Size(x) <= d THEN g[x] ELSE Loop(g, x)]
  <2>2. ASSUME NEW x \in Pairs PROVE Loop(g, x) \in Int
    <3>1. CASE x[1] > x[2]
      BY <1>0, <3>1 DEF Loop
    <3>2. CASE x[1] <= x[2]
      <4>1. <<Mid(x) + 1, x[2]>> \in Pairs /\ <<x[1], Mid(x) - 1>> \in Pairs
        BY <3>2, ProbeShrinks
      <4>2. g[<<Mid(x) + 1, x[2]>>] \in Int /\ g[<<x[1], Mid(x) - 1>>] \in Int
        BY <4>1
      <4> QED
        BY <1>0, <4>2 DEF Loop
    <3> QED
      BY <1>0, <3>1, <3>2
  <2>3. h \in [Pairs -> Int]
    BY <2>2
  <2>4. ASSUME NEW x \in Pairs, Size(x) <= d + 1 PROVE h[x] = Loop(h, x)
    <3>1. h[x] = Loop(g, x)
      BY <2>1
    <3>2. CASE x[1] > x[2]
      BY <3>1, <3>2 DEF Loop
    <3>3. CASE x[1] <= x[2]
      <4> DEFINE y == <<Mid(x) + 1, x[2]>>
                 z == <<x[1], Mid(x) - 1>>
      <4>1. y \in Pairs /\ z \in Pairs /\ Size(y) < Size(x) /\ Size(z) < Size(x)
        BY <3>3, ProbeShrinks
      <4>2. Size(y) \in Nat /\ Size(z) \in Nat /\ Size(x) \in Nat
        BY <1>0, <4>1
      <4>3. Size(y) <= d /\ Size(z) <= d
        BY <2>4, <4>1, <4>2
      <4>4. h[y] = g[y] /\ h[z] = g[z]
        BY <4>1, <4>3
      <4> QED
        BY <3>1, <3>3, <4>4 DEF Loop
    <3> QED
      BY <1>0, <3>2, <3>3
  <2> HIDE DEF h
  <2>5. Upto(h, d + 1)
    BY <2>4
  <2> QED
    BY <2>3, <2>5
<1> HIDE DEF S
<1>3. n \in S
  BY <1>0, <1>1, <1>2, Induction
<1>4. PICK g \in [Pairs -> Int] : Upto(g, n)
  BY <1>3 DEF S
<1>5. g = [x \in Pairs |-> Loop(g, x)]
  BY <1>0, <1>4
<1> QED
  BY <1>5

\* So the search is that function.
LEMMA SearchUnfolds ==
  ASSUME ready \in Seq(Workers)
  PROVE  \A x \in Pairs : SearchFrom[x] = Loop(SearchFrom, x)
<1>1. SearchFrom = CHOOSE g : g = [x \in Pairs |-> Loop(g, x)]
  BY DEF SearchFrom, Pairs, Loop, Mid
<1>2. SearchFrom = [x \in Pairs |-> Loop(SearchFrom, x)]
  BY <1>1, SearchEnds
<1> QED
  BY <1>2

\* What the loop of clean answers when it starts at l and r: an index in the
\* slice; and if the workers below l are obsolete, those above r are not and
\* none is obsolete after one that is not, the last obsolete one.
Answers(x) ==
  /\ SearchFrom[x] \in -1..(Len(ready) - 1)
  /\ /\ \A i, j \in 0..(Len(ready) - 1) : i <= j /\ Before(j) => Before(i)
     /\ \A i \in 0..(Len(ready) - 1) : (i < x[1] => Before(i)) /\ (i > x[2] => ~Before(i))
     => \A i \in 0..(Len(ready) - 1) : Before(i) <=> i <= SearchFrom[x]

\* By induction on the number of workers between l and r.
LEMMA SearchAnswers ==
  ASSUME ready \in Seq(Workers)
  PROVE  \A x \in Pairs : Answers(x)
<1> DEFINE n == Len(ready)
           S == {d \in Nat : \A x \in Pairs : Size(x) <= d => Answers(x)}
<1>0. n \in Nat /\ \A x \in Pairs : /\ x[1] \in 0..n /\ x[2] \in -1..(n - 1)
                                    /\ Size(x) \in Nat /\ Size(x) <= n
  BY DEF Pairs, Size
<1>1. ASSUME NEW x \in Pairs, x[1] > x[2] PROVE Answers(x)
  <2>1. SearchFrom[x] = x[2]
    BY <1>1, SearchUnfolds DEF Loop
  <2> QED
    BY <1>0, <1>1, <2>1 DEF Answers
<1>2. 0 \in S
  <2>1. ASSUME NEW x \in Pairs, Size(x) <= 0 PROVE x[1] > x[2]
    BY <1>0, <2>1 DEF Size
  <2> QED
    BY <1>1, <2>1
<1>3. ASSUME NEW d \in Nat, d \in S PROVE d + 1 \in S
  <2> SUFFICES ASSUME NEW x \in Pairs, Size(x) <= d + 1, x[1] <= x[2] PROVE Answers(x)
    BY <1>0, <1>1
  <2> DEFINE m == Mid(x)
             y == <<m + 1, x[2]>>
             z == <<x[1], m - 1>>
  <2>1. /\ m \in 0..(n - 1) /\ x[1] <= m /\ m <= x[2]
        /\ y \in Pairs /\ z \in Pairs /\ Size(y) < Size(x) /\ Size(z) < Size(x)
    BY ProbeShrinks
  <2>2. Size(y) \in Nat /\ Size(z) \in Nat /\ Size(x) \in Nat
    BY <1>0, <2>1
  <2>3. Size(y) <= d /\ Size(z) <= d
    BY <2>1, <2>2
  <2>4. Answers(y) /\ Answers(z)
    BY <1>3, <2>1, <2>3
  <2>5. x[1] \in Int /\ x[2] \in Int /\ ~(x[1] > x[2])
    BY <1>0
  <2>6. y[1] = m + 1 /\ y[2] = x[2] /\ z[1] = x[1] /\ z[2] = m - 1
    OBVIOUS
  <2>7. SearchFrom[x] = IF Before(m) THEN SearchFrom[y] ELSE SearchFrom[z]
    BY <2>5, SearchUnfolds DEF Loop
  <2> HIDE DEF m, y, z
  <2> DEFINE Order == \A i, j \in 0..(n - 1) : i <= j /\ Before(j) => Before(i)
             Outside(u) == \A i \in 0..(n - 1) : (i < u[1] => Before(i)) /\ (i > u[2] => ~Before(i))
  <2>a. \A u : Answers(u) <=> /\ SearchFrom[u] \in -1..(n - 1)
                              /\ Order /\ Outside(u) => \A i \in 0..(n - 1) :
                                                          Before(i) <=> i <= SearchFrom[u]
    BY DEF Answers
  <2>8. CASE Before(m)
    <3>1. SearchFrom[x] = SearchFrom[y]
      BY <2>7, <2>8
    <3>2. Order /\ Outside(x) => Outside(y)
      <4> SUFFICES ASSUME Order, Outside(x), NEW i \in 0..(n - 1)
                   PROVE  (i < m + 1 => Before(i)) /\ (i > x[2] => ~Before(i))
        BY <2>6
      <4>1. i < m + 1 => i <= m
        BY <1>0, <2>1
      <4> QED
        BY <2>1, <2>8, <4>1
    <3> HIDE DEF Order, Outside
    <3> QED
      BY <2>a, <2>4, <3>1, <3>2
  <2>9. CASE ~Before(m)
    <3>1. SearchFrom[x] = SearchFrom[z]
      BY <2>7, <2>9
    <3>2. Order /\ Outside(x) => Outside(z)
      <4> SUFFICES ASSUME Order, Outside(x), NEW i \in 0..(n - 1)
                   PROVE  (i < x[1] => Before(i)) /\ (i > m - 1 => ~Before(i))
        BY <2>6
      <4>1. i > m - 1 => m <= i
        BY <1>0, <2>1
      <4> QED
        BY <2>1, <2>9, <4>1
    <3> HIDE DEF Order, Outside
    <3> QED
      BY <2>a, <2>4, <3>1, <3>2
  <2> QED
    BY <2>8, <2>9
<1> HIDE DEF S
<1>4. n \in S
  BY <1>0, <1>2, <1>3, Induction
<1> QED
  BY <1>0, <1>4 DEF S

\* clean cuts wp.ready at an index the list has.
LEMMA SearchInRange ==
  ASSUME ready \in Seq(Workers)
  PROVE  Search + 1 \in 0..Len(ready)
<1>1. <<0, Len(ready) - 1>> \in Pairs
  BY DEF Pairs
<1>2. Search \in -1..(Len(ready) - 1)
  BY <1>1, SearchAnswers DEF Answers, Search
<1> QED
  BY <1>2

\* The binary search of clean: when the workers of wp.ready are in the order of
\* lastUseTime, it finds exactly those that are idle for longer than
\* MaxIdleWorkerDuration.
THEOREM CleanFindsObsolete ==
  ASSUME ready \in Seq(Workers), lastUseTime \in [Workers -> Nat], critical \in Int,
         \A i, j \in 1..Len(ready) : i <= j => lastUseTime[ready[i]] <= lastUseTime[ready[j]]
  PROVE  \A i \in 1..Len(ready) : lastUseTime[ready[i]] < critical <=> i <= Search + 1
<1> DEFINE n == Len(ready)
<1>0. n \in Nat /\ \A i \in 0..(n - 1) : i + 1 \in 1..n /\ ready[i + 1] \in Workers
  OBVIOUS
<1>1. <<0, n - 1>> \in Pairs
  BY DEF Pairs
<1>2. \A i, j \in 0..(n - 1) : i <= j /\ Before(j) => Before(i)
  <2> SUFFICES ASSUME NEW i \in 0..(n - 1), NEW j \in 0..(n - 1), i <= j,
                      lastUseTime[ready[j + 1]] < critical
               PROVE  lastUseTime[ready[i + 1]] < critical
    BY DEF Before
  <2>1. lastUseTime[ready[i + 1]] <= lastUseTime[ready[j + 1]]
    BY <1>0
  <2>2. lastUseTime[ready[i + 1]] \in Nat /\ lastUseTime[ready[j + 1]] \in Nat
    BY <1>0
  <2> QED
    BY <2>1, <2>2
<1>3. \A i \in 0..(n - 1) : Before(i) <=> i <= Search
  BY <1>0, <1>1, <1>2, SearchAnswers, SMTT(30) DEF Answers, Search
<1>4. Search \in Int
  BY <1>0, <1>1, SearchAnswers DEF Answers, Search
<1> SUFFICES ASSUME NEW i \in 1..n
             PROVE  lastUseTime[ready[i]] < critical <=> i <= Search + 1
  OBVIOUS
<1>5. i - 1 \in 0..(n - 1) /\ (i - 1) + 1 = i
  BY <1>0
<1>6. Before(i - 1) <=> i - 1 <= Search
  BY <1>3, <1>5
<1> QED
  BY <1>4, <1>5, <1>6 DEF Before

-----------------------------------------------------------------------------
(* The inductive invariant.                                                *)

\* The goroutines that were started and have not returned.
Started == {w \in Workers : wpc[w] # "none"}
CountOK == workersCount = Cardinality(Started)

\* A worker is in one list once, or it is getCh's result, or it has a message.
InList(w) == w \in Elems(ready) \/ w \in Elems(scratch) \/ w = target
Lists ==
  /\ Distinct(ready) /\ Distinct(scratch)
  /\ Elems(ready) \cap Elems(scratch) = {}
  /\ target \notin Elems(ready) \cup Elems(scratch)
Boxes == \A w \in Workers : box[w] # NoConn => ~InList(w)

\* The workers that wait are those.
Waiting == \A w \in Workers : wpc[w] = "recv" <=> InList(w) \/ box[w] # NoConn

\* The accept loop has a worker and a connection between getCh and the send;
\* clean has a list after it took one, and a worker has a connection to serve.
Places ==
  /\ apc = "send" <=> target # NoWorker
  /\ apc = "send" <=> offer # NoConn
  /\ cpc # "notify" => scratch = <<>>
  /\ \A w \in Workers : wpc[w] = "serve" <=> wconn[w] # NoConn

\* Who has a connection has it alone.
Alone ==
  /\ \A v, w \in Workers : /\ box[v] = box[w] /\ box[v] \in Conns => v = w
                           /\ wconn[v] = wconn[w] /\ wconn[v] \in Conns => v = w
                           /\ box[v] \in Conns => box[v] # wconn[w]
  /\ offer \in Conns => \A w \in Workers : box[w] # offer /\ wconn[w] # offer

Owned(c) == offer = c \/ \E w \in Workers : box[w] = c \/ wconn[w] = c
Accepted == \A c \in Conns : state[c] = "accepted" <=> Owned(c)

PoolInv == TypeOK /\ CountOK /\ Lists /\ Boxes /\ Waiting /\ Places /\ Alone /\ Accepted

-----------------------------------------------------------------------------
(* Counting the goroutines.                                                *)

\* There are finitely many.
LEMMA StartedFinite == IsFiniteSet(Started) /\ Cardinality(Started) \in Nat
<1>1. Started \in SUBSET Workers
  BY DEF Started
<1> QED
  BY <1>1, FS_Subset, FS_CardinalityType, WorkerPoolAssumption

\* Nobody starts or returns.
LEMMA CountKept ==
  ASSUME CountOK, workersCount' = workersCount,
         \A w \in Workers : wpc'[w] = "none" <=> wpc[w] = "none"
  PROVE  CountOK'
<1>1. Started' = Started
  BY DEF Started
<1> QED
  BY <1>1 DEF CountOK

\* A worker starts.
LEMMA CountUp ==
  ASSUME CountOK, workersCount' = workersCount + 1, NEW w \in Workers, wpc[w] = "none",
         wpc'[w] # "none", \A v \in Workers : v # w => wpc'[v] = wpc[v]
  PROVE  CountOK'
<1>1. Started' = Started \cup {w} /\ w \notin Started
  BY DEF Started
<1> QED
  BY <1>1, StartedFinite, FS_AddElement DEF CountOK

\* A worker returns.
LEMMA CountDown ==
  ASSUME CountOK, workersCount' = workersCount - 1, NEW w \in Workers, wpc[w] # "none",
         wpc'[w] = "none", \A v \in Workers : v # w => wpc'[v] = wpc[v]
  PROVE  CountOK' /\ workersCount' \in Nat
<1>1. Started' = Started \ {w} /\ w \in Started
  BY DEF Started
<1>2. IsFiniteSet(Started') /\ Cardinality(Started') = Cardinality(Started) - 1
  BY <1>1, StartedFinite, FS_RemoveElement
<1> QED
  BY <1>2, FS_CardinalityType DEF CountOK

-----------------------------------------------------------------------------
(* Kinds of steps.                                                         *)

\* No list, message or connection changes hands.
LEMMA QuietStep ==
  ASSUME PoolInv, TypeOK', Places',
         UNCHANGED <<ready, scratch, target, offer, box, wconn, state, workersCount>>,
         \A w \in Workers : /\ wpc'[w] = "none" <=> wpc[w] = "none"
                            /\ wpc'[w] = "recv" <=> wpc[w] = "recv"
  PROVE  PoolInv'
<1>1. CountOK'
  BY CountKept DEF PoolInv
<1>2. Lists' /\ \A w : InList(w)' = InList(w)
  BY DEF PoolInv, Lists, InList
<1>3. Boxes' /\ Waiting'
  BY <1>2 DEF PoolInv, Boxes, Waiting
<1>4. Alone'
  BY DEF PoolInv, Alone
<1>5. Accepted'
  BY DEF PoolInv, Accepted, Owned
<1> QED
  BY <1>1, <1>2, <1>3, <1>4, <1>5 DEF PoolInv

\* A message that is sent: it is in the channel or, without a buffer, received.
LEMMA SendEffect ==
  ASSUME TypeOK, NEW w \in Workers, NEW m \in Conns \cup {Nil}, Send(w, m),
         box[w] = NoConn, wpc[w] = "recv", wconn[w] = NoConn
  PROVE  /\ \A v \in Workers : v # w => /\ box'[v] = box[v] /\ wpc'[v] = wpc[v]
                                        /\ wconn'[v] = wconn[v]
         /\ \/ box'[w] = m /\ wpc'[w] = "recv" /\ wconn'[w] = NoConn
            \/ m = Nil /\ box'[w] = NoConn /\ wpc'[w] = "exit" /\ wconn'[w] = NoConn
            \/ m \in Conns /\ box'[w] = NoConn /\ wpc'[w] = "serve" /\ wconn'[w] = m
         /\ box' \in [Workers -> Conns \cup {NoConn, Nil}] /\ wpc' \in [Workers -> WorkerPCs]
         /\ wconn' \in [Workers -> Conns \cup {NoConn}]
<1> USE WorkerPoolAssumption DEF TypeOK, Send, Received, WorkerPCs
<1>1. CASE Cap = 1
  BY <1>1
<1>2. CASE Cap # 1
  BY <1>2, ZenonT(40)
<1> QED
  BY <1>1, <1>2

\* The worker at the head of a list, or getCh's result, is sent a message.
LEMMA SendStep ==
  ASSUME PoolInv, TypeOK', NEW w \in Workers, NEW m \in Conns \cup {Nil}, Send(w, m),
         InList(w), Lists', \A v \in Workers : InList(v)' <=> InList(v) /\ v # w,
         UNCHANGED <<state, workersCount>>,
         (m = Nil /\ offer' = offer) \/ (m = offer /\ offer' = NoConn),
         apc' = "send" <=> target' # NoWorker, apc' = "send" <=> offer' # NoConn,
         cpc' # "notify" => scratch' = <<>>
  PROVE  PoolInv'
<1> USE WorkerPoolAssumption
<1>0. box[w] = NoConn /\ wpc[w] = "recv" /\ wconn[w] = NoConn
  BY DEF PoolInv, Boxes, Waiting, Places
<1>1. /\ \A v \in Workers : v # w => /\ box'[v] = box[v] /\ wpc'[v] = wpc[v]
                                     /\ wconn'[v] = wconn[v]
      /\ \/ box'[w] = m /\ wpc'[w] = "recv" /\ wconn'[w] = NoConn
         \/ m = Nil /\ box'[w] = NoConn /\ wpc'[w] = "exit" /\ wconn'[w] = NoConn
         \/ m \in Conns /\ box'[w] = NoConn /\ wpc'[w] = "serve" /\ wconn'[w] = m
  BY <1>0, SendEffect DEF PoolInv
<1>2. CountOK'
  BY <1>0, <1>1, CountKept DEF PoolInv
<1>3. Boxes' /\ Waiting'
  BY <1>0, <1>1 DEF PoolInv, Boxes, Waiting
<1>4. Places'
  BY <1>0, <1>1 DEF PoolInv, Places
<1>5. CASE m = Nil /\ offer' = offer
  <2>1. \A v \in Workers : /\ wconn'[v] = wconn[v]
                           /\ \A c \in Conns : box'[v] = c <=> box[v] = c
    BY <1>0, <1>1, <1>5
  <2>2. Alone'
    BY <1>5, <2>1 DEF PoolInv, Alone
  <2>3. Accepted'
    BY <1>5, <2>1 DEF PoolInv, Accepted, Owned
  <2> QED
    BY <1>2, <1>3, <1>4, <2>2, <2>3 DEF PoolInv
<1>6. CASE m = offer /\ m \in Conns /\ offer' = NoConn
  <2>1. /\ \A v \in Workers : box[v] # m /\ wconn[v] # m
        /\ state[m] = "accepted"
    BY <1>6 DEF PoolInv, Alone, Accepted, Owned
  <2>2. Alone'
    BY <1>0, <1>1, <1>6, <2>1 DEF PoolInv, Alone
  <2>3. \A c \in Conns : Owned(c)' <=> Owned(c)
    BY <1>0, <1>1, <1>6, <2>1 DEF Owned
  <2>4. Accepted'
    BY <2>3 DEF PoolInv, Accepted
  <2> QED
    BY <1>2, <1>3, <1>4, <2>2, <2>4 DEF PoolInv
<1>7. m \in Conns \/ m = Nil
  OBVIOUS
<1>8. offer # Nil
  BY DEF PoolInv, TypeOK
<1> QED
  BY <1>5, <1>6, <1>7, <1>8

-----------------------------------------------------------------------------
(* The actions.                                                            *)

\* The initial state.
LEMMA InitPool == Init => PoolInv
<1> SUFFICES ASSUME Init PROVE PoolInv
  OBVIOUS
<1> USE WorkerPoolAssumption DEF Init
<1>1. TypeOK
  <2>1. /\ wpc \in [Workers -> WorkerPCs] /\ state \in [Conns -> ConnStates]
        /\ box \in [Workers -> Conns \cup {NoConn, Nil}]
        /\ wconn \in [Workers -> Conns \cup {NoConn}] /\ lastUseTime \in [Workers -> Nat]
    BY DEF WorkerPCs, ConnStates
  <2>2. ready \in Seq(Workers) /\ scratch \in Seq(Workers) /\ workersCount \in Nat
        /\ now \in Nat /\ critical \in Int
    OBVIOUS
  <2>3. /\ mustStop \in BOOLEAN /\ stopCh \in BOOLEAN /\ locked \in BOOLEAN
        /\ apc \in {"accept", "send", "stopping", "stopped"}
        /\ cpc \in {"clean", "lock", "notify", "done"}
        /\ target \in Workers \cup {NoWorker} /\ offer \in Conns \cup {NoConn}
    BY Zenon
  <2> QED
    BY <2>1, <2>2, <2>3, Zenon DEF TypeOK
<1>2. Started = {} /\ Elems(ready) = {} /\ Elems(scratch) = {}
      /\ Distinct(ready) /\ Distinct(scratch)
  BY EmptyList DEF Started
<1>3. CountOK
  BY <1>2, FS_EmptySet DEF CountOK
<1>4. Lists /\ Boxes /\ Waiting
  BY <1>2 DEF Lists, Boxes, Waiting, InList
<1>5. Places /\ Alone /\ Accepted
  BY DEF Places, Alone, Accepted, Owned
<1> QED
  BY <1>1, <1>3, <1>4, <1>5 DEF PoolInv

\* getCh takes the worker that became ready last.
LEMMA GetChReadyStep ==
  ASSUME PoolInv, NEW c \in Conns, GetChReady(c)
  PROVE  PoolInv'
<1> USE WorkerPoolAssumption DEF GetChReady, workerVars, cleanVars
<1>1. /\ ready \in Seq(Workers) /\ ready # <<>> /\ Distinct(ready)
      /\ target = NoWorker /\ offer = NoConn
  BY DEF PoolInv, TypeOK, Lists, Places
<1>2. /\ ready' \in Seq(Workers) /\ Distinct(ready') /\ Elems(ready') = Elems(ready) \ {target'}
      /\ target' \in Elems(ready) /\ Elems(ready) \subseteq Workers
  BY <1>1, TakeLast, ListEnds
<1>3. TypeOK'
  BY <1>2 DEF PoolInv, TypeOK, ConnStates
<1>4. CountOK'
  BY CountKept DEF PoolInv
<1>5. Lists'
  BY <1>2 DEF PoolInv, Lists
<1>6. \A w \in Workers : InList(w)' <=> InList(w)
  BY <1>1, <1>2 DEF InList
<1>7. Boxes' /\ Waiting'
  BY <1>6 DEF PoolInv, Boxes, Waiting
<1>8. Places'
  BY <1>2 DEF PoolInv, Places
<1>9. ~Owned(c)
  BY DEF PoolInv, Accepted, Arriving
<1>10. Alone'
  BY <1>9 DEF PoolInv, Alone, Owned
<1>11. Accepted'
  BY <1>1, <1>9 DEF PoolInv, TypeOK, Accepted, Owned
<1> QED
  BY <1>3, <1>4, <1>5, <1>7, <1>8, <1>10, <1>11 DEF PoolInv

\* getCh starts a worker.
LEMMA GetChCreateStep ==
  ASSUME PoolInv, NEW c \in Conns, GetChCreate(c)
  PROVE  PoolInv'
<1> USE WorkerPoolAssumption
<1>0. PICK w \in Workers : wpc[w] = "none" /\ wpc' = [wpc EXCEPT ![w] = "recv"] /\ target' = w
  BY DEF GetChCreate
<1>1. /\ target = NoWorker /\ offer = NoConn /\ ~Owned(c) /\ apc' = "send" /\ offer' = c
      /\ workersCount' = workersCount + 1 /\ state' = [state EXCEPT ![c] = "accepted"]
      /\ UNCHANGED <<ready, mustStop, stopCh, locked, now, box, wconn, lastUseTime,
                     cpc, critical, scratch>>
  BY DEF GetChCreate, cleanVars, PoolInv, Places, Accepted, Arriving
<1>2. TypeOK'
  BY <1>0, <1>1 DEF PoolInv, TypeOK, ConnStates, WorkerPCs
<1>3. wpc'[w] = "recv" /\ \A v \in Workers : v # w => wpc'[v] = wpc[v]
  BY <1>0 DEF PoolInv, TypeOK
<1>4. CountOK'
  BY <1>0, <1>1, <1>3, CountUp DEF PoolInv
<1>5. ~InList(w) /\ box[w] = NoConn
  BY <1>0 DEF PoolInv, Waiting
<1>6. Lists'
  BY <1>0, <1>1, <1>5 DEF PoolInv, Lists, InList
<1>7. \A v \in Workers : InList(v)' <=> InList(v) \/ v = w
  BY <1>0, <1>1 DEF InList
<1>8. Boxes' /\ Waiting'
  BY <1>1, <1>3, <1>5, <1>7 DEF PoolInv, Boxes, Waiting
<1>9. Places'
  BY <1>0, <1>1, <1>3 DEF PoolInv, Places
<1>10. Alone'
  BY <1>1 DEF PoolInv, Alone, Owned
<1>11. Accepted'
  BY <1>1 DEF PoolInv, TypeOK, Accepted, Owned
<1> QED
  BY <1>2, <1>4, <1>6, <1>8, <1>9, <1>10, <1>11 DEF PoolInv

\* getCh finds no worker and the connection is refused.
LEMMA GetChNilStep ==
  ASSUME PoolInv, NEW c \in Conns, GetChNil(c)
  PROVE  PoolInv'
<1> USE DEF GetChNil, poolVars, acceptVars, workerVars, cleanVars
<1>1. TypeOK'
  BY DEF PoolInv, TypeOK, ConnStates
<1>2. CountOK'
  BY CountKept DEF PoolInv
<1>3. Lists' /\ \A w : InList(w)' = InList(w)
  BY DEF PoolInv, Lists, InList
<1>4. Boxes' /\ Waiting' /\ Places' /\ Alone'
  BY <1>3 DEF PoolInv, Boxes, Waiting, Places, Alone
<1>5. Accepted'
  BY DEF PoolInv, TypeOK, Accepted, Owned, Arriving
<1> QED
  BY <1>1, <1>2, <1>3, <1>4, <1>5 DEF PoolInv

\* The types, after a message was sent.
LEMMA SendTypes ==
  ASSUME PoolInv, NEW w \in Workers, NEW m \in Conns \cup {Nil}, Send(w, m), InList(w)
  PROVE  /\ box' \in [Workers -> Conns \cup {NoConn, Nil}] /\ wpc' \in [Workers -> WorkerPCs]
         /\ wconn' \in [Workers -> Conns \cup {NoConn}] /\ lastUseTime' = lastUseTime
<1>1. box[w] = NoConn /\ wpc[w] = "recv" /\ wconn[w] = NoConn
  BY DEF PoolInv, Boxes, Waiting, Places
<1> QED
  BY <1>1, SendEffect DEF PoolInv, Send

\* Serve hands the connection to the worker.
LEMMA ServeSendStep ==
  ASSUME PoolInv, ServeSend
  PROVE  PoolInv'
<1> USE WorkerPoolAssumption DEF ServeSend, poolVars, cleanVars
<1>w. PICK w \in Workers : w = target
  BY DEF PoolInv, TypeOK, Places
<1>m. PICK m \in Conns : m = offer
  BY DEF PoolInv, TypeOK, Places
<1>1. Send(w, m) /\ InList(w)
  BY <1>w, <1>m DEF InList
<1>2. TypeOK'
  BY <1>1, SendTypes DEF PoolInv, TypeOK
<1>3. Elems(ready) \subseteq Workers /\ Elems(scratch) \subseteq Workers
  BY DEF Elems, PoolInv, TypeOK
<1>4. Lists'
  BY <1>3 DEF PoolInv, Lists
<1>5. \A v \in Workers : InList(v)' <=> InList(v) /\ v # w
  BY <1>w DEF PoolInv, Lists, InList
<1>6. cpc' # "notify" => scratch' = <<>>
  BY DEF PoolInv, Places
<1> QED
  BY <1>m, <1>1, <1>2, <1>4, <1>5, <1>6, SendStep

\* Stop tells a ready worker to end.
LEMMA StopNotifyStep ==
  ASSUME PoolInv, StopNotify
  PROVE  PoolInv'
<1> USE WorkerPoolAssumption DEF StopNotify, acceptVars, cleanVars
<1>0. ready \in Seq(Workers) /\ ready # <<>> /\ Distinct(ready)
  BY DEF PoolInv, TypeOK, Lists
<1>w. PICK w \in Workers : w = Head(ready)
  BY <1>0
<1>1. /\ ready' \in Seq(Workers) /\ Distinct(ready') /\ Elems(ready') = Elems(ready) \ {w}
      /\ w \in Elems(ready)
  BY <1>0, <1>w, TakeHead, ListEnds
<1>2. Send(w, Nil) /\ InList(w)
  BY <1>w, <1>1 DEF InList
<1>3. TypeOK'
  BY <1>1, <1>2, SendTypes DEF PoolInv, TypeOK
<1>4. Lists'
  BY <1>1 DEF PoolInv, Lists
<1>5. \A v \in Workers : InList(v)' <=> InList(v) /\ v # w
  BY <1>1 DEF PoolInv, Lists, InList
<1>6. /\ apc' = "send" <=> target' # NoWorker
      /\ apc' = "send" <=> offer' # NoConn
      /\ cpc' # "notify" => scratch' = <<>>
  BY DEF PoolInv, Places
<1> QED
  BY <1>2, <1>3, <1>4, <1>5, <1>6, SendStep

\* clean tells an obsolete worker to end.
LEMMA CleanNotifyStep ==
  ASSUME PoolInv, CleanNotify
  PROVE  PoolInv'
<1> USE WorkerPoolAssumption DEF CleanNotify, poolVars, acceptVars
<1>0. scratch \in Seq(Workers) /\ scratch # <<>> /\ Distinct(scratch)
  BY DEF PoolInv, TypeOK, Lists
<1>w. PICK w \in Workers : w = Head(scratch)
  BY <1>0
<1>1. /\ scratch' \in Seq(Workers) /\ Distinct(scratch')
      /\ Elems(scratch') = Elems(scratch) \ {w} /\ w \in Elems(scratch)
  BY <1>0, <1>w, TakeHead, ListEnds
<1>2. Send(w, Nil) /\ InList(w)
  BY <1>w, <1>1 DEF InList
<1>3. TypeOK'
  BY <1>1, <1>2, SendTypes DEF PoolInv, TypeOK
<1>4. Lists'
  BY <1>1 DEF PoolInv, Lists
<1>5. \A v \in Workers : InList(v)' <=> InList(v) /\ v # w
  BY <1>1 DEF PoolInv, Lists, InList
<1>6. /\ apc' = "send" <=> target' # NoWorker
      /\ apc' = "send" <=> offer' # NoConn
  BY DEF PoolInv, Places
<1>7. cpc' = "notify" /\ offer' = offer /\ UNCHANGED <<state, workersCount>>
  OBVIOUS
<1>8. cpc' # "notify" => scratch' = <<>>
  BY <1>7
<1> QED
  BY <1>2, <1>3, <1>4, <1>5, <1>6, <1>7, <1>8, SendStep

\* The worker takes the message out of its channel.
LEMMA ReceiveStep ==
  ASSUME PoolInv, NEW w \in Workers, Receive(w)
  PROVE  PoolInv'
<1> USE WorkerPoolAssumption
<1>1. /\ wpc[w] = "recv" /\ box[w] # NoConn /\ ~InList(w) /\ wconn[w] = NoConn
      /\ UNCHANGED <<lastUseTime, now, state, ready, workersCount, mustStop, apc, target, offer,
                     stopCh, locked, cpc, critical, scratch>>
  BY DEF Receive, poolVars, acceptVars, cleanVars, PoolInv, Boxes, Places
<1>2. /\ \A v \in Workers : v # w => /\ box'[v] = box[v] /\ wpc'[v] = wpc[v]
                                     /\ wconn'[v] = wconn[v]
      /\ box'[w] = NoConn
      /\ \/ box[w] = Nil /\ wpc'[w] = "exit" /\ wconn'[w] = NoConn
         \/ box[w] \in Conns /\ wpc'[w] = "serve" /\ wconn'[w] = box[w]
      /\ box' \in [Workers -> Conns \cup {NoConn, Nil}] /\ wpc' \in [Workers -> WorkerPCs]
      /\ wconn' \in [Workers -> Conns \cup {NoConn}]
  BY <1>1 DEF Receive, Received, PoolInv, TypeOK, WorkerPCs
<1>3. TypeOK'
  BY <1>1, <1>2 DEF PoolInv, TypeOK
<1>4. CountOK'
  BY <1>1, <1>2, CountKept DEF PoolInv
<1>5. Lists' /\ \A v : InList(v)' = InList(v)
  BY <1>1 DEF PoolInv, Lists, InList
<1>6. Boxes' /\ Waiting'
  BY <1>1, <1>2, <1>5 DEF PoolInv, Boxes, Waiting
<1>7. Places'
  BY <1>1, <1>2 DEF PoolInv, Places
<1>8. Alone'
  BY <1>1, <1>2 DEF PoolInv, Alone
<1>9. \A c \in Conns : Owned(c)' <=> Owned(c)
  BY <1>1, <1>2 DEF Owned
<1>10. Accepted'
  BY <1>1, <1>9 DEF PoolInv, Accepted
<1> QED
  BY <1>3, <1>4, <1>5, <1>6, <1>7, <1>8, <1>10 DEF PoolInv

\* The worker is done with its connection.
LEMMA WorkerDoneStep ==
  ASSUME PoolInv, NEW w \in Workers, WorkerDone(w)
  PROVE  PoolInv'
<1> USE WorkerPoolAssumption
<1>c. PICK c \in Conns : c = wconn[w]
  BY DEF WorkerDone, PoolInv, TypeOK, Places
<1>1. /\ wpc[w] = "serve" /\ \E s \in {"closed", "hijacked"} : state' = [state EXCEPT ![c] = s]
      /\ wpc' = [wpc EXCEPT ![w] = "release"] /\ wconn' = [wconn EXCEPT ![w] = NoConn]
      /\ UNCHANGED <<box, lastUseTime, now, ready, workersCount, mustStop, apc, target, offer,
                     stopCh, locked, cpc, critical, scratch>>
  BY <1>c DEF WorkerDone, poolVars, acceptVars, cleanVars
<1>2. /\ \A v \in Workers : v # w => wpc'[v] = wpc[v] /\ wconn'[v] = wconn[v]
      /\ wpc'[w] = "release" /\ wconn'[w] = NoConn
  BY <1>1 DEF PoolInv, TypeOK
<1>3. TypeOK'
  BY <1>1 DEF PoolInv, TypeOK, WorkerPCs, ConnStates
<1>4. CountOK'
  BY <1>1, <1>2, CountKept DEF PoolInv
<1>5. Lists' /\ \A v : InList(v)' = InList(v)
  BY <1>1 DEF PoolInv, Lists, InList
<1>6. Boxes' /\ Waiting'
  BY <1>1, <1>2, <1>5 DEF PoolInv, Boxes, Waiting
<1>7. Places'
  BY <1>1, <1>2 DEF PoolInv, Places
<1>8. Alone'
  BY <1>1, <1>2 DEF PoolInv, Alone
<1>9. \A d \in Conns : Owned(d)' <=> Owned(d) /\ d # c
  BY <1>c, <1>1, <1>2 DEF PoolInv, Alone, Owned
<1>10. state'[c] # "accepted" /\ \A d \in Conns : d # c => state'[d] = state[d]
  BY <1>1 DEF PoolInv, TypeOK
<1>11. Accepted'
  BY <1>9, <1>10 DEF PoolInv, Accepted
<1> QED
  BY <1>3, <1>4, <1>5, <1>6, <1>7, <1>8, <1>11 DEF PoolInv

\* The worker becomes ready again, or ends because of Stop.
LEMMA ReleaseLockStep ==
  ASSUME PoolInv, NEW w \in Workers, ReleaseLock(w)
  PROVE  PoolInv'
<1> USE WorkerPoolAssumption
<1>1. /\ wpc[w] = "relock" /\ ~InList(w) /\ box[w] = NoConn
      /\ ready' = IF mustStop THEN ready ELSE Append(ready, w)
      /\ wpc' = [wpc EXCEPT ![w] = IF mustStop THEN "exit" ELSE "recv"]
      /\ UNCHANGED <<workersCount, mustStop, box, wconn, lastUseTime, now, state, apc, target,
                     offer, stopCh, locked, cpc, critical, scratch>>
  BY DEF ReleaseLock, acceptVars, cleanVars, PoolInv, Waiting
<1>2. /\ \A v \in Workers : v # w => wpc'[v] = wpc[v]
      /\ wpc'[w] = IF mustStop THEN "exit" ELSE "recv"
      /\ wpc' \in [Workers -> WorkerPCs]
  BY <1>1 DEF PoolInv, TypeOK, WorkerPCs
<1>3. CASE mustStop
  <2>1. ready' = ready /\ wpc'[w] = "exit"
    BY <1>1, <1>2, <1>3
  <2>2. TypeOK'
    BY <1>1, <1>2, <2>1 DEF PoolInv, TypeOK
  <2>3. CountOK'
    BY <1>1, <1>2, <2>1, CountKept DEF PoolInv
  <2>4. Lists' /\ \A v : InList(v)' = InList(v)
    BY <1>1, <2>1 DEF PoolInv, Lists, InList
  <2>5. Boxes' /\ Waiting'
    BY <1>1, <1>2, <2>1, <2>4 DEF PoolInv, Boxes, Waiting
  <2>6. Places'
    BY <1>1, <1>2, <2>1 DEF PoolInv, Places
  <2>7. Alone' /\ Accepted'
    BY <1>1 DEF PoolInv, Alone, Accepted, Owned
  <2> QED
    BY <2>2, <2>3, <2>4, <2>5, <2>6, <2>7 DEF PoolInv
<1>4. CASE ~mustStop
  <2>1. ready' = Append(ready, w) /\ wpc'[w] = "recv"
    BY <1>1, <1>2, <1>4
  <2>2. ready' \in Seq(Workers) /\ Distinct(ready') /\ Elems(ready') = Elems(ready) \cup {w}
    BY <1>1, <2>1, PutLast DEF PoolInv, TypeOK, Lists, InList
  <2>3. TypeOK'
    BY <1>1, <1>2, <2>2 DEF PoolInv, TypeOK
  <2>4. CountOK'
    BY <1>1, <1>2, <2>1, CountKept DEF PoolInv
  <2>5. Lists'
    BY <1>1, <2>2 DEF PoolInv, Lists, InList
  <2>6. \A v \in Workers : InList(v)' <=> InList(v) \/ v = w
    BY <1>1, <2>2 DEF InList
  <2>7. Boxes' /\ Waiting'
    BY <1>1, <1>2, <2>1, <2>6 DEF PoolInv, Boxes, Waiting
  <2>8. Places'
    BY <1>1, <1>2, <2>1 DEF PoolInv, Places
  <2>9. Alone' /\ Accepted'
    BY <1>1 DEF PoolInv, Alone, Accepted, Owned
  <2> QED
    BY <2>3, <2>4, <2>5, <2>7, <2>8, <2>9 DEF PoolInv
<1> QED
  BY <1>3, <1>4

\* The worker's goroutine returns.
LEMMA WorkerExitStep ==
  ASSUME PoolInv, NEW w \in Workers, WorkerExit(w)
  PROVE  PoolInv'
<1> USE WorkerPoolAssumption
<1>1. /\ wpc[w] = "exit" /\ workersCount' = workersCount - 1
      /\ wpc' = [wpc EXCEPT ![w] = "none"]
      /\ UNCHANGED <<ready, mustStop, box, wconn, lastUseTime, now, state, apc, target,
                     offer, stopCh, locked, cpc, critical, scratch>>
  BY DEF WorkerExit, acceptVars, cleanVars
<1>2. wpc'[w] = "none" /\ \A v \in Workers : v # w => wpc'[v] = wpc[v]
  BY <1>1 DEF PoolInv, TypeOK
<1>3. CountOK' /\ workersCount' \in Nat
  BY <1>1, <1>2, CountDown DEF PoolInv
<1>4. TypeOK'
  BY <1>1, <1>3 DEF PoolInv, TypeOK, WorkerPCs
<1>5. Lists' /\ \A v : InList(v)' = InList(v)
  BY <1>1 DEF PoolInv, Lists, InList
<1>6. Boxes' /\ Waiting'
  BY <1>1, <1>2, <1>5 DEF PoolInv, Boxes, Waiting
<1>7. Places'
  BY <1>1, <1>2 DEF PoolInv, Places
<1>8. Alone' /\ Accepted'
  BY <1>1 DEF PoolInv, Alone, Accepted, Owned
<1> QED
  BY <1>3, <1>4, <1>5, <1>6, <1>7, <1>8 DEF PoolInv

\* The obsolete workers move from wp.ready to the scratch list.
LEMMA CleanTakeStep ==
  ASSUME PoolInv, CleanTake
  PROVE  PoolInv'
<1>0. ready \in Seq(Workers) /\ Distinct(ready) /\ scratch = <<>> /\ Elems(scratch) = {}
  BY EmptyList DEF CleanTake, PoolInv, TypeOK, Lists, Places
<1>k. PICK k \in 0..Len(ready) : k = Search + 1
  BY <1>0, SearchInRange
<1>1. /\ scratch' = SubSeq(ready, 1, k) /\ ready' = SubSeq(ready, k + 1, Len(ready))
      /\ cpc' = "notify"
      /\ UNCHANGED <<workersCount, mustStop, critical, now, state, apc, target, offer, stopCh,
                     locked, box, wpc, wconn, lastUseTime>>
  <2>1. Search \in Int
    BY <1>0, SearchAnswers DEF Search, Answers, Pairs
  <2>2. Search + 2 = k + 1
    BY <1>k, <2>1
  <2> QED
    BY <1>k, <2>2 DEF CleanTake, acceptVars, workerVars
<1>2. /\ scratch' \in Seq(Workers) /\ ready' \in Seq(Workers)
      /\ Distinct(scratch') /\ Distinct(ready')
      /\ Elems(scratch') \cap Elems(ready') = {}
      /\ Elems(scratch') \cup Elems(ready') = Elems(ready)
  BY <1>0, <1>1, Cut
<1>3. TypeOK'
  BY <1>1, <1>2 DEF PoolInv, TypeOK
<1>4. CountOK'
  BY <1>1, CountKept DEF PoolInv
<1>5. Lists'
  BY <1>0, <1>1, <1>2 DEF PoolInv, Lists
<1>6. \A v \in Workers : InList(v)' <=> InList(v)
  BY <1>0, <1>1, <1>2 DEF InList
<1>7. Boxes' /\ Waiting'
  BY <1>1, <1>6 DEF PoolInv, Boxes, Waiting
<1>8. Places'
  BY <1>1 DEF PoolInv, Places
<1>9. Alone' /\ Accepted'
  BY <1>1 DEF PoolInv, Alone, Accepted, Owned
<1> QED
  BY <1>3, <1>4, <1>5, <1>7, <1>8, <1>9 DEF PoolInv

\* Every step keeps the invariant.
LEMMA PoolStep == PoolInv /\ [Next]_vars => PoolInv'
<1> SUFFICES ASSUME PoolInv, [Next]_vars PROVE PoolInv'
  OBVIOUS
<1>1. ASSUME NEW c \in Conns, GetChReady(c) PROVE PoolInv'
  BY <1>1, GetChReadyStep
<1>2. ASSUME NEW c \in Conns, GetChCreate(c) PROVE PoolInv'
  BY <1>2, GetChCreateStep
<1>3. ASSUME NEW c \in Conns, GetChNil(c) PROVE PoolInv'
  BY <1>3, GetChNilStep
<1>4. CASE ServeSend
  BY <1>4, ServeSendStep
<1>5. CASE StopLock \/ StopUnlock
  <2>1. UNCHANGED <<ready, scratch, target, offer, box, wpc, wconn, state, workersCount>>
    BY <1>5 DEF StopLock, StopUnlock, poolVars, workerVars, cleanVars
  <2>2. TypeOK'
    <3>1. stopCh' \in BOOLEAN /\ locked' \in BOOLEAN /\ mustStop' \in BOOLEAN
      BY <1>5, Zenon DEF StopLock, StopUnlock, poolVars, PoolInv, TypeOK
    <3>2. apc' \in {"accept", "send", "stopping", "stopped"}
      BY <1>5 DEF StopLock, StopUnlock
    <3>3. UNCHANGED <<lastUseTime, now, cpc, critical>>
      BY <1>5 DEF StopLock, StopUnlock, workerVars, cleanVars
    <3> QED
      BY <2>1, <3>1, <3>2, <3>3 DEF PoolInv, TypeOK
  <2>3. Places'
    BY <1>5, <2>1 DEF StopLock, StopUnlock, cleanVars, PoolInv, Places
  <2> QED
    BY <2>1, <2>2, <2>3, QuietStep
<1>6. CASE StopNotify
  BY <1>6, StopNotifyStep
<1>7. ASSUME NEW w \in Workers, Receive(w) PROVE PoolInv'
  BY <1>7, ReceiveStep
<1>8. ASSUME NEW w \in Workers, WorkerDone(w) PROVE PoolInv'
  BY <1>8, WorkerDoneStep
<1>9. ASSUME NEW w \in Workers, ReleaseStamp(w) PROVE PoolInv'
  <2>1. /\ UNCHANGED <<ready, scratch, target, offer, box, wconn, state, workersCount,
                       mustStop, stopCh, locked, apc, cpc, critical, now>>
        /\ lastUseTime' = [lastUseTime EXCEPT ![w] = now]
        /\ wpc[w] = "release" /\ wpc' = [wpc EXCEPT ![w] = "relock"]
    BY <1>9 DEF ReleaseStamp, poolVars, acceptVars, cleanVars
  <2>2. TypeOK'
    BY <2>1 DEF PoolInv, TypeOK, WorkerPCs
  <2>3. \A v \in Workers : /\ wpc'[v] = "none" <=> wpc[v] = "none"
                           /\ wpc'[v] = "recv" <=> wpc[v] = "recv"
                           /\ wpc'[v] = "serve" <=> wpc[v] = "serve"
    BY <2>1 DEF PoolInv, TypeOK
  <2>4. Places'
    BY <2>1, <2>3 DEF PoolInv, Places
  <2> QED
    BY <2>1, <2>2, <2>3, <2>4, QuietStep
<1>10. ASSUME NEW w \in Workers, ReleaseLock(w) PROVE PoolInv'
  BY <1>10, ReleaseLockStep
<1>11. ASSUME NEW w \in Workers, WorkerExit(w) PROVE PoolInv'
  BY <1>11, WorkerExitStep
<1>12. CASE CleanTime \/ CleanLoop \/ Tick \/ UNCHANGED vars
  <2>1. UNCHANGED <<ready, scratch, target, offer, box, wpc, wconn, state, workersCount,
                    mustStop, stopCh, locked, apc, lastUseTime>>
    BY <1>12 DEF CleanTime, CleanLoop, Tick, vars, poolVars, acceptVars, workerVars, cleanVars
  <2>2. /\ now' \in Nat /\ critical' \in Int /\ cpc' \in {"clean", "lock", "notify", "done"}
        /\ cpc' # "notify" => scratch' = <<>>
    BY <1>12, WorkerPoolAssumption
       DEF CleanTime, CleanLoop, Tick, vars, cleanVars, PoolInv, TypeOK, Places
  <2>3. TypeOK' /\ Places'
    BY <2>1, <2>2 DEF PoolInv, TypeOK, Places
  <2> QED
    BY <2>1, <2>3, QuietStep
<1>13. CASE CleanTake
  BY <1>13, CleanTakeStep
<1>14. CASE CleanNotify
  BY <1>14, CleanNotifyStep
<1> QED
  BY <1>1, <1>2, <1>3, <1>4, <1>5, <1>6, <1>7, <1>8, <1>9, <1>10, <1>11, <1>12, <1>13, <1>14
     DEF Next, AcceptNext, WorkerNext, CleanNext, Ended

-----------------------------------------------------------------------------
(* The theorems.                                                           *)

\* PoolInv is an invariant of the pool.
LEMMA PoolInvariant == Spec => []PoolInv
  BY InitPool, PoolStep, PTL DEF Spec

\* The fields of the pool and of its workers keep their types; workersCount is
\* never negative, for any number of workers and connections.
THEOREM PoolTyped == Spec => []TypeOK
<1>1. PoolInv => TypeOK
  BY DEF PoolInv
<1> QED
  BY <1>1, PoolInvariant, PTL

\* The lists and the channel, as places a message for w can come from.
LEMMA InvOneToken == PoolInv => OneToken
<1> SUFFICES ASSUME PoolInv, NEW w \in Workers
             PROVE  /\ \A t, u \in Tokens(w) : t = u
                    /\ wpc[w] = "recv" <=> Tokens(w) # {}
  BY DEF OneToken
<1>0. /\ DOMAIN ready = 1..Len(ready) /\ DOMAIN scratch = 1..Len(scratch)
      /\ \A i \in 1..Len(ready) : ready[i] \in Elems(ready)
      /\ \A i \in 1..Len(scratch) : scratch[i] \in Elems(scratch)
      /\ \A x \in Elems(ready) : \E i \in 1..Len(ready) : ready[i] = x
      /\ \A x \in Elems(scratch) : \E i \in 1..Len(scratch) : scratch[i] = x
  BY DEF PoolInv, TypeOK, Elems
<1>1. \A t \in Tokens(w) :
        \/ \E i \in 1..Len(ready) : t = <<"ready", i>> /\ ready[i] = w
        \/ \E i \in 1..Len(scratch) : t = <<"scratch", i>> /\ scratch[i] = w
        \/ t = <<"target", 0>> /\ target = w
        \/ t = <<"box", 0>> /\ box[w] # NoConn
  BY <1>0 DEF Tokens
<1>2. /\ \A i \in 1..Len(ready) : ready[i] = w => <<"ready", i>> \in Tokens(w)
      /\ \A i \in 1..Len(scratch) : scratch[i] = w => <<"scratch", i>> \in Tokens(w)
      /\ target = w => <<"target", 0>> \in Tokens(w)
      /\ box[w] # NoConn => <<"box", 0>> \in Tokens(w)
  BY <1>0 DEF Tokens
<1>3. wpc[w] = "recv" <=> Tokens(w) # {}
  <2>1. InList(w) \/ box[w] # NoConn <=> Tokens(w) # {}
    BY <1>0, <1>1, <1>2, ZenonT(40) DEF InList
  <2> QED
    BY <2>1 DEF PoolInv, Waiting
<1>4. ASSUME NEW t \in Tokens(w), NEW u \in Tokens(w) PROVE t = u
  <2>1. CASE \E i \in 1..Len(ready) : t = <<"ready", i>> /\ ready[i] = w
    BY <1>0, <1>1, <2>1 DEF PoolInv, Lists, Boxes, InList, Distinct
  <2>2. CASE \E i \in 1..Len(scratch) : t = <<"scratch", i>> /\ scratch[i] = w
    BY <1>0, <1>1, <2>2 DEF PoolInv, Lists, Boxes, InList, Distinct
  <2>3. CASE t = <<"target", 0>> /\ target = w
    BY <1>0, <1>1, <2>3 DEF PoolInv, Lists, Boxes, InList
  <2>4. CASE t = <<"box", 0>> /\ box[w] # NoConn
    BY <1>0, <1>1, <2>4 DEF PoolInv, Boxes, InList
  <2> QED
    BY <1>1, <2>1, <2>2, <2>3, <2>4
<1> QED
  BY <1>3, <1>4

\* A worker that waits on its channel is promised exactly one message, by
\* Serve, Stop or clean, and one that does not wait is promised none: no send
\* blocks and no worker is forgotten, in every interleaving of the three.
THEOREM PoolOneToken == Spec => []OneToken
  BY InvOneToken, PoolInvariant, PTL

\* Who has a connection, as one set.
LEMMA InvConnOwned == PoolInv => ConnOwned
<1> SUFFICES ASSUME PoolInv, NEW c \in Conns
             PROVE  /\ \A o, p \in Owners(c) : o = p
                    /\ state[c] = "accepted" <=> Owners(c) # {}
  BY DEF ConnOwned
<1>1. \A o \in Owners(c) :
        \/ o = <<"offer", NoWorker>> /\ offer = c
        \/ \E w \in Workers : o = <<"box", w>> /\ box[w] = c
        \/ \E w \in Workers : o = <<"worker", w>> /\ wconn[w] = c
  BY DEF Owners
<1>2. /\ offer = c => <<"offer", NoWorker>> \in Owners(c)
      /\ \A w \in Workers : box[w] = c => <<"box", w>> \in Owners(c)
      /\ \A w \in Workers : wconn[w] = c => <<"worker", w>> \in Owners(c)
  BY DEF Owners
<1>3. state[c] = "accepted" <=> Owners(c) # {}
  BY <1>1, <1>2 DEF PoolInv, Accepted, Owned
<1>4. ASSUME NEW o \in Owners(c), NEW p \in Owners(c) PROVE o = p
  BY <1>1 DEF PoolInv, Alone
<1> QED
  BY <1>3, <1>4

\* A connection that Serve took on is with exactly one worker, in its channel
\* or on the way to it, until it is closed or hijacked; then nobody has it.
THEOREM PoolConnOwned == Spec => []ConnOwned
  BY InvConnOwned, PoolInvariant, PTL

=============================================================================
