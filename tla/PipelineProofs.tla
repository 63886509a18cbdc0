--------------------------- MODULE PipelineProofs ---------------------------
(***************************************************************************)
(* Proofs about PipelineClient, for every number of callers, works and     *)
(* connections, any capacity of the channels and any number of worker      *)
(* restarts: a work is in one place at a time, and responses go to the     *)
(* requests they answer while no client replaces its channels.             *)
(***************************************************************************)
EXTENDS PipelineClient, SeqLemmas, FiniteSetTheorems

-----------------------------------------------------------------------------
(* Types.                                                                  *)

MaybeWork == Works \cup {NoWork}
CallerTypes == [pc : {"idle", "init", "push", "full", "again", "slow", "wait"},
                cc : 0..MaxConns, w : MaybeWork, g : 0..MaxGen, n : Nat]
WorkTypes == [pooled : BOOLEAN, done : BOOLEAN,
              err : {"nil", "ErrPipelineOverflow", "errPipelineConnStopped", "ErrTimeout",
                     "writeError", "readError"},
              clock : {"none", "ahead", "past"}, tick : BOOLEAN, resp : MaybeWork]
WorkerTypes == [pc : {"off", "dial", "serve", "close", "drain", "decide", "ended"},
                err : BOOLEAN, stop : BOOLEAN]
WriterTypes == [pc : {"start", "take", "write", "pushR", "returned"}, w : MaybeWork,
                g : 0..MaxGen, err : BOOLEAN, flush : BOOLEAN, buf : Seq(Works)]
ReaderTypes == [pc : {"start", "take", "read", "returned"}, w : MaybeWork,
                g : 0..MaxGen, err : BOOLEAN]

\* The fields that go together: who has a work in hand.
GoodCaller(r) ==
  /\ r \in CallerTypes
  /\ r.pc \in {"idle", "init"} <=> r.w = NoWork
  /\ r.pc # "idle" => r.cc \in CC
GoodWriter(r) == r \in WriterTypes /\ (r.pc \in {"write", "pushR"} <=> r.w # NoWork)
GoodReader(r) == r \in ReaderTypes /\ (r.pc = "read" <=> r.w # NoWork)

GoodCallers == {r \in CallerTypes : GoodCaller(r)}
GoodWriters == {r \in WriterTypes : GoodWriter(r)}
GoodReaders == {r \in ReaderTypes : GoodReader(r)}

\* A channel: within its capacity, no work in it twice.
Channels == {s \in Seq(Works) : Len(s) <= Cap /\ Distinct(s)}
Queues == [CC -> [Gens -> Channels]]

PipelineTyped ==
  /\ connClients \in 0..MaxConns
  /\ gen \in [CC -> 0..MaxGen] /\ made \in [CC -> 0..MaxGen]
  /\ chW \in Queues /\ chR \in Queues
  /\ caller \in [Callers -> GoodCallers]
  /\ work \in [Works -> WorkTypes]
  /\ worker \in [Goroutines -> WorkerTypes]
  /\ writer \in [Goroutines -> GoodWriters]
  /\ reader \in [Goroutines -> GoodReaders]
  /\ wire \in [Goroutines -> Seq(Works)]

\* Writer and reader run only while the worker serves or closes a connection,
\* and a worker not made yet has not started.
Phases ==
  /\ \A i \in Goroutines : worker[i].pc \notin {"serve", "close"} =>
       writer[i].pc = "returned" /\ reader[i].pc = "returned"
  /\ \A i \in Goroutines : i[2] > made[i[1]] => worker[i].pc = "off"

-----------------------------------------------------------------------------
(* Places.                                                                 *)

In(q, w) == {i \in Goroutines : w \in Elems(q[i[1]][i[2]])}
InW(w) == In(chW, w)
InR(w) == In(chR, w)

One(S) == \E x : S = {x}

Nowhere(w) ==
  InW(w) = {} /\ InR(w) = {} /\ Writing(w) = {} /\ Reading(w) = {} /\ ~work[w].done

\* In a channel of requests, with a writer, in a channel of responses, with a
\* reader, completed: one of them.
Somewhere(w) ==
  \/ One(InW(w)) /\ InR(w) = {} /\ Writing(w) = {} /\ Reading(w) = {} /\ ~work[w].done
  \/ InW(w) = {} /\ One(InR(w)) /\ Writing(w) = {} /\ Reading(w) = {} /\ ~work[w].done
  \/ InW(w) = {} /\ InR(w) = {} /\ One(Writing(w)) /\ Reading(w) = {} /\ ~work[w].done
  \/ InW(w) = {} /\ InR(w) = {} /\ Writing(w) = {} /\ One(Reading(w)) /\ ~work[w].done
  \/ InW(w) = {} /\ InR(w) = {} /\ Writing(w) = {} /\ Reading(w) = {} /\ work[w].done

\* A pooled work is nowhere; so is the work of a caller before it is queued,
\* and while the caller waits it is somewhere; no two callers have one work.
Hands ==
  /\ \A w \in Works : Nowhere(w) \/ Somewhere(w)
  /\ \A w \in Works : work[w].pooled => Nowhere(w)
  /\ \A p \in Callers : caller[p].w \in Works =>
       /\ ~work[caller[p].w].pooled
       /\ caller[p].pc = "wait" => Somewhere(caller[p].w)
       /\ caller[p].pc # "wait" => Nowhere(caller[p].w)
  /\ \A p, q \in Callers : caller[p].w \in Works /\ caller[p].w = caller[q].w => p = q

PlaceInv == PipelineTyped /\ Phases /\ Hands

LEMMA Exclusive == ASSUME NEW w, Nowhere(w), Somewhere(w) PROVE FALSE
<1>1. ASSUME NEW S, S = {}, One(S) PROVE FALSE
  BY <1>1 DEF One
<1> QED
  BY <1>1 DEF Nowhere, Somewhere

LEMMA Indices ==
  ASSUME NEW i \in Goroutines
  PROVE  i[1] \in CC /\ i[2] \in Gens /\ i = <<i[1], i[2]>>
  BY DEF Goroutines

LEMMA EmptyChannel == <<>> \in Channels
<1>1. Len(<<>>) = 0 /\ <<>> \in Seq(Works)
  OBVIOUS
<1> QED
  BY <1>1, EmptyList, PipelineAssumption DEF Channels

\* A send adds the work to one channel.
LEMMA SendIn ==
  ASSUME NEW q \in Queues, NEW cc \in CC, NEW g \in Gens, NEW w \in Works,
         Len(q[cc][g]) < Cap, In(q, w) = {}
  PROVE  /\ Send(q, cc, g, w) \in Queues
         /\ In(Send(q, cc, g, w), w) = {<<cc, g>>}
         /\ \A v \in Works : v # w => In(Send(q, cc, g, w), v) = In(q, v)
<1> DEFINE s == q[cc][g]
           t == Append(s, w)
           r == Send(q, cc, g, w)
<1>1. s \in Seq(Works) /\ Distinct(s) /\ Len(s) < Cap
  BY DEF Queues, Channels
<1>2. <<cc, g>> \in Goroutines
  BY DEF Goroutines
<1>3. w \notin Elems(s)
  BY <1>2 DEF In
<1>4. t \in Seq(Works) /\ Distinct(t) /\ Elems(t) = Elems(s) \cup {w}
  BY <1>1, <1>3, PutLast
<1>5. Len(t) = Len(s) + 1
  BY <1>1
<1>6. t \in Channels
  BY <1>1, <1>4, <1>5, PipelineAssumption DEF Channels
<1> HIDE DEF t
<1>7. r = [q EXCEPT ![cc] = [q[cc] EXCEPT ![g] = t]]
  BY DEF Send, t, Queues
<1>8. r \in Queues
  BY <1>6, <1>7 DEF Queues
<1>9. ASSUME NEW i \in Goroutines PROVE r[i[1]][i[2]] = IF i = <<cc, g>> THEN t ELSE q[i[1]][i[2]]
  <2>1. i[1] \in CC /\ i[2] \in Gens /\ (i = <<cc, g>> <=> i[1] = cc /\ i[2] = g)
    BY Indices
  <2> QED
    BY <1>7, <2>1 DEF Queues
<1> HIDE DEF r
<1>10. In(r, w) = {<<cc, g>>}
  BY <1>2, <1>4, <1>9 DEF In
<1>11. ASSUME NEW v \in Works, v # w PROVE In(r, v) = In(q, v)
  BY <1>4, <1>9, <1>11 DEF In
<1> QED
  BY <1>8, <1>10, <1>11 DEF r

\* A receive takes the head away.
LEMMA ReceiveIn ==
  ASSUME NEW q \in Queues, NEW cc \in CC, NEW g \in Gens, q[cc][g] # <<>>
  PROVE  LET w == Head(q[cc][g]) IN
         /\ Receive(q, cc, g) \in Queues
         /\ w \in Works /\ <<cc, g>> \in In(q, w)
         /\ In(Receive(q, cc, g), w) = In(q, w) \ {<<cc, g>>}
         /\ \A v \in Works : v # w => In(Receive(q, cc, g), v) = In(q, v)
<1> DEFINE s == q[cc][g]
           t == Tail(s)
           w == Head(s)
           r == Receive(q, cc, g)
<1>1. s \in Seq(Works) /\ Distinct(s) /\ Len(s) <= Cap /\ s # <<>>
  BY DEF Queues, Channels
<1>2. <<cc, g>> \in Goroutines
  BY DEF Goroutines
<1>3. w \in Elems(s) /\ w \in Works
  BY <1>1, ListEnds
<1>4. t \in Seq(Works) /\ Distinct(t) /\ Elems(t) = Elems(s) \ {w}
  BY <1>1, TakeHead
<1>5. Len(t) = Len(s) - 1
  BY <1>1
<1>6. t \in Channels
  BY <1>1, <1>4, <1>5, PipelineAssumption DEF Channels
<1> HIDE DEF t
<1>7. r = [q EXCEPT ![cc] = [q[cc] EXCEPT ![g] = t]]
  BY DEF Receive, t, Queues
<1>8. r \in Queues
  BY <1>6, <1>7 DEF Queues
<1>9. ASSUME NEW i \in Goroutines PROVE r[i[1]][i[2]] = IF i = <<cc, g>> THEN t ELSE q[i[1]][i[2]]
  <2>1. i[1] \in CC /\ i[2] \in Gens /\ (i = <<cc, g>> <=> i[1] = cc /\ i[2] = g)
    BY Indices
  <2> QED
    BY <1>7, <2>1 DEF Queues
<1> HIDE DEF r, w
<1>10. In(r, w) = In(q, w) \ {<<cc, g>>}
  BY <1>2, <1>4, <1>9 DEF In
<1>11. ASSUME NEW v \in Works, v # w PROVE In(r, v) = In(q, v)
  BY <1>4, <1>9, <1>11 DEF In
<1>12. <<cc, g>> \in In(q, w)
  BY <1>2, <1>3 DEF In
<1> QED
  BY <1>3, <1>8, <1>10, <1>11, <1>12 DEF r, w

-----------------------------------------------------------------------------
(* How a step may move works.                                              *)

\* The step leaves work v where it is; it leaves the callers' works alone.
Same(v) ==
  /\ InW(v)' = InW(v) /\ InR(v)' = InR(v) /\ Writing(v)' = Writing(v) /\ Reading(v)' = Reading(v)
  /\ work'[v].done <=> work[v].done
  /\ work'[v].pooled <=> work[v].pooled
SameBut(w) == \A v \in Works : v # w => Same(v)
SameUser(p) ==
  /\ caller'[p].w = caller[p].w
  /\ caller[p].w \in Works => (caller'[p].pc = "wait" <=> caller[p].pc = "wait")
SameUsers == \A p \in Callers : SameUser(p)
SameUsersBut(p) == \A q \in Callers : q # p => SameUser(q)

LEMMA SameStays ==
  ASSUME NEW v, Same(v)
  PROVE  (Nowhere(v)' <=> Nowhere(v)) /\ (Somewhere(v)' <=> Somewhere(v))
<1>1. Nowhere(v)' <=> Nowhere(v)
  BY DEF Same, Nowhere
<1>2. /\ One(InW(v))' <=> One(InW(v))
      /\ One(InR(v))' <=> One(InR(v))
      /\ One(Writing(v))' <=> One(Writing(v))
      /\ One(Reading(v))' <=> One(Reading(v))
  BY DEF Same, One
<1>3. Somewhere(v)' <=> Somewhere(v)
  BY <1>2 DEF Same, Somewhere
<1> QED
  BY <1>1, <1>3

\* Nothing is moved.
LEMMA Unmoved ==
  ASSUME Hands, \A v \in Works : Same(v), SameUsers
  PROVE  Hands'
<1>1. \A v \in Works : /\ Nowhere(v)' <=> Nowhere(v)
                       /\ Somewhere(v)' <=> Somewhere(v)
                       /\ work'[v].pooled <=> work[v].pooled
  BY SameStays DEF Same
<1>2. \A p \in Callers : /\ caller'[p].w = caller[p].w
                         /\ caller[p].w \in Works => (caller'[p].pc = "wait" <=> caller[p].pc = "wait")
  BY DEF SameUsers, SameUser
<1> QED
  BY <1>1, <1>2 DEF Hands

\* A work that is somewhere goes somewhere else.
LEMMA Moved ==
  ASSUME Hands, NEW w \in Works, Somewhere(w), Somewhere(w)',
         work'[w].pooled <=> work[w].pooled, SameBut(w), SameUsers
  PROVE  Hands'
<1>1. \A v \in Works : v # w => /\ Nowhere(v)' <=> Nowhere(v)
                                /\ Somewhere(v)' <=> Somewhere(v)
                                /\ work'[v].pooled <=> work[v].pooled
  BY SameStays DEF SameBut, Same
<1>2. \A p \in Callers : /\ caller'[p].w = caller[p].w
                         /\ caller[p].w \in Works => (caller'[p].pc = "wait" <=> caller[p].pc = "wait")
  BY DEF SameUsers, SameUser
<1>3. ~Nowhere(w)
  BY Exclusive
<1> QED
  BY <1>1, <1>2, <1>3 DEF Hands

\* A caller queues its work.
LEMMA GivenAway ==
  ASSUME Hands, NEW p \in Callers, NEW w \in Works, caller[p].w = w,
         caller'[p].w = w, caller'[p].pc = "wait", Somewhere(w)',
         work'[w].pooled <=> work[w].pooled, SameBut(w), SameUsersBut(p)
  PROVE  Hands'
<1>1. \A v \in Works : v # w => /\ Nowhere(v)' <=> Nowhere(v)
                                /\ Somewhere(v)' <=> Somewhere(v)
                                /\ work'[v].pooled <=> work[v].pooled
  BY SameStays DEF SameBut, Same
<1>2. \A q \in Callers : q # p =>
        /\ caller'[q].w = caller[q].w
        /\ caller[q].w \in Works => (caller'[q].pc = "wait" <=> caller[q].pc = "wait")
  BY DEF SameUsersBut, SameUser
<1>3. \A q \in Callers : q # p => caller[q].w # w
  BY DEF Hands
<1> QED
  BY <1>1, <1>2, <1>3 DEF Hands

\* A caller gives its work back to the pool.
LEMMA GivenBack ==
  ASSUME Hands, NEW p \in Callers, NEW w \in Works, caller[p].w = w,
         caller'[p].w = NoWork, Nowhere(w)', SameBut(w), SameUsersBut(p)
  PROVE  Hands'
<1>1. \A v \in Works : v # w => /\ Nowhere(v)' <=> Nowhere(v)
                                /\ Somewhere(v)' <=> Somewhere(v)
                                /\ work'[v].pooled <=> work[v].pooled
  BY SameStays DEF SameBut, Same
<1>2. \A q \in Callers : q # p =>
        /\ caller'[q].w = caller[q].w
        /\ caller[q].w \in Works => (caller'[q].pc = "wait" <=> caller[q].pc = "wait")
  BY DEF SameUsersBut, SameUser
<1>3. \A q \in Callers : q # p => caller[q].w # w
  BY DEF Hands
<1> QED
  BY <1>1, <1>2, <1>3, PipelineAssumption DEF Hands

\* A caller leaves its work to whoever has it.
LEMMA LeftBehind ==
  ASSUME Hands, NEW p \in Callers, caller'[p].w = NoWork,
         \A v \in Works : Same(v), SameUsersBut(p)
  PROVE  Hands'
<1>1. \A v \in Works : /\ Nowhere(v)' <=> Nowhere(v)
                       /\ Somewhere(v)' <=> Somewhere(v)
                       /\ work'[v].pooled <=> work[v].pooled
  BY SameStays DEF Same
<1>2. \A q \in Callers : q # p =>
        /\ caller'[q].w = caller[q].w
        /\ caller[q].w \in Works => (caller'[q].pc = "wait" <=> caller[q].pc = "wait")
  BY DEF SameUsersBut, SameUser
<1> QED
  BY <1>1, <1>2, PipelineAssumption DEF Hands

\* A caller gets a work nobody has.
LEMMA Taken ==
  ASSUME Hands, NEW p \in Callers, NEW w \in Works, caller'[p].w = w, caller'[p].pc # "wait",
         \A q \in Callers : caller[q].w # w,
         Nowhere(w)', ~work'[w].pooled, SameBut(w), SameUsersBut(p)
  PROVE  Hands'
<1>1. \A v \in Works : v # w => /\ Nowhere(v)' <=> Nowhere(v)
                                /\ Somewhere(v)' <=> Somewhere(v)
                                /\ work'[v].pooled <=> work[v].pooled
  BY SameStays DEF SameBut, Same
<1>2. \A q \in Callers : q # p =>
        /\ caller'[q].w = caller[q].w
        /\ caller[q].w \in Works => (caller'[q].pc = "wait" <=> caller[q].pc = "wait")
  BY DEF SameUsersBut, SameUser
<1> QED
  BY <1>1, <1>2 DEF Hands

\* A work that is seen in one place is in no other.
LEMMA FoundInW ==
  ASSUME Hands, NEW w \in Works, NEW x, x \in InW(w)
  PROVE  /\ InW(w) = {x} /\ InR(w) = {} /\ Writing(w) = {} /\ Reading(w) = {} /\ ~work[w].done
         /\ Somewhere(w)
<1>1. ~Nowhere(w) /\ InW(w) # {}
  BY DEF Nowhere
<1>2. Somewhere(w)
  BY <1>1 DEF Hands
<1>3. One(InW(w)) => InW(w) = {x}
  BY DEF One
<1> QED
  BY <1>1, <1>2, <1>3 DEF Somewhere

LEMMA FoundInR ==
  ASSUME Hands, NEW w \in Works, NEW x, x \in InR(w)
  PROVE  /\ InW(w) = {} /\ InR(w) = {x} /\ Writing(w) = {} /\ Reading(w) = {} /\ ~work[w].done
         /\ Somewhere(w)
<1>1. ~Nowhere(w) /\ InR(w) # {}
  BY DEF Nowhere
<1>2. Somewhere(w)
  BY <1>1 DEF Hands
<1>3. One(InR(w)) => InR(w) = {x}
  BY DEF One
<1> QED
  BY <1>1, <1>2, <1>3 DEF Somewhere

LEMMA FoundWriting ==
  ASSUME Hands, NEW w \in Works, NEW i \in Goroutines, writer[i].w = w
  PROVE  /\ InW(w) = {} /\ InR(w) = {} /\ Writing(w) = {i} /\ Reading(w) = {} /\ ~work[w].done
         /\ Somewhere(w)
<1>0. i \in Writing(w)
  BY DEF Writing
<1>1. ~Nowhere(w) /\ Writing(w) # {}
  BY <1>0 DEF Nowhere
<1>2. Somewhere(w)
  BY <1>1 DEF Hands
<1>3. One(Writing(w)) => Writing(w) = {i}
  BY <1>0 DEF One
<1> QED
  BY <1>1, <1>2, <1>3 DEF Somewhere

LEMMA FoundReading ==
  ASSUME Hands, NEW w \in Works, NEW i \in Goroutines, reader[i].w = w
  PROVE  /\ InW(w) = {} /\ InR(w) = {} /\ Writing(w) = {} /\ Reading(w) = {i} /\ ~work[w].done
         /\ Somewhere(w)
<1>0. i \in Reading(w)
  BY DEF Reading
<1>1. ~Nowhere(w) /\ Reading(w) # {}
  BY <1>0 DEF Nowhere
<1>2. Somewhere(w)
  BY <1>1 DEF Hands
<1>3. One(Reading(w)) => Reading(w) = {i}
  BY <1>0 DEF One
<1> QED
  BY <1>1, <1>2, <1>3 DEF Somewhere

-----------------------------------------------------------------------------
(* What a step changes.                                                    *)

\* The fields of the records.
LEMMA CallerFields ==
  ASSUME NEW r \in GoodCallers
  PROVE  /\ r.pc \in {"idle", "init", "push", "full", "again", "slow", "wait"}
         /\ r.cc \in 0..MaxConns /\ r.w \in MaybeWork /\ r.g \in 0..MaxGen /\ r.n \in Nat
         /\ r = [pc |-> r.pc, cc |-> r.cc, w |-> r.w, g |-> r.g, n |-> r.n]
  BY Zenon DEF GoodCallers, GoodCaller, CallerTypes

LEMMA WriterFields ==
  ASSUME NEW r \in GoodWriters
  PROVE  /\ r.pc \in {"start", "take", "write", "pushR", "returned"}
         /\ r.w \in MaybeWork /\ r.g \in 0..MaxGen /\ r.err \in BOOLEAN /\ r.flush \in BOOLEAN
         /\ r.buf \in Seq(Works)
         /\ r = [pc |-> r.pc, w |-> r.w, g |-> r.g, err |-> r.err, flush |-> r.flush, buf |-> r.buf]
  BY Zenon DEF GoodWriters, GoodWriter, WriterTypes

LEMMA ReaderFields ==
  ASSUME NEW r \in GoodReaders
  PROVE  /\ r.pc \in {"start", "take", "read", "returned"}
         /\ r.w \in MaybeWork /\ r.g \in 0..MaxGen /\ r.err \in BOOLEAN
         /\ r = [pc |-> r.pc, w |-> r.w, g |-> r.g, err |-> r.err]
  BY Zenon DEF GoodReaders, GoodReader, ReaderTypes

\* One record is replaced.
LEMMA CallerSet ==
  ASSUME PipelineTyped, NEW p \in Callers, NEW r \in GoodCallers, caller' = [caller EXCEPT ![p] = r]
  PROVE  /\ caller' \in [Callers -> GoodCallers] /\ caller'[p] = r
         /\ \A q \in Callers : q # p => caller'[q] = caller[q]
         /\ SameUsersBut(p)
  BY DEF PipelineTyped, SameUsersBut, SameUser

LEMMA WriterSet ==
  ASSUME PipelineTyped, NEW i \in Goroutines, NEW r \in GoodWriters, writer' = [writer EXCEPT ![i] = r]
  PROVE  /\ writer' \in [Goroutines -> GoodWriters] /\ writer'[i] = r
         /\ \A j \in Goroutines : j # i => writer'[j] = writer[j]
         /\ \A v : r.w = v => Writing(v)' = Writing(v) \cup {i}
         /\ \A v : r.w # v => Writing(v)' = Writing(v) \ {i}
<1>1. /\ writer' \in [Goroutines -> GoodWriters] /\ writer'[i] = r
      /\ \A j \in Goroutines : j # i => writer'[j] = writer[j]
  BY DEF PipelineTyped
<1> QED
  BY <1>1 DEF Writing

LEMMA ReaderSet ==
  ASSUME PipelineTyped, NEW i \in Goroutines, NEW r \in GoodReaders, reader' = [reader EXCEPT ![i] = r]
  PROVE  /\ reader' \in [Goroutines -> GoodReaders] /\ reader'[i] = r
         /\ \A j \in Goroutines : j # i => reader'[j] = reader[j]
         /\ \A v : r.w = v => Reading(v)' = Reading(v) \cup {i}
         /\ \A v : r.w # v => Reading(v)' = Reading(v) \ {i}
<1>1. /\ reader' \in [Goroutines -> GoodReaders] /\ reader'[i] = r
      /\ \A j \in Goroutines : j # i => reader'[j] = reader[j]
  BY DEF PipelineTyped
<1> QED
  BY <1>1 DEF Reading

LEMMA WorkSet ==
  ASSUME PipelineTyped, NEW w \in Works, NEW r \in WorkTypes, work' = [work EXCEPT ![w] = r]
  PROVE  /\ work' \in [Works -> WorkTypes] /\ work'[w] = r
         /\ \A v \in Works : v # w => work'[v] = work[v]
  BY DEF PipelineTyped

\* A work is completed.
LEMMA CompletedRecord ==
  ASSUME NEW x \in WorkTypes,
         NEW err \in {"ErrPipelineOverflow", "errPipelineConnStopped", "ErrTimeout",
                      "writeError", "readError"}
  PROVE  LET y == [x EXCEPT !.done = TRUE, !.err = err]
         IN  y \in WorkTypes /\ y.done /\ (y.pooled <=> x.pooled)
  BY DEF WorkTypes

LEMMA CompleteWork ==
  ASSUME PipelineTyped, NEW w \in Works,
         NEW err \in {"ErrPipelineOverflow", "errPipelineConnStopped", "ErrTimeout",
                      "writeError", "readError"},
         Complete(w, err)
  PROVE  /\ work' \in [Works -> WorkTypes]
         /\ work'[w].done /\ (work'[w].pooled <=> work[w].pooled)
         /\ \A v \in Works : v # w => work'[v] = work[v]
<1> DEFINE r == [work[w] EXCEPT !.done = TRUE, !.err = err]
<1>1. work[w] \in WorkTypes
  BY DEF PipelineTyped
<1>2. r \in WorkTypes /\ r.done /\ (r.pooled <=> work[w].pooled)
  BY <1>1, CompletedRecord
<1>3. work' = [work EXCEPT ![w] = r]
  BY DEF Complete
<1> HIDE DEF r
<1> QED
  BY <1>2, <1>3, WorkSet

\* Channels, writers or readers that are not touched.
LEMMA KeptW == ASSUME chW' = chW PROVE \A v : InW(v)' = InW(v)
  BY DEF InW, In
LEMMA KeptR == ASSUME chR' = chR PROVE \A v : InR(v)' = InR(v)
  BY DEF InR, In
LEMMA KeptWriters == ASSUME writer' = writer PROVE \A v : Writing(v)' = Writing(v)
  BY DEF Writing
LEMMA KeptReaders == ASSUME reader' = reader PROVE \A v : Reading(v)' = Reading(v)
  BY DEF Reading
LEMMA KeptUsers == ASSUME caller' = caller PROVE SameUsers
  BY DEF SameUsers, SameUser
\* A caller moves on and keeps its work.
LEMMA UsersGoOn ==
  ASSUME NEW p \in Callers, SameUsersBut(p), SameUser(p) PROVE SameUsers
  BY DEF SameUsers, SameUsersBut

\* Send and Receive on the channel a goroutine or a caller has.
LEMMA SendW ==
  ASSUME PipelineTyped, NEW cc \in CC, NEW g, g \in 0..MaxGen, NEW w \in Works, Nowhere(w),
         Room(chW, cc, g), chW' = Send(chW, cc, g, w)
  PROVE  /\ chW' \in Queues /\ InW(w)' = {<<cc, g>>}
         /\ \A v \in Works : v # w => InW(v)' = InW(v)
<1>1. g \in Gens /\ Len(chW[cc][g]) < Cap
  BY PipelineAssumption DEF Room, Gens
<1>2. In(chW, w) = {} /\ chW \in Queues
  BY DEF Nowhere, InW, PipelineTyped
<1>3. /\ Send(chW, cc, g, w) \in Queues
      /\ In(Send(chW, cc, g, w), w) = {<<cc, g>>}
      /\ \A v \in Works : v # w => In(Send(chW, cc, g, w), v) = In(chW, v)
  BY <1>1, <1>2, SendIn
<1>4. \A v : InW(v)' = In(Send(chW, cc, g, w), v) /\ InW(v) = In(chW, v)
  BY DEF InW, In
<1> QED
  BY <1>3, <1>4

LEMMA SendR ==
  ASSUME PipelineTyped, NEW cc \in CC, NEW g, g \in 0..MaxGen, NEW w \in Works, InR(w) = {},
         Room(chR, cc, g), chR' = Send(chR, cc, g, w)
  PROVE  /\ chR' \in Queues /\ InR(w)' = {<<cc, g>>}
         /\ \A v \in Works : v # w => InR(v)' = InR(v)
<1>1. g \in Gens /\ Len(chR[cc][g]) < Cap
  BY PipelineAssumption DEF Room, Gens
<1>2. In(chR, w) = {} /\ chR \in Queues
  BY DEF InR, PipelineTyped
<1>3. /\ Send(chR, cc, g, w) \in Queues
      /\ In(Send(chR, cc, g, w), w) = {<<cc, g>>}
      /\ \A v \in Works : v # w => In(Send(chR, cc, g, w), v) = In(chR, v)
  BY <1>1, <1>2, SendIn
<1>4. \A v : InR(v)' = In(Send(chR, cc, g, w), v) /\ InR(v) = In(chR, v)
  BY DEF InR, In
<1> QED
  BY <1>3, <1>4

LEMMA ReceiveW ==
  ASSUME PipelineTyped, Hands, NEW cc \in CC, NEW g, g \in 0..MaxGen,
         NEW w, w = Head(chW[cc][g]),
         HasWork(chW, cc, g), chW' = Receive(chW, cc, g)
  PROVE  /\ w \in Works /\ chW' \in Queues
         /\ InW(w) # {} /\ InW(w)' = {}
         /\ \A v \in Works : v # w => InW(v)' = InW(v)
<1>1. g \in Gens /\ chW[cc][g] # <<>> /\ chW \in Queues
  BY PipelineAssumption DEF HasWork, Gens, PipelineTyped
<1>2. /\ Receive(chW, cc, g) \in Queues
      /\ w \in Works /\ <<cc, g>> \in In(chW, w)
      /\ In(Receive(chW, cc, g), w) = In(chW, w) \ {<<cc, g>>}
      /\ \A v \in Works : v # w => In(Receive(chW, cc, g), v) = In(chW, v)
  BY <1>1, ReceiveIn
<1>3. \A v : InW(v)' = In(Receive(chW, cc, g), v) /\ InW(v) = In(chW, v)
  BY DEF InW, In
<1>4. InW(w) = {<<cc, g>>}
  BY <1>2, <1>3, FoundInW
<1> QED
  BY <1>2, <1>3, <1>4

LEMMA ReceiveR ==
  ASSUME PipelineTyped, Hands, NEW cc \in CC, NEW g, g \in 0..MaxGen,
         NEW w, w = Head(chR[cc][g]),
         HasWork(chR, cc, g), chR' = Receive(chR, cc, g)
  PROVE  /\ w \in Works /\ chR' \in Queues
         /\ InR(w) # {} /\ InR(w)' = {}
         /\ \A v \in Works : v # w => InR(v)' = InR(v)
<1>1. g \in Gens /\ chR[cc][g] # <<>> /\ chR \in Queues
  BY PipelineAssumption DEF HasWork, Gens, PipelineTyped
<1>2. /\ Receive(chR, cc, g) \in Queues
      /\ w \in Works /\ <<cc, g>> \in In(chR, w)
      /\ In(Receive(chR, cc, g), w) = In(chR, w) \ {<<cc, g>>}
      /\ \A v \in Works : v # w => In(Receive(chR, cc, g), v) = In(chR, v)
  BY <1>1, ReceiveIn
<1>3. \A v : InR(v)' = In(Receive(chR, cc, g), v) /\ InR(v) = In(chR, v)
  BY DEF InR, In
<1>4. InR(w) = {<<cc, g>>}
  BY <1>2, <1>3, FoundInR
<1> QED
  BY <1>2, <1>3, <1>4

-----------------------------------------------------------------------------
(* The steps of the writer.                                                *)

LEMMA NoWorkIsNone == \A v \in Works : v # NoWork
  BY PipelineAssumption

LEMMA WriterAt ==
  ASSUME PipelineTyped, NEW i \in Goroutines
  PROVE  /\ writer[i] \in GoodWriters /\ writer[i].g \in 0..MaxGen /\ writer[i].buf \in Seq(Works)
         /\ writer[i].pc \in {"write", "pushR"} => writer[i].w \in Works
         /\ writer[i].pc \notin {"write", "pushR"} => writer[i].w = NoWork
<1>1. writer[i] \in GoodWriters
  BY DEF PipelineTyped
<1>2. GoodWriter(writer[i])
  BY <1>1 DEF GoodWriters
<1>3. writer[i].w \in MaybeWork /\ writer[i].g \in 0..MaxGen /\ writer[i].buf \in Seq(Works)
  BY <1>1, WriterFields
<1> QED
  BY <1>1, <1>2, <1>3 DEF GoodWriter, MaybeWork

\* What every step of a writer that runs leaves alone.
LEMMA WriterFrame ==
  ASSUME PlaceInv, NEW i \in Goroutines, writer[i].pc # "returned", NEW r \in GoodWriters,
         writer' = [writer EXCEPT ![i] = r], UNCHANGED <<clientVars, gen, worker, reader>>,
         chW' \in Queues, chR' \in Queues, work' \in [Works -> WorkTypes],
         wire' \in [Goroutines -> Seq(Works)], Hands'
  PROVE  PlaceInv'
<1>1. /\ writer' \in [Goroutines -> GoodWriters]
      /\ \A j \in Goroutines : j # i => writer'[j] = writer[j]
  BY WriterSet DEF PlaceInv
<1>2. PipelineTyped'
  BY <1>1 DEF PlaceInv, PipelineTyped, clientVars
<1>3. Phases'
  BY <1>1 DEF PlaceInv, Phases, clientVars
<1> QED
  BY <1>2, <1>3 DEF PlaceInv

\* The writer keeps the work it has, or has none.
LEMMA WriterStays ==
  ASSUME PlaceInv, NEW i \in Goroutines, NEW r \in GoodWriters, r.w = writer[i].w,
         writer' = [writer EXCEPT ![i] = r], UNCHANGED <<chW, chR, work, reader, caller>>
  PROVE  Hands'
<1>1. \A v : Writing(v)' = Writing(v)
  <2>1. ASSUME NEW v, r.w = v PROVE Writing(v)' = Writing(v)
    <3>1. Writing(v)' = Writing(v) \cup {i}
      BY <2>1, WriterSet DEF PlaceInv
    <3>2. i \in Writing(v)
      BY <2>1 DEF Writing
    <3> QED
      BY <3>1, <3>2
  <2>2. ASSUME NEW v, r.w # v PROVE Writing(v)' = Writing(v)
    <3>1. Writing(v)' = Writing(v) \ {i}
      BY <2>2, WriterSet DEF PlaceInv
    <3>2. i \notin Writing(v)
      BY <2>2 DEF Writing
    <3> QED
      BY <3>1, <3>2
  <2> QED
    BY <2>1, <2>2
<1>2. \A v \in Works : Same(v)
  BY <1>1, KeptW, KeptR, KeptReaders DEF Same
<1> QED
  BY <1>2, KeptUsers, Unmoved DEF PlaceInv

\* The writer completes its work.
LEMMA WriterCompletes ==
  ASSUME PlaceInv, NEW i \in Goroutines, NEW w \in Works, writer[i].w = w,
         NEW r \in GoodWriters, r.w = NoWork, writer' = [writer EXCEPT ![i] = r],
         NEW err \in {"ErrPipelineOverflow", "errPipelineConnStopped", "ErrTimeout",
                      "writeError", "readError"},
         Complete(w, err), UNCHANGED <<chW, chR, reader, caller>>
  PROVE  Hands' /\ work' \in [Works -> WorkTypes]
<1>1. /\ InW(w) = {} /\ InR(w) = {} /\ Writing(w) = {i} /\ Reading(w) = {}
      /\ Somewhere(w)
  BY FoundWriting DEF PlaceInv
<1>2. /\ work' \in [Works -> WorkTypes]
      /\ work'[w].done /\ (work'[w].pooled <=> work[w].pooled)
      /\ \A v \in Works : v # w => work'[v] = work[v]
  BY CompleteWork DEF PlaceInv
<1>3. \A v \in Works : Writing(v)' = Writing(v) \ {i}
  BY WriterSet, NoWorkIsNone, ZenonT(40) DEF PlaceInv
<1>4. \A v \in Works : v # w => Writing(v)' = Writing(v)
  BY <1>3 DEF Writing
<1>5. /\ \A v : InW(v)' = InW(v)
      /\ \A v : InR(v)' = InR(v)
      /\ \A v : Reading(v)' = Reading(v)
  BY KeptW, KeptR, KeptReaders
<1>6. Somewhere(w)'
  BY <1>1, <1>2, <1>3, <1>5 DEF Somewhere
<1>7. SameBut(w)
  BY <1>2, <1>4, <1>5 DEF SameBut, Same
<1> QED
  BY <1>1, <1>2, <1>6, <1>7, KeptUsers, Moved DEF PlaceInv

LEMMA WriterStartStep ==
  ASSUME PlaceInv, NEW i \in Goroutines, WriterStart(i) PROVE PlaceInv'
<1> DEFINE r == [writer[i] EXCEPT !.pc = "take", !.g = gen[i[1]]]
<1>1. writer[i] \in GoodWriters /\ writer[i].w = NoWork /\ writer[i].pc = "start"
  BY WriterAt DEF PlaceInv, WriterStart
<1>2. gen[i[1]] \in 0..MaxGen
  BY Indices DEF PlaceInv, PipelineTyped
<1>3. r \in GoodWriters /\ r.w = writer[i].w
  BY <1>1, <1>2 DEF GoodWriters, GoodWriter, WriterTypes
<1>4. writer' = [writer EXCEPT ![i] = r] /\ UNCHANGED <<clientVars, gen, chW, chR, work, worker, reader, wire>>
  BY DEF WriterStart
<1> HIDE DEF r
<1>5. Hands'
  BY <1>3, <1>4, WriterStays DEF clientVars
<1> QED
  BY <1>1, <1>3, <1>4, <1>5, WriterFrame DEF PlaceInv, PipelineTyped

LEMMA WriterTakeStep ==
  ASSUME PlaceInv, NEW i \in Goroutines, WriterTake(i) PROVE PlaceInv'
<1> PICK w : w = Head(chW[i[1]][writer[i].g])
  OBVIOUS
<1> DEFINE r == [writer[i] EXCEPT !.pc = "write", !.w = w]
<1>1. writer[i] \in GoodWriters /\ writer[i].w = NoWork /\ writer[i].pc = "take"
      /\ writer[i].g \in 0..MaxGen
  BY WriterAt DEF PlaceInv, WriterTake
<1>2. /\ w \in Works /\ chW' \in Queues
      /\ InW(w) # {} /\ InW(w)' = {}
      /\ \A v \in Works : v # w => InW(v)' = InW(v)
  BY <1>1, Indices, ReceiveW DEF PlaceInv, WriterTake
<1>3. r \in GoodWriters /\ r.w = w
  BY <1>1, <1>2, NoWorkIsNone DEF GoodWriters, GoodWriter, WriterTypes, MaybeWork
<1>4. /\ writer' = [writer EXCEPT ![i] = r]
      /\ UNCHANGED <<clientVars, gen, chR, work, worker, reader, wire>>
  BY DEF WriterTake
<1> HIDE DEF r
<1>5. PICK x : x \in InW(w)
  BY <1>2
<1>6. /\ InR(w) = {} /\ Writing(w) = {} /\ Reading(w) = {} /\ ~work[w].done
      /\ Somewhere(w)
  BY <1>2, <1>5, FoundInW DEF PlaceInv
<1>7. /\ Writing(w)' = Writing(w) \cup {i}
      /\ \A v \in Works : v # w => Writing(v)' = Writing(v) \ {i}
  BY <1>3, <1>4, WriterSet DEF PlaceInv
<1>8. \A v \in Works : i \notin Writing(v)
  BY <1>1, NoWorkIsNone DEF Writing
<1>9. /\ \A v : InR(v)' = InR(v)
      /\ \A v : Reading(v)' = Reading(v)
  BY <1>4, KeptR, KeptReaders
<1>10. One(Writing(w)')
  BY <1>6, <1>7 DEF One
<1>11. Somewhere(w)'
  BY <1>2, <1>4, <1>6, <1>9, <1>10 DEF Somewhere, One
<1>12. SameBut(w)
  <2>1. \A v \in Works : v # w => Writing(v)' = Writing(v)
    BY <1>7, <1>8
  <2> QED
    BY <1>2, <1>4, <1>9, <2>1 DEF SameBut, Same
<1>13. Hands'
  BY <1>2, <1>4, <1>6, <1>11, <1>12, KeptUsers, Moved DEF PlaceInv, clientVars
<1> QED
  BY <1>1, <1>2, <1>3, <1>4, <1>13, WriterFrame DEF PlaceInv, PipelineTyped

LEMMA NewGood ==
  /\ NewWriter \in GoodWriters /\ NewWriter.w = NoWork
  /\ NewReader \in GoodReaders /\ NewReader.w = NoWork
<1>1. <<>> \in Seq(Works) /\ 0 \in 0..MaxGen /\ NoWork \in MaybeWork
  BY PipelineAssumption DEF MaybeWork
<1>2. NewWriter \in WriterTypes
  BY <1>1, Zenon DEF NewWriter, WriterTypes
<1>3. NewReader \in ReaderTypes
  BY <1>1, Zenon DEF NewReader, ReaderTypes
<1>4. NewWriter.w = NoWork /\ NewWriter.pc = "start" /\ NewReader.w = NoWork /\ NewReader.pc = "start"
  BY DEF NewWriter, NewReader
<1> QED
  BY <1>2, <1>3, <1>4 DEF GoodWriters, GoodReaders, GoodWriter, GoodReader

\* The writer returns: it has no work any more, and what it flushes is works.
LEMMA WriterReturns ==
  ASSUME PipelineTyped, NEW i \in Goroutines, NEW err \in BOOLEAN, WriterReturn(i, err)
  PROVE  \E r \in GoodWriters : /\ r.w = NoWork /\ writer' = [writer EXCEPT ![i] = r]
                                /\ wire' \in [Goroutines -> Seq(Works)]
<1> DEFINE r == [NewWriter EXCEPT !.pc = "returned", !.err = err]
<1>1. NewWriter \in GoodWriters /\ NewWriter.w = NoWork
  BY NewGood
<1>2. r \in GoodWriters
  BY <1>1 DEF GoodWriters, GoodWriter, WriterTypes
<1>3. r.w = NoWork
  BY <1>1 DEF GoodWriters, GoodWriter, WriterTypes
<1>4. wire[i] \in Seq(Works) /\ writer[i].buf \in Seq(Works) /\ wire \in [Goroutines -> Seq(Works)]
  BY WriterAt DEF PipelineTyped
<1>5. wire[i] \o writer[i].buf \in Seq(Works)
  BY <1>4
<1>6. wire' \in [Goroutines -> Seq(Works)]
  BY <1>4, <1>5 DEF WriterReturn
<1>7. writer' = [writer EXCEPT ![i] = r]
  BY DEF WriterReturn
<1> QED
  BY <1>2, <1>3, <1>6, <1>7

LEMMA WriterQuitStep ==
  ASSUME PlaceInv, NEW i \in Goroutines, WriterIdle(i) \/ WriterStop(i) PROVE PlaceInv'
<1>1. /\ writer[i].pc = "take" /\ WriterReturn(i, FALSE)
      /\ UNCHANGED <<clientVars, gen, chW, chR, work, worker, reader>>
  BY DEF WriterIdle, WriterStop, WaitsForWork
<1>2. PICK r \in GoodWriters : /\ r.w = NoWork /\ writer' = [writer EXCEPT ![i] = r]
                               /\ wire' \in [Goroutines -> Seq(Works)]
  BY <1>1, WriterReturns DEF PlaceInv
<1>3. writer[i].w = NoWork
  BY <1>1, WriterAt DEF PlaceInv
<1>4. Hands'
  BY <1>1, <1>2, <1>3, WriterStays DEF clientVars
<1> QED
  BY <1>1, <1>2, <1>4, WriterFrame DEF PlaceInv, PipelineTyped

LEMMA WriterFlushStep ==
  ASSUME PlaceInv, NEW i \in Goroutines, WriterFlush(i) PROVE PlaceInv'
<1> DEFINE r == [writer[i] EXCEPT !.flush = FALSE, !.buf = <<>>]
<1>1. writer[i] \in GoodWriters /\ writer[i].pc # "returned" /\ writer[i].buf \in Seq(Works)
  BY WriterAt DEF PlaceInv, WriterFlush, WaitsForWork, WaitsForRoom
<1>2. <<>> \in Seq(Works)
  OBVIOUS
<1>3. r \in GoodWriters /\ r.w = writer[i].w
  BY <1>1, <1>2 DEF GoodWriters, GoodWriter, WriterTypes
<1>4. /\ writer' = [writer EXCEPT ![i] = r]
      /\ UNCHANGED <<clientVars, gen, chW, chR, work, worker, reader>>
  BY DEF WriterFlush
<1> HIDE DEF r
<1>5. Hands'
  BY <1>3, <1>4, WriterStays DEF clientVars
<1>6. wire[i] \in Seq(Works) /\ wire \in [Goroutines -> Seq(Works)]
  BY DEF PlaceInv, PipelineTyped
<1>7. wire[i] \o writer[i].buf \in Seq(Works)
  BY <1>1, <1>6
<1>8. wire' \in [Goroutines -> Seq(Works)]
  BY <1>6, <1>7 DEF WriterFlush
<1> QED
  BY <1>1, <1>3, <1>4, <1>5, <1>8, WriterFrame DEF PlaceInv, PipelineTyped

\* The writer fails or stops with a work in hand.
LEMMA WriterGivesUp ==
  ASSUME PlaceInv, NEW i \in Goroutines, writer[i].pc \in {"write", "pushR"}, NEW e \in BOOLEAN,
         WriterReturn(i, e), NEW err \in {"errPipelineConnStopped", "writeError"},
         Complete(writer[i].w, err), UNCHANGED <<clientVars, gen, chW, chR, worker, reader>>
  PROVE  PlaceInv'
<1> PICK w : w = writer[i].w
  OBVIOUS
<1>1. w \in Works
  BY WriterAt DEF PlaceInv
<1>2. PICK r \in GoodWriters : /\ r.w = NoWork /\ writer' = [writer EXCEPT ![i] = r]
                               /\ wire' \in [Goroutines -> Seq(Works)]
  BY WriterReturns DEF PlaceInv
<1>3. Complete(w, err)
  BY DEF Complete
<1>4. Hands' /\ work' \in [Works -> WorkTypes]
  BY <1>1, <1>2, <1>3, WriterCompletes DEF clientVars
<1> QED
  BY <1>2, <1>4, WriterFrame DEF PlaceInv, PipelineTyped

LEMMA WriterFlushFailsStep ==
  ASSUME PlaceInv, NEW i \in Goroutines, WriterFlushFails(i) PROVE PlaceInv'
<1>1. WriterReturn(i, TRUE) /\ UNCHANGED <<clientVars, gen, chW, chR, worker, reader>>
  BY DEF WriterFlushFails
<1>2. CASE writer[i].pc = "pushR"
  BY <1>1, <1>2, WriterGivesUp DEF WriterFlushFails
<1>3. CASE writer[i].pc = "take"
  <2>1. UNCHANGED work
    BY <1>3 DEF WriterFlushFails
  <2>2. PICK r \in GoodWriters : /\ r.w = NoWork /\ writer' = [writer EXCEPT ![i] = r]
                                 /\ wire' \in [Goroutines -> Seq(Works)]
    BY <1>1, WriterReturns DEF PlaceInv
  <2>3. writer[i].w = NoWork
    BY <1>3, WriterAt DEF PlaceInv
  <2>4. Hands'
    BY <1>1, <2>1, <2>2, <2>3, WriterStays DEF clientVars
  <2> QED
    BY <1>1, <1>3, <2>1, <2>2, <2>4, WriterFrame DEF PlaceInv, PipelineTyped
<1> QED
  BY <1>2, <1>3 DEF WriterFlushFails, WaitsForWork, WaitsForRoom

LEMMA WriterWriteFailsStep ==
  ASSUME PlaceInv, NEW i \in Goroutines, WriterWriteFails(i) PROVE PlaceInv'
  BY WriterGivesUp DEF WriterWriteFails

LEMMA WriterStopFullStep ==
  ASSUME PlaceInv, NEW i \in Goroutines, WriterStopFull(i) PROVE PlaceInv'
  BY WriterGivesUp DEF WriterStopFull, WaitsForRoom

LEMMA WriterTooLateStep ==
  ASSUME PlaceInv, NEW i \in Goroutines, WriterTooLate(i) PROVE PlaceInv'
<1> PICK w : w = writer[i].w
  OBVIOUS
<1> DEFINE r == [writer[i] EXCEPT !.pc = "take", !.w = NoWork]
<1>1. writer[i] \in GoodWriters /\ w \in Works /\ writer[i].pc = "write"
  BY WriterAt DEF PlaceInv, WriterTooLate
<1>2. r \in GoodWriters /\ r.w = NoWork
  BY <1>1 DEF GoodWriters, GoodWriter, WriterTypes, MaybeWork
<1>3. /\ writer' = [writer EXCEPT ![i] = r] /\ Complete(w, "ErrTimeout")
      /\ UNCHANGED <<clientVars, gen, chW, chR, worker, reader, wire>>
  BY DEF WriterTooLate, Complete
<1> HIDE DEF r
<1>4. Hands' /\ work' \in [Works -> WorkTypes]
  BY <1>1, <1>2, <1>3, WriterCompletes DEF clientVars
<1> QED
  BY <1>1, <1>2, <1>3, <1>4, WriterFrame DEF PlaceInv, PipelineTyped

LEMMA WriterWriteStep ==
  ASSUME PlaceInv, NEW i \in Goroutines, WriterWrite(i) PROVE PlaceInv'
<1>1. writer[i] \in GoodWriters /\ writer[i].w \in Works /\ writer[i].pc = "write"
      /\ writer[i].buf \in Seq(Works)
  BY WriterAt DEF PlaceInv, WriterWrite
<1>2. PICK f \in BOOLEAN : writer' = [writer EXCEPT ![i].pc = "pushR",
                                                    ![i].buf = Append(@, writer[i].w), ![i].flush = f]
  <2> DEFINE arm == \/ ~HasWork(chW, i[1], writer[i].g)
                    \/ (IF writer[i].g = 0 THEN FALSE ELSE Len(chR[i[1]][writer[i].g]) = Cap)
             f == writer[i].flush \/ arm
  <2>1. writer' = [writer EXCEPT ![i].pc = "pushR", ![i].buf = Append(@, writer[i].w), ![i].flush = f]
    BY DEF WriterWrite
  <2>2. f \in BOOLEAN
    OBVIOUS
  <2> QED
    BY <2>1, <2>2
<1> DEFINE b == Append(writer[i].buf, writer[i].w)
           r == [writer[i] EXCEPT !.pc = "pushR", !.buf = b, !.flush = f]
<1>3. b \in Seq(Works)
  BY <1>1
<1>4. writer' = [writer EXCEPT ![i] = r]
  BY <1>2
<1> HIDE DEF b
<1>5. r \in GoodWriters /\ r.w = writer[i].w
  BY <1>1, <1>3 DEF GoodWriters, GoodWriter, WriterTypes
<1>6. UNCHANGED <<clientVars, gen, chW, chR, work, worker, reader, wire>>
  BY DEF WriterWrite
<1> HIDE DEF r
<1>7. Hands'
  BY <1>4, <1>5, <1>6, WriterStays DEF clientVars
<1> QED
  BY <1>1, <1>4, <1>5, <1>6, <1>7, WriterFrame DEF PlaceInv, PipelineTyped

LEMMA WriterPassStep ==
  ASSUME PlaceInv, NEW i \in Goroutines, WriterPass(i) PROVE PlaceInv'
<1> PICK w : w = writer[i].w
  OBVIOUS
<1> DEFINE r == [writer[i] EXCEPT !.pc = "take", !.w = NoWork]
<1>1. writer[i] \in GoodWriters /\ w \in Works /\ writer[i].pc = "pushR" /\ writer[i].g \in 0..MaxGen
  BY WriterAt DEF PlaceInv, WriterPass
<1>2. r \in GoodWriters /\ r.w = NoWork
  BY <1>1 DEF GoodWriters, GoodWriter, WriterTypes, MaybeWork
<1>3. /\ writer' = [writer EXCEPT ![i] = r]
      /\ UNCHANGED <<clientVars, gen, chW, work, worker, reader, wire>>
  BY DEF WriterPass
<1> HIDE DEF r
<1>4. /\ InW(w) = {} /\ InR(w) = {} /\ Writing(w) = {i} /\ Reading(w) = {} /\ ~work[w].done
      /\ Somewhere(w)
  BY <1>1, FoundWriting DEF PlaceInv
<1>5. /\ chR' \in Queues /\ InR(w)' = {<<i[1], writer[i].g>>}
      /\ \A v \in Works : v # w => InR(v)' = InR(v)
  BY <1>1, <1>4, Indices, SendR DEF PlaceInv, WriterPass
<1>6. \A v \in Works : Writing(v)' = Writing(v) \ {i}
  BY <1>2, <1>3, WriterSet, NoWorkIsNone DEF PlaceInv
<1>7. \A v \in Works : v # w => Writing(v)' = Writing(v)
  BY <1>6 DEF Writing
<1>8. /\ \A v : InW(v)' = InW(v)
      /\ \A v : Reading(v)' = Reading(v)
  BY <1>3, KeptW, KeptReaders
<1>9. One(InR(w)')
  BY <1>5 DEF One
<1>10. Somewhere(w)'
  BY <1>1, <1>3, <1>4, <1>6, <1>8, <1>9 DEF Somewhere, One
<1>11. SameBut(w)
  BY <1>3, <1>5, <1>7, <1>8 DEF SameBut, Same
<1>12. Hands'
  BY <1>1, <1>3, <1>4, <1>10, <1>11, KeptUsers, Moved DEF PlaceInv, clientVars
<1> QED
  BY <1>1, <1>2, <1>3, <1>5, <1>12, WriterFrame DEF PlaceInv, PipelineTyped

-----------------------------------------------------------------------------
(* The steps of the reader.                                                *)

LEMMA ReaderAt ==
  ASSUME PipelineTyped, NEW i \in Goroutines
  PROVE  /\ reader[i] \in GoodReaders /\ reader[i].g \in 0..MaxGen
         /\ reader[i].pc = "read" => reader[i].w \in Works
         /\ reader[i].pc # "read" => reader[i].w = NoWork
<1>1. reader[i] \in GoodReaders
  BY DEF PipelineTyped
<1>2. GoodReader(reader[i])
  BY <1>1 DEF GoodReaders
<1>3. reader[i].w \in MaybeWork /\ reader[i].g \in 0..MaxGen
  BY <1>1, ReaderFields
<1> QED
  BY <1>1, <1>2, <1>3 DEF GoodReader, MaybeWork

LEMMA ReaderFrame ==
  ASSUME PlaceInv, NEW i \in Goroutines, reader[i].pc # "returned", NEW r \in GoodReaders,
         reader' = [reader EXCEPT ![i] = r], UNCHANGED <<clientVars, gen, chW, worker, writer>>,
         chR' \in Queues, work' \in [Works -> WorkTypes],
         wire' \in [Goroutines -> Seq(Works)], Hands'
  PROVE  PlaceInv'
<1>1. /\ reader' \in [Goroutines -> GoodReaders]
      /\ \A j \in Goroutines : j # i => reader'[j] = reader[j]
  BY ReaderSet DEF PlaceInv
<1>2. PipelineTyped'
  BY <1>1 DEF PlaceInv, PipelineTyped, clientVars
<1>3. Phases'
  BY <1>1 DEF PlaceInv, Phases, clientVars
<1> QED
  BY <1>2, <1>3 DEF PlaceInv

\* A reader without a work goes on without one.
LEMMA ReaderStays ==
  ASSUME PlaceInv, NEW i \in Goroutines, NEW r \in GoodReaders, r.w = NoWork, reader[i].w = NoWork,
         reader' = [reader EXCEPT ![i] = r], UNCHANGED <<chW, chR, work, writer, caller>>
  PROVE  Hands'
<1>1. \A v \in Works : Reading(v)' = Reading(v) \ {i}
  BY ReaderSet, NoWorkIsNone, ZenonT(40) DEF PlaceInv
<1>2. \A v \in Works : i \notin Reading(v)
  BY NoWorkIsNone DEF Reading
<1>3. \A v \in Works : Same(v)
  BY <1>1, <1>2, KeptW, KeptR, KeptWriters DEF Same
<1> QED
  BY <1>3, KeptUsers, Unmoved DEF PlaceInv

\* The reader completes its work.
LEMMA ReaderCompletes ==
  ASSUME PlaceInv, NEW i \in Goroutines, NEW w \in Works, reader[i].w = w,
         NEW r \in GoodReaders, r.w = NoWork, reader' = [reader EXCEPT ![i] = r],
         work'[w].done, work'[w].pooled <=> work[w].pooled,
         \A v \in Works : v # w => work'[v] = work[v],
         UNCHANGED <<chW, chR, writer, caller>>
  PROVE  Hands'
<1>1. /\ InW(w) = {} /\ InR(w) = {} /\ Writing(w) = {} /\ Reading(w) = {i}
      /\ Somewhere(w)
  BY FoundReading DEF PlaceInv
<1>2. \A v \in Works : Reading(v)' = Reading(v) \ {i}
  BY ReaderSet, NoWorkIsNone, ZenonT(40) DEF PlaceInv
<1>3. \A v \in Works : v # w => Reading(v)' = Reading(v)
  BY <1>2 DEF Reading
<1>4. /\ \A v : InW(v)' = InW(v)
      /\ \A v : InR(v)' = InR(v)
      /\ \A v : Writing(v)' = Writing(v)
  BY KeptW, KeptR, KeptWriters
<1>5. Somewhere(w)'
  BY <1>1, <1>2, <1>4 DEF Somewhere
<1>6. SameBut(w)
  BY <1>3, <1>4 DEF SameBut, Same
<1> QED
  BY <1>1, <1>5, <1>6, KeptUsers, Moved DEF PlaceInv

LEMMA ReaderStartStep ==
  ASSUME PlaceInv, NEW i \in Goroutines, ReaderStart(i) PROVE PlaceInv'
<1> DEFINE r == [reader[i] EXCEPT !.pc = "take", !.g = gen[i[1]]]
<1>1. reader[i] \in GoodReaders /\ reader[i].w = NoWork /\ reader[i].pc = "start"
  BY ReaderAt DEF PlaceInv, ReaderStart
<1>2. gen[i[1]] \in 0..MaxGen
  BY Indices DEF PlaceInv, PipelineTyped
<1>3. r \in GoodReaders /\ r.w = NoWork
  BY <1>1, <1>2 DEF GoodReaders, GoodReader, ReaderTypes
<1>4. /\ reader' = [reader EXCEPT ![i] = r]
      /\ UNCHANGED <<clientVars, gen, chW, chR, work, worker, writer, wire>>
  BY DEF ReaderStart
<1> HIDE DEF r
<1>5. Hands'
  BY <1>1, <1>3, <1>4, ReaderStays DEF clientVars
<1> QED
  BY <1>1, <1>3, <1>4, <1>5, ReaderFrame DEF PlaceInv, PipelineTyped

LEMMA ReaderStopStep ==
  ASSUME PlaceInv, NEW i \in Goroutines, ReaderStop(i) PROVE PlaceInv'
<1> DEFINE r == [NewReader EXCEPT !.pc = "returned"]
<1>1. reader[i].w = NoWork /\ reader[i].pc = "take"
  BY ReaderAt DEF PlaceInv, ReaderStop
<1>2. r \in GoodReaders /\ r.w = NoWork
  BY NewGood DEF GoodReaders, GoodReader, ReaderTypes
<1>3. /\ reader' = [reader EXCEPT ![i] = r]
      /\ UNCHANGED <<clientVars, gen, chW, chR, work, worker, writer, wire>>
  BY DEF ReaderStop
<1> HIDE DEF r
<1>4. Hands'
  BY <1>1, <1>2, <1>3, ReaderStays DEF clientVars
<1> QED
  BY <1>1, <1>2, <1>3, <1>4, ReaderFrame DEF PlaceInv, PipelineTyped

LEMMA ReaderTakeStep ==
  ASSUME PlaceInv, NEW i \in Goroutines, ReaderTake(i) PROVE PlaceInv'
<1> PICK w : w = Head(chR[i[1]][reader[i].g])
  OBVIOUS
<1> DEFINE r == [reader[i] EXCEPT !.pc = "read", !.w = w]
<1>1. reader[i] \in GoodReaders /\ reader[i].w = NoWork /\ reader[i].pc = "take"
      /\ reader[i].g \in 0..MaxGen
  BY ReaderAt DEF PlaceInv, ReaderTake
<1>2. /\ w \in Works /\ chR' \in Queues
      /\ InR(w) # {} /\ InR(w)' = {}
      /\ \A v \in Works : v # w => InR(v)' = InR(v)
  BY <1>1, Indices, ReceiveR DEF PlaceInv, ReaderTake
<1>3. r \in GoodReaders /\ r.w = w
  BY <1>1, <1>2, NoWorkIsNone DEF GoodReaders, GoodReader, ReaderTypes, MaybeWork
<1>4. /\ reader' = [reader EXCEPT ![i] = r]
      /\ UNCHANGED <<clientVars, gen, chW, work, worker, writer, wire>>
  BY DEF ReaderTake
<1> HIDE DEF r
<1>5. PICK x : x \in InR(w)
  BY <1>2
<1>6. /\ InW(w) = {} /\ Writing(w) = {} /\ Reading(w) = {} /\ ~work[w].done
      /\ Somewhere(w)
  BY <1>2, <1>5, FoundInR DEF PlaceInv
<1>7. /\ Reading(w)' = Reading(w) \cup {i}
      /\ \A v \in Works : v # w => Reading(v)' = Reading(v) \ {i}
  BY <1>3, <1>4, ReaderSet DEF PlaceInv
<1>8. \A v \in Works : i \notin Reading(v)
  BY <1>1, NoWorkIsNone DEF Reading
<1>9. /\ \A v : InW(v)' = InW(v)
      /\ \A v : Writing(v)' = Writing(v)
  BY <1>4, KeptW, KeptWriters
<1>10. One(Reading(w)')
  BY <1>6, <1>7 DEF One
<1>11. Somewhere(w)'
  BY <1>2, <1>4, <1>6, <1>9, <1>10 DEF Somewhere, One
<1>12. SameBut(w)
  <2>1. \A v \in Works : v # w => Reading(v)' = Reading(v)
    BY <1>7, <1>8
  <2> QED
    BY <1>2, <1>4, <1>9, <2>1 DEF SameBut, Same
<1>13. Hands'
  BY <1>2, <1>4, <1>6, <1>11, <1>12, KeptUsers, Moved DEF PlaceInv, clientVars
<1> QED
  BY <1>1, <1>2, <1>3, <1>4, <1>13, ReaderFrame DEF PlaceInv, PipelineTyped

LEMMA ReaderFailsStep ==
  ASSUME PlaceInv, NEW i \in Goroutines, ReaderFails(i) PROVE PlaceInv'
<1> PICK w : w = reader[i].w
  OBVIOUS
<1> DEFINE r == [NewReader EXCEPT !.pc = "returned", !.err = TRUE]
<1>1. w \in Works /\ reader[i].pc = "read"
  BY ReaderAt DEF PlaceInv, ReaderFails
<1>2. r \in GoodReaders /\ r.w = NoWork
  BY NewGood DEF GoodReaders, GoodReader, ReaderTypes
<1>3. /\ reader' = [reader EXCEPT ![i] = r] /\ Complete(w, "readError")
      /\ UNCHANGED <<clientVars, gen, chW, chR, worker, writer, wire>>
  BY DEF ReaderFails, Complete
<1> HIDE DEF r
<1>4. /\ work' \in [Works -> WorkTypes]
      /\ work'[w].done /\ (work'[w].pooled <=> work[w].pooled)
      /\ \A v \in Works : v # w => work'[v] = work[v]
  BY <1>1, <1>3, CompleteWork DEF PlaceInv
<1>5. Hands'
  BY <1>1, <1>2, <1>3, <1>4, ReaderCompletes DEF clientVars
<1> QED
  BY <1>1, <1>2, <1>3, <1>4, <1>5, ReaderFrame DEF PlaceInv, PipelineTyped

LEMMA ReadRecord ==
  ASSUME NEW x \in WorkTypes, NEW v \in MaybeWork
  PROVE  LET y == [x EXCEPT !.done = TRUE, !.resp = v]
         IN  y \in WorkTypes /\ y.done /\ (y.pooled <=> x.pooled)
  BY DEF WorkTypes

LEMMA ReaderReadStep ==
  ASSUME PlaceInv, NEW i \in Goroutines, ReaderRead(i) PROVE PlaceInv'
<1> PICK w : w = reader[i].w
  OBVIOUS
<1> DEFINE r == [reader[i] EXCEPT !.pc = "take", !.w = NoWork]
           y == [work[w] EXCEPT !.done = TRUE, !.resp = Head(wire[i])]
<1>1. reader[i] \in GoodReaders /\ w \in Works /\ reader[i].pc = "read"
  BY ReaderAt DEF PlaceInv, ReaderRead
<1>2. r \in GoodReaders /\ r.w = NoWork
  BY <1>1 DEF GoodReaders, GoodReader, ReaderTypes, MaybeWork
<1>3. wire \in [Goroutines -> Seq(Works)] /\ wire[i] \in Seq(Works) /\ wire[i] # <<>>
  BY DEF PlaceInv, PipelineTyped, ReaderRead
<1>4. Head(wire[i]) \in MaybeWork /\ Tail(wire[i]) \in Seq(Works)
  BY <1>3 DEF MaybeWork
<1>5. y \in WorkTypes /\ y.done /\ (y.pooled <=> work[w].pooled)
  BY <1>1, <1>4, ReadRecord DEF PlaceInv, PipelineTyped
<1>6. /\ reader' = [reader EXCEPT ![i] = r] /\ work' = [work EXCEPT ![w] = y]
      /\ wire' = [wire EXCEPT ![i] = Tail(wire[i])]
      /\ UNCHANGED <<clientVars, gen, chW, chR, worker, writer>>
  BY DEF ReaderRead
<1> HIDE DEF r, y
<1>7. /\ work' \in [Works -> WorkTypes]
      /\ work'[w].done /\ (work'[w].pooled <=> work[w].pooled)
      /\ \A v \in Works : v # w => work'[v] = work[v]
  BY <1>1, <1>5, <1>6, WorkSet DEF PlaceInv
<1>8. Hands'
  BY <1>1, <1>2, <1>6, <1>7, ReaderCompletes DEF clientVars
<1>9. wire' \in [Goroutines -> Seq(Works)]
  BY <1>3, <1>4, <1>6
<1> QED
  BY <1>1, <1>2, <1>6, <1>7, <1>8, <1>9, ReaderFrame DEF PlaceInv, PipelineTyped

-----------------------------------------------------------------------------
(* The steps of the worker.                                                *)

\* The places do not change.
LEMMA PlacesKept ==
  ASSUME Hands, UNCHANGED <<chW, chR, work, writer, reader, caller>>
  PROVE  Hands'
<1>1. \A v \in Works : Same(v)
  BY KeptW, KeptR, KeptWriters, KeptReaders DEF Same
<1> QED
  BY <1>1, KeptUsers, Unmoved

LEMMA WorkerRecord ==
  ASSUME NEW x \in WorkerTypes, NEW pc \in {"off", "dial", "serve", "close", "drain", "decide", "ended"}
  PROVE  [x EXCEPT !.pc = pc] \in WorkerTypes /\ [x EXCEPT !.pc = pc].pc = pc
  BY DEF WorkerTypes

\* The worker goes on; when it does not serve, writer and reader have returned.
LEMMA WorkerFrame ==
  ASSUME PlaceInv, NEW i \in Goroutines, NEW r \in WorkerTypes, worker' = [worker EXCEPT ![i] = r],
         r.pc \notin {"serve", "close"} => writer[i].pc = "returned" /\ reader[i].pc = "returned",
         worker[i].pc # "off", gen' \in [CC -> 0..MaxGen], wire' \in [Goroutines -> Seq(Works)],
         UNCHANGED <<clientVars, chW, chR, work, writer, reader>>
  PROVE  PlaceInv'
<1>1. /\ worker' \in [Goroutines -> WorkerTypes] /\ worker'[i] = r
      /\ \A j \in Goroutines : j # i => worker'[j] = worker[j]
  BY DEF PlaceInv, PipelineTyped
<1>2. PipelineTyped'
  BY <1>1 DEF PlaceInv, PipelineTyped, clientVars
<1>3. Phases'
  BY <1>1 DEF PlaceInv, Phases, clientVars
<1>4. Hands'
  BY PlacesKept DEF PlaceInv, clientVars
<1> QED
  BY <1>2, <1>3, <1>4 DEF PlaceInv

LEMMA DialStep ==
  ASSUME PlaceInv, NEW i \in Goroutines, Dial(i) PROVE PlaceInv'
<1> DEFINE r == [pc |-> "serve", err |-> FALSE, stop |-> FALSE]
<1>1. r \in WorkerTypes /\ r.pc = "serve"
  BY DEF WorkerTypes
<1>2. /\ worker[i].pc = "dial" /\ worker' = [worker EXCEPT ![i] = r]
      /\ writer' = [writer EXCEPT ![i] = NewWriter] /\ reader' = [reader EXCEPT ![i] = NewReader]
      /\ UNCHANGED <<clientVars, gen, chW, chR, work, wire>>
  BY DEF Dial
<1> HIDE DEF r
<1>3. writer[i].pc = "returned" /\ reader[i].pc = "returned"
  BY <1>2 DEF PlaceInv, Phases
<1>4. writer[i].w = NoWork /\ reader[i].w = NoWork
  BY <1>3, WriterAt, ReaderAt DEF PlaceInv
<1>5. /\ writer' \in [Goroutines -> GoodWriters]
      /\ \A j \in Goroutines : j # i => writer'[j] = writer[j]
      /\ \A v \in Works : Writing(v)' = Writing(v) \ {i}
  <2>1. \A v \in Works : NewWriter.w # v
    BY NewGood, NoWorkIsNone
  <2> QED
    BY <1>2, <2>1, NewGood, WriterSet, ZenonT(40) DEF PlaceInv
<1>6. /\ reader' \in [Goroutines -> GoodReaders]
      /\ \A j \in Goroutines : j # i => reader'[j] = reader[j]
      /\ \A v \in Works : Reading(v)' = Reading(v) \ {i}
  <2>1. \A v \in Works : NewReader.w # v
    BY NewGood, NoWorkIsNone
  <2> QED
    BY <1>2, <2>1, NewGood, ReaderSet, ZenonT(40) DEF PlaceInv
<1>7. \A v \in Works : i \notin Writing(v) /\ i \notin Reading(v)
  BY <1>4, NoWorkIsNone DEF Writing, Reading
<1>8. \A v \in Works : Same(v)
  <2>1. \A v \in Works : Writing(v)' = Writing(v) /\ Reading(v)' = Reading(v)
    BY <1>5, <1>6, <1>7
  <2> QED
    BY <1>2, <2>1, KeptW, KeptR DEF Same
<1>9. Hands'
  BY <1>2, <1>8, KeptUsers, Unmoved DEF PlaceInv, clientVars
<1>10. /\ worker' \in [Goroutines -> WorkerTypes] /\ worker'[i] = r
       /\ \A j \in Goroutines : j # i => worker'[j] = worker[j]
  BY <1>1, <1>2 DEF PlaceInv, PipelineTyped
<1>11. PipelineTyped'
  BY <1>2, <1>5, <1>6, <1>10 DEF PlaceInv, PipelineTyped, clientVars
<1>12. Phases'
  BY <1>1, <1>2, <1>5, <1>6, <1>10 DEF PlaceInv, Phases, clientVars
<1> QED
  BY <1>9, <1>11, <1>12 DEF PlaceInv

LEMMA FirstDoneStep ==
  ASSUME PlaceInv, NEW i \in Goroutines, FirstDone(i) PROVE PlaceInv'
<1>1. PICK h \in {writer[i], reader[i]} :
        worker' = [worker EXCEPT ![i] = [pc |-> "close", err |-> h.err, stop |-> TRUE]]
  BY DEF FirstDone
<1>2. h.err \in BOOLEAN
  BY WriterAt, ReaderAt, WriterFields, ReaderFields DEF PlaceInv
<1> DEFINE r == [pc |-> "close", err |-> h.err, stop |-> TRUE]
<1>3. r \in WorkerTypes /\ r.pc = "close"
  BY <1>2 DEF WorkerTypes
<1> HIDE DEF r
<1>4. worker' = [worker EXCEPT ![i] = r]
  BY <1>1 DEF r
<1>5. /\ worker[i].pc = "serve" /\ gen' = gen /\ wire' = wire
      /\ UNCHANGED <<clientVars, chW, chR, work, writer, reader>>
  BY DEF FirstDone
<1> QED
  BY <1>3, <1>4, <1>5, WorkerFrame DEF PlaceInv, PipelineTyped

LEMMA BothDoneStep ==
  ASSUME PlaceInv, NEW i \in Goroutines, BothDone(i) PROVE PlaceInv'
<1> DEFINE r == [worker[i] EXCEPT !.pc = "drain"]
<1>1. r \in WorkerTypes /\ r.pc = "drain"
  BY WorkerRecord DEF PlaceInv, PipelineTyped
<1>2. worker' = [worker EXCEPT ![i] = r]
  BY DEF BothDone
<1> HIDE DEF r
<1>3. <<>> \in Seq(Works)
  OBVIOUS
<1>4. wire' \in [Goroutines -> Seq(Works)]
  BY <1>3 DEF BothDone, PlaceInv, PipelineTyped
<1>5. /\ worker[i].pc = "close" /\ gen' = gen
      /\ writer[i].pc = "returned" /\ reader[i].pc = "returned"
      /\ UNCHANGED <<clientVars, chW, chR, work, writer, reader>>
  BY DEF BothDone
<1> QED
  BY <1>1, <1>2, <1>4, <1>5, WorkerFrame DEF PlaceInv, PipelineTyped

LEMMA DrainEndStep ==
  ASSUME PlaceInv, NEW i \in Goroutines, DrainEnd(i) PROVE PlaceInv'
<1>1. PICK pc \in {"dial", "decide"} : worker' = [worker EXCEPT ![i].pc = pc]
  BY DEF DrainEnd
<1> DEFINE r == [worker[i] EXCEPT !.pc = pc]
<1>2. r \in WorkerTypes
  BY WorkerRecord DEF PlaceInv, PipelineTyped
<1>3. worker' = [worker EXCEPT ![i] = r]
  BY <1>1
<1> HIDE DEF r
<1>4. /\ worker[i].pc = "drain" /\ gen' = gen /\ wire' = wire
      /\ UNCHANGED <<clientVars, chW, chR, work, writer, reader>>
  BY DEF DrainEnd
<1>5. writer[i].pc = "returned" /\ reader[i].pc = "returned"
  BY <1>4 DEF PlaceInv, Phases
<1> QED
  BY <1>2, <1>3, <1>4, <1>5, WorkerFrame DEF PlaceInv, PipelineTyped

LEMMA DecideStep ==
  ASSUME PlaceInv, NEW i \in Goroutines, Decide(i) PROVE PlaceInv'
<1>1. PICK pc \in {"dial", "ended"} : worker' = [worker EXCEPT ![i].pc = pc]
  BY DEF Decide
<1> DEFINE r == [worker[i] EXCEPT !.pc = pc]
<1>2. r \in WorkerTypes
  BY WorkerRecord DEF PlaceInv, PipelineTyped
<1>3. worker' = [worker EXCEPT ![i] = r]
  BY <1>1
<1> HIDE DEF r
<1>4. /\ worker[i].pc = "decide" /\ wire' = wire
      /\ UNCHANGED <<clientVars, chW, chR, work, writer, reader>>
  BY DEF Decide
<1>5. writer[i].pc = "returned" /\ reader[i].pc = "returned"
  BY <1>4 DEF PlaceInv, Phases
<1>6. 0 \in 0..MaxGen
  BY PipelineAssumption
<1>7. gen' \in [CC -> 0..MaxGen]
  BY <1>6 DEF Decide, PlaceInv, PipelineTyped
<1> QED
  BY <1>2, <1>3, <1>4, <1>5, <1>7, WorkerFrame DEF PlaceInv, PipelineTyped

\* The work at the head of chW or chR is completed.
LEMMA DropW ==
  ASSUME PlaceInv, NEW cc \in CC, NEW g, g \in 0..MaxGen, NEW w, w = Head(chW[cc][g]),
         HasWork(chW, cc, g), chW' = Receive(chW, cc, g),
         NEW err \in {"ErrPipelineOverflow", "errPipelineConnStopped", "ErrTimeout",
                      "writeError", "readError"},
         Complete(w, err), UNCHANGED <<chR, writer, reader>>, SameUsers
  PROVE  Hands' /\ chW' \in Queues /\ work' \in [Works -> WorkTypes]
<1>1. /\ w \in Works /\ chW' \in Queues
      /\ InW(w) # {} /\ InW(w)' = {}
      /\ \A v \in Works : v # w => InW(v)' = InW(v)
  BY ReceiveW DEF PlaceInv
<1>2. PICK x : x \in InW(w)
  BY <1>1
<1>3. InR(w) = {} /\ Writing(w) = {} /\ Reading(w) = {} /\ Somewhere(w)
  BY <1>1, <1>2, FoundInW DEF PlaceInv
<1>4. /\ work' \in [Works -> WorkTypes]
      /\ work'[w].done /\ (work'[w].pooled <=> work[w].pooled)
      /\ \A v \in Works : v # w => work'[v] = work[v]
  BY <1>1, CompleteWork DEF PlaceInv
<1>5. /\ \A v : InR(v)' = InR(v)
      /\ \A v : Writing(v)' = Writing(v)
      /\ \A v : Reading(v)' = Reading(v)
  BY KeptR, KeptWriters, KeptReaders
<1>6. Somewhere(w)'
  BY <1>1, <1>3, <1>4, <1>5 DEF Somewhere
<1>7. SameBut(w)
  BY <1>1, <1>4, <1>5 DEF SameBut, Same
<1> QED
  BY <1>1, <1>3, <1>4, <1>6, <1>7, Moved DEF PlaceInv

LEMMA DropR ==
  ASSUME PlaceInv, NEW cc \in CC, NEW g, g \in 0..MaxGen, NEW w, w = Head(chR[cc][g]),
         HasWork(chR, cc, g), chR' = Receive(chR, cc, g),
         NEW err \in {"ErrPipelineOverflow", "errPipelineConnStopped", "ErrTimeout",
                      "writeError", "readError"},
         Complete(w, err), UNCHANGED <<chW, writer, reader>>, SameUsers
  PROVE  Hands' /\ chR' \in Queues /\ work' \in [Works -> WorkTypes]
<1>1. /\ w \in Works /\ chR' \in Queues
      /\ InR(w) # {} /\ InR(w)' = {}
      /\ \A v \in Works : v # w => InR(v)' = InR(v)
  BY ReceiveR DEF PlaceInv
<1>2. PICK x : x \in InR(w)
  BY <1>1
<1>3. InW(w) = {} /\ Writing(w) = {} /\ Reading(w) = {} /\ Somewhere(w)
  BY <1>1, <1>2, FoundInR DEF PlaceInv
<1>4. /\ work' \in [Works -> WorkTypes]
      /\ work'[w].done /\ (work'[w].pooled <=> work[w].pooled)
      /\ \A v \in Works : v # w => work'[v] = work[v]
  BY <1>1, CompleteWork DEF PlaceInv
<1>5. /\ \A v : InW(v)' = InW(v)
      /\ \A v : Writing(v)' = Writing(v)
      /\ \A v : Reading(v)' = Reading(v)
  BY KeptW, KeptWriters, KeptReaders
<1>6. Somewhere(w)'
  BY <1>1, <1>3, <1>4, <1>5 DEF Somewhere
<1>7. SameBut(w)
  BY <1>1, <1>4, <1>5 DEF SameBut, Same
<1> QED
  BY <1>1, <1>3, <1>4, <1>6, <1>7, Moved DEF PlaceInv

LEMMA DrainOneStep ==
  ASSUME PlaceInv, NEW i \in Goroutines, DrainOne(i) PROVE PlaceInv'
<1> PICK w : w = Head(chR[i[1]][gen[i[1]]])
  OBVIOUS
<1>1. /\ HasWork(chR, i[1], gen[i[1]]) /\ chR' = Receive(chR, i[1], gen[i[1]])
      /\ Complete(w, "errPipelineConnStopped")
      /\ UNCHANGED <<clientVars, gen, chW, worker, writer, reader, wire>>
  BY DEF DrainOne, Complete
<1>2. i[1] \in CC /\ gen[i[1]] \in 0..MaxGen
  BY Indices DEF PlaceInv, PipelineTyped
<1>3. SameUsers
  BY <1>1, KeptUsers DEF clientVars
<1>4. Hands' /\ chR' \in Queues /\ work' \in [Works -> WorkTypes]
  BY <1>1, <1>2, <1>3, DropR
<1>5. PipelineTyped'
  BY <1>1, <1>4 DEF PlaceInv, PipelineTyped, clientVars
<1>6. Phases'
  BY <1>1 DEF PlaceInv, Phases, clientVars
<1> QED
  BY <1>4, <1>5, <1>6 DEF PlaceInv

-----------------------------------------------------------------------------
(* The steps of the callers.                                               *)

LEMMA FirstOf ==
  ASSUME NEW S, S \subseteq Nat, S # {}
  PROVE  (CHOOSE c \in S : \A d \in S : c <= d) \in S
  BY LeastElement

LEMMA PendingIsNat ==
  ASSUME PipelineTyped, NEW cc \in CC PROVE PendingRequests(cc) \in Nat
<1>1. gen[cc] \in 0..MaxGen
  BY DEF PipelineTyped
<1>2. ASSUME NEW g \in Gens PROVE Len(chW[cc][g]) \in Nat /\ Len(chR[cc][g]) \in Nat
  BY DEF PipelineTyped, Queues, Channels
<1>3. ChanLen(chW, cc) \in Nat /\ ChanLen(chR, cc) \in Nat
  BY <1>1, <1>2, PipelineAssumption DEF ChanLen, Gens
<1> QED
  BY <1>3 DEF PendingRequests

LEMMA ConnClientExists ==
  ASSUME PipelineTyped PROVE getConnClient \in CC
<1> DEFINE existing == 1..connClients
           free == {cc \in existing : PendingRequests(cc) = 0}
           least == {cc \in existing : \A d \in existing : PendingRequests(cc) <= PendingRequests(d)}
           First(S) == CHOOSE cc \in S : \A d \in S : cc <= d
<1>1. connClients \in Nat /\ connClients <= MaxConns /\ MaxConns \in Nat \ {0}
  BY PipelineAssumption DEF PipelineTyped
<1>2. existing \subseteq CC /\ CC \subseteq Nat /\ free \subseteq existing /\ least \subseteq existing
  BY <1>1 DEF CC
<1>3. CASE free # {}
  <2>1. First(free) \in free
    BY <1>2, <1>3, FirstOf
  <2>2. getConnClient = First(free)
    BY <1>3 DEF getConnClient
  <2> QED
    BY <1>2, <2>1, <2>2
<1>4. CASE free = {} /\ connClients < MaxConns
  BY <1>1, <1>4 DEF getConnClient, CC
<1>5. CASE free = {} /\ ~(connClients < MaxConns)
  <2> DEFINE T == {PendingRequests(cc) : cc \in existing}
  <2>1. existing # {}
    BY <1>1, <1>5
  <2>2. T \subseteq Nat /\ T # {}
    BY <1>2, <2>1, PendingIsNat
  <2>3. PICK x \in T : \A y \in T : x <= y
    BY <2>2, LeastElement
  <2>4. least # {}
    BY <2>3
  <2>5. First(least) \in least
    BY <1>2, <2>4, FirstOf
  <2>6. getConnClient = First(least)
    BY <1>5 DEF getConnClient
  <2> QED
    BY <1>2, <2>5, <2>6
<1> QED
  BY <1>3, <1>4, <1>5

LEMMA CallerAt ==
  ASSUME PipelineTyped, NEW p \in Callers
  PROVE  /\ caller[p] \in GoodCallers /\ caller[p].g \in 0..MaxGen /\ caller[p].n \in Nat
         /\ caller[p].pc \notin {"idle", "init"} => caller[p].w \in Works
         /\ caller[p].pc \in {"idle", "init"} => caller[p].w = NoWork
         /\ caller[p].pc # "idle" => caller[p].cc \in CC /\ gen[caller[p].cc] \in 0..MaxGen
<1>1. caller[p] \in GoodCallers
  BY DEF PipelineTyped
<1>2. GoodCaller(caller[p])
  BY <1>1 DEF GoodCallers
<1>3. caller[p].w \in MaybeWork /\ caller[p].g \in 0..MaxGen /\ caller[p].n \in Nat
  BY <1>1, CallerFields
<1> QED
  BY <1>1, <1>2, <1>3 DEF GoodCaller, MaybeWork, PipelineTyped

\* What most steps of a caller leave alone.
LEMMA CallerFrame ==
  ASSUME PlaceInv, caller' \in [Callers -> GoodCallers],
         UNCHANGED <<gen, made, chR, worker, writer, reader, wire>>,
         connClients' \in 0..MaxConns, chW' \in Queues, work' \in [Works -> WorkTypes], Hands'
  PROVE  PlaceInv'
<1>1. PipelineTyped'
  BY DEF PlaceInv, PipelineTyped
<1>2. Phases'
  BY DEF PlaceInv, Phases
<1> QED
  BY <1>1, <1>2 DEF PlaceInv

\* No work is moved.
LEMMA WorksKept ==
  ASSUME UNCHANGED <<chW, chR, writer, reader>>,
         \A v \in Works : /\ work'[v].done <=> work[v].done
                          /\ work'[v].pooled <=> work[v].pooled
  PROVE  \A v \in Works : Same(v)
  BY KeptW, KeptR, KeptWriters, KeptReaders DEF Same

\* A caller goes on without touching a channel or a work.
LEMMA CallerWaits ==
  ASSUME PlaceInv, NEW p \in Callers, NEW pc \in {"full", "again", "slow"}, NEW g \in 0..MaxGen,
         caller[p].pc \notin {"idle", "init", "wait"},
         caller' = [caller EXCEPT ![p].pc = pc, ![p].g = g]
  PROVE  caller' \in [Callers -> GoodCallers] /\ SameUsers
<1> DEFINE r == [caller[p] EXCEPT !.pc = pc, !.g = g]
<1>1. caller[p] \in GoodCallers /\ caller[p].w \in Works /\ caller[p].cc \in CC
  BY CallerAt DEF PlaceInv
<1>2. r \in GoodCallers /\ r.w = caller[p].w /\ r.pc # "wait"
  BY <1>1, NoWorkIsNone DEF GoodCallers, GoodCaller, CallerTypes
<1>3. caller' = [caller EXCEPT ![p] = r]
  OBVIOUS
<1> HIDE DEF r
<1>4. caller' \in [Callers -> GoodCallers] /\ caller'[p] = r /\ SameUsersBut(p)
  BY <1>2, <1>3, CallerSet DEF PlaceInv
<1>5. SameUser(p)
  BY <1>2, <1>4 DEF SameUser
<1> QED
  BY <1>4, <1>5, UsersGoOn

\* A caller queues its work and waits.
LEMMA CallerQueues ==
  ASSUME PlaceInv, NEW p \in Callers, caller[p].pc \in {"push", "again", "slow"},
         NEW g \in 0..MaxGen, Room(chW, caller[p].cc, g),
         chW' = Send(chW, caller[p].cc, g, caller[p].w), caller' = [caller EXCEPT ![p].pc = "wait"],
         UNCHANGED <<connClients, gen, made, chR, work, worker, writer, reader, wire>>
  PROVE  PlaceInv'
<1> PICK w : w = caller[p].w
  OBVIOUS
<1> DEFINE r == [caller[p] EXCEPT !.pc = "wait"]
<1>1. caller[p] \in GoodCallers /\ w \in Works /\ caller[p].cc \in CC
  BY CallerAt DEF PlaceInv
<1>2. r \in GoodCallers /\ r.w = w /\ r.pc = "wait"
  BY <1>1, NoWorkIsNone DEF GoodCallers, GoodCaller, CallerTypes
<1>3. caller' = [caller EXCEPT ![p] = r]
  OBVIOUS
<1> HIDE DEF r
<1>4. /\ caller' \in [Callers -> GoodCallers] /\ caller'[p].w = w /\ caller'[p].pc = "wait"
      /\ SameUsersBut(p)
  BY <1>2, <1>3, CallerSet DEF PlaceInv
<1>5. Nowhere(w)
  BY <1>1 DEF PlaceInv, Hands
<1>6. /\ chW' \in Queues /\ InW(w)' = {<<caller[p].cc, g>>}
      /\ \A v \in Works : v # w => InW(v)' = InW(v)
  BY <1>1, <1>5, SendW DEF PlaceInv
<1>7. /\ \A v : InR(v)' = InR(v)
      /\ \A v : Writing(v)' = Writing(v)
      /\ \A v : Reading(v)' = Reading(v)
  BY KeptR, KeptWriters, KeptReaders
<1>8. One(InW(w)')
  BY <1>6 DEF One
<1>9. Somewhere(w)'
  BY <1>1, <1>5, <1>7, <1>8 DEF Nowhere, Somewhere, One
<1>10. SameBut(w)
  BY <1>6, <1>7 DEF SameBut, Same
<1>11. Hands'
  BY <1>1, <1>4, <1>9, <1>10, GivenAway DEF PlaceInv
<1> QED
  BY <1>4, <1>6, <1>11, CallerFrame DEF PlaceInv, PipelineTyped

LEMMA PushStep ==
  ASSUME PlaceInv, NEW p \in Callers, Push(p) PROVE PlaceInv'
<1> DEFINE cc == caller[p].cc
<1>1. caller[p].pc = "push" /\ gen[cc] \in 0..MaxGen
  BY CallerAt DEF PlaceInv, Push
<1>2. CASE Room(chW, cc, gen[cc])
  BY <1>1, <1>2, CallerQueues DEF Push
<1>3. CASE ~Room(chW, cc, gen[cc])
  <2>1. PICK pc \in {"slow", "full"} : caller' = [caller EXCEPT ![p].pc = pc, ![p].g = gen[cc]]
    BY <1>3 DEF Push
  <2>2. UNCHANGED <<connClients, gen, made, chW, chR, work, worker, writer, reader, wire>>
    BY <1>3 DEF Push
  <2>3. caller' \in [Callers -> GoodCallers] /\ SameUsers
    BY <1>1, <2>1, CallerWaits
  <2>4. Hands'
    BY <2>2, <2>3, WorksKept, Unmoved DEF PlaceInv
  <2> QED
    BY <2>2, <2>3, <2>4, CallerFrame DEF PlaceInv, PipelineTyped
<1> QED
  BY <1>2, <1>3

LEMMA DropOldestStep ==
  ASSUME PlaceInv, NEW p \in Callers, DropOldest(p) PROVE PlaceInv'
<1> DEFINE cc == caller[p].cc
           g == gen[cc]
<1>1. /\ caller[p].pc = "full" /\ cc \in CC /\ g \in 0..MaxGen
      /\ caller' = [caller EXCEPT ![p].pc = "again"]
      /\ UNCHANGED <<connClients, gen, made, chR, worker, writer, reader, wire>>
  BY CallerAt DEF PlaceInv, DropOldest
<1>2. caller' \in [Callers -> GoodCallers] /\ SameUsers
  <2>1. caller[p].g \in 0..MaxGen /\ caller[p] \in GoodCallers
    BY CallerAt DEF PlaceInv
  <2>2. [caller[p] EXCEPT !.pc = "again"] = [caller[p] EXCEPT !.pc = "again", !.g = caller[p].g]
    BY <2>1 DEF GoodCallers, CallerTypes
  <2>3. caller' = [caller EXCEPT ![p].pc = "again", ![p].g = caller[p].g]
    BY <1>1, <2>2
  <2> QED
    BY <1>1, <2>1, <2>3, CallerWaits
<1>3. CASE HasWork(chW, cc, g)
  <2> PICK w : w = Head(chW[cc][g])
    OBVIOUS
  <2>1. chW' = Receive(chW, cc, g) /\ Complete(w, "ErrPipelineOverflow")
    BY <1>3 DEF DropOldest, Complete
  <2>2. Hands' /\ chW' \in Queues /\ work' \in [Works -> WorkTypes]
    BY <1>1, <1>2, <1>3, <2>1, DropW
  <2> QED
    BY <1>1, <1>2, <2>2, CallerFrame DEF PlaceInv, PipelineTyped
<1>4. CASE ~HasWork(chW, cc, g)
  <2>1. UNCHANGED <<chW, work>>
    BY <1>4 DEF DropOldest
  <2>2. Hands'
    BY <1>1, <1>2, <2>1, WorksKept, Unmoved DEF PlaceInv
  <2> QED
    BY <1>1, <1>2, <2>1, <2>2, CallerFrame DEF PlaceInv, PipelineTyped
<1> QED
  BY <1>3, <1>4

\* What releasePipelineWork leaves of a work, and reading its channels.
LEMMA ReleasedRecord ==
  ASSUME NEW x \in WorkTypes
  PROVE  Released(x) \in WorkTypes /\ (Released(x).done <=> x.done)
<1>1. NoWork \in MaybeWork
  BY DEF MaybeWork
<1> QED
  BY <1>1 DEF Released, WorkTypes

LEMMA TickRecord ==
  ASSUME NEW x \in WorkTypes
  PROVE  LET y == [x EXCEPT !.tick = FALSE]
         IN  y \in WorkTypes /\ (y.done <=> x.done) /\ (y.pooled <=> x.pooled)
  BY DEF WorkTypes

LEMMA DoneRecord ==
  ASSUME NEW x \in WorkTypes
  PROVE  [x EXCEPT !.done = FALSE] \in WorkTypes /\ ~[x EXCEPT !.done = FALSE].done
  BY DEF WorkTypes

\* A caller returns: it has no work any more.
LEMMA Returns ==
  ASSUME PipelineTyped, NEW p \in Callers, Return(p)
  PROVE  /\ caller' \in [Callers -> GoodCallers] /\ caller'[p].w = NoWork
         /\ SameUsersBut(p)
<1> DEFINE r == [caller[p] EXCEPT !.pc = "idle", !.w = NoWork, !.g = 0]
<1>1. caller[p] \in GoodCallers /\ 0 \in 0..MaxGen
  BY CallerAt, PipelineAssumption
<1>2. r \in GoodCallers /\ r.w = NoWork
  BY <1>1 DEF GoodCallers, GoodCaller, CallerTypes, MaybeWork
<1>3. caller' = [caller EXCEPT ![p] = r]
  BY DEF Return
<1> HIDE DEF r
<1> QED
  BY <1>2, <1>3, CallerSet

\* A caller gives back a work that is in no channel and with no goroutine.
LEMMA CallerReleases ==
  ASSUME PlaceInv, NEW p \in Callers, NEW w \in Works, caller[p].w = w, Return(p),
         NEW y \in WorkTypes, ~y.done, work' = [work EXCEPT ![w] = y],
         InW(w) = {}, InR(w) = {}, Writing(w) = {}, Reading(w) = {},
         UNCHANGED <<connClients, gen, made, chW, chR, worker, writer, reader, wire>>
  PROVE  PlaceInv'
<1>1. /\ caller' \in [Callers -> GoodCallers] /\ caller'[p].w = NoWork
      /\ SameUsersBut(p)
  BY Returns DEF PlaceInv
<1>2. /\ work' \in [Works -> WorkTypes] /\ work'[w] = y
      /\ \A v \in Works : v # w => work'[v] = work[v]
  BY WorkSet DEF PlaceInv
<1>3. /\ \A v : InW(v)' = InW(v)
      /\ \A v : InR(v)' = InR(v)
      /\ \A v : Writing(v)' = Writing(v)
      /\ \A v : Reading(v)' = Reading(v)
  BY KeptW, KeptR, KeptWriters, KeptReaders
<1>4. Nowhere(w)'
  BY <1>2, <1>3 DEF Nowhere
<1>5. SameBut(w)
  BY <1>2, <1>3 DEF SameBut, Same
<1>6. Hands'
  BY <1>1, <1>4, <1>5, GivenBack DEF PlaceInv
<1> QED
  BY <1>1, <1>2, <1>6, CallerFrame DEF PlaceInv, PipelineTyped

LEMMA PushAgainStep ==
  ASSUME PlaceInv, NEW p \in Callers, PushAgain(p) PROVE PlaceInv'
<1> DEFINE cc == caller[p].cc
<1>1. caller[p].pc = "again" /\ gen[cc] \in 0..MaxGen /\ caller[p].w \in Works
  BY CallerAt DEF PlaceInv, PushAgain
<1>2. CASE Room(chW, cc, gen[cc])
  BY <1>1, <1>2, CallerQueues DEF PushAgain
<1>3. CASE ~Room(chW, cc, gen[cc])
  <2> PICK w : w = caller[p].w
    OBVIOUS
  <2> DEFINE y == Released(work[w])
  <2>1. /\ Return(p) /\ work' = [work EXCEPT ![w] = y]
        /\ UNCHANGED <<connClients, gen, made, chW, chR, worker, writer, reader, wire>>
    BY <1>3 DEF PushAgain
  <2>2. Nowhere(w)
    BY <1>1 DEF PlaceInv, Hands
  <2>3. y \in WorkTypes /\ ~y.done
    BY <1>1, <2>2, ReleasedRecord DEF PlaceInv, PipelineTyped, Nowhere
  <2> HIDE DEF y
  <2> QED
    BY <1>1, <2>1, <2>2, <2>3, CallerReleases DEF Nowhere
<1> QED
  BY <1>2, <1>3

LEMMA PushSlowStep ==
  ASSUME PlaceInv, NEW p \in Callers, PushSlow(p) PROVE PlaceInv'
<1> DEFINE cc == caller[p].cc
<1> PICK w : w = caller[p].w
  OBVIOUS
<1>1. caller[p].pc = "slow" /\ caller[p].g \in 0..MaxGen /\ w \in Works
  BY CallerAt DEF PlaceInv, PushSlow
<1>2. CASE /\ Room(chW, cc, caller[p].g)
           /\ chW' = Send(chW, cc, caller[p].g, caller[p].w)
           /\ caller' = [caller EXCEPT ![p].pc = "wait"]
           /\ UNCHANGED work
  BY <1>1, <1>2, CallerQueues DEF PushSlow
<1>3. CASE /\ work' = [work EXCEPT ![w] = Released([@ EXCEPT !.tick = FALSE])]
           /\ Return(p) /\ UNCHANGED chW
  <2> DEFINE y == Released([work[w] EXCEPT !.tick = FALSE])
  <2>1. /\ Return(p) /\ work' = [work EXCEPT ![w] = y]
        /\ UNCHANGED <<connClients, gen, made, chW, chR, worker, writer, reader, wire>>
    BY <1>3 DEF PushSlow
  <2>2. Nowhere(w)
    BY <1>1 DEF PlaceInv, Hands
  <2>3. y \in WorkTypes /\ ~y.done
    BY <1>1, <2>2, ReleasedRecord, TickRecord DEF PlaceInv, PipelineTyped, Nowhere
  <2> HIDE DEF y
  <2> QED
    BY <1>1, <2>1, <2>2, <2>3, CallerReleases DEF Nowhere
<1> QED
  BY <1>2, <1>3 DEF PushSlow

LEMMA FinishStep ==
  ASSUME PlaceInv, NEW p \in Callers, Finish(p) PROVE PlaceInv'
<1> PICK w : w = caller[p].w
  OBVIOUS
<1> DEFINE y == Released([work[w] EXCEPT !.done = FALSE])
<1>1. caller[p].pc = "wait" /\ w \in Works /\ work[w].done
  BY CallerAt DEF PlaceInv, Finish
<1>2. /\ Return(p) /\ work' = [work EXCEPT ![w] = y]
      /\ UNCHANGED <<connClients, gen, made, chW, chR, worker, writer, reader, wire>>
  BY DEF Finish
<1>3. Somewhere(w)
  BY <1>1 DEF PlaceInv, Hands
<1>4. InW(w) = {} /\ InR(w) = {} /\ Writing(w) = {} /\ Reading(w) = {}
  BY <1>1, <1>3 DEF Somewhere
<1>5. y \in WorkTypes /\ ~y.done
  BY <1>1, ReleasedRecord, DoneRecord DEF PlaceInv, PipelineTyped
<1> HIDE DEF y
<1> QED
  BY <1>1, <1>2, <1>4, <1>5, CallerReleases

LEMMA AbandonStep ==
  ASSUME PlaceInv, NEW p \in Callers, Abandon(p) PROVE PlaceInv'
<1> PICK w : w = caller[p].w
  OBVIOUS
<1> DEFINE y == [work[w] EXCEPT !.tick = FALSE]
<1>1. caller[p].pc = "wait" /\ w \in Works
  BY CallerAt DEF PlaceInv, Abandon
<1>2. /\ Return(p) /\ work' = [work EXCEPT ![w] = y]
      /\ UNCHANGED <<connClients, gen, made, chW, chR, worker, writer, reader, wire>>
  BY DEF Abandon
<1>3. y \in WorkTypes /\ (y.done <=> work[w].done) /\ (y.pooled <=> work[w].pooled)
  BY <1>1, TickRecord DEF PlaceInv, PipelineTyped
<1> HIDE DEF y
<1>4. /\ caller' \in [Callers -> GoodCallers] /\ caller'[p].w = NoWork
      /\ SameUsersBut(p)
  BY <1>2, Returns DEF PlaceInv
<1>5. /\ work' \in [Works -> WorkTypes] /\ work'[w] = y
      /\ \A v \in Works : v # w => work'[v] = work[v]
  BY <1>1, <1>2, <1>3, WorkSet DEF PlaceInv
<1>6. \A v \in Works : Same(v)
  BY <1>2, <1>3, <1>5, WorksKept
<1>7. Hands'
  BY <1>4, <1>6, LeftBehind DEF PlaceInv
<1> QED
  BY <1>2, <1>4, <1>5, <1>7, CallerFrame DEF PlaceInv, PipelineTyped

LEMMA ExpireStep ==
  ASSUME PlaceInv, NEW w \in Works, Expire(w) PROVE PlaceInv'
<1> DEFINE y == [work[w] EXCEPT !.clock = "past", !.tick = TRUE]
<1>1. y \in WorkTypes /\ (y.done <=> work[w].done) /\ (y.pooled <=> work[w].pooled)
  <2>1. work[w] \in WorkTypes
    BY DEF PlaceInv, PipelineTyped
  <2> QED
    BY <2>1 DEF WorkTypes
<1>2. /\ work' = [work EXCEPT ![w] = y]
      /\ UNCHANGED <<connClients, gen, made, chW, chR, caller, worker, writer, reader, wire>>
  BY DEF Expire
<1> HIDE DEF y
<1>3. /\ work' \in [Works -> WorkTypes] /\ work'[w] = y
      /\ \A v \in Works : v # w => work'[v] = work[v]
  BY <1>1, <1>2, WorkSet DEF PlaceInv
<1>4. \A v \in Works : Same(v)
  BY <1>1, <1>2, <1>3, WorksKept
<1>5. Hands'
  BY <1>2, <1>4, KeptUsers, Unmoved DEF PlaceInv
<1> QED
  BY <1>2, <1>3, <1>5, CallerFrame DEF PlaceInv, PipelineTyped

-----------------------------------------------------------------------------
(* How many places: the cardinalities of the property.                     *)

\* Queued lists positions, InW and InR channels.
LEMMA QueuedAt ==
  ASSUME PipelineTyped, NEW w \in Works
  PROVE  /\ \A i \in InW(w) : \E k : <<"chW", i[1], i[2], k>> \in Queued(w)
         /\ \A i \in InR(w) : \E k : <<"chR", i[1], i[2], k>> \in Queued(w)
         /\ \A x \in Queued(w) :
              \/ x[1] = "chW" /\ <<x[2], x[3]>> \in InW(w)
              \/ x[1] = "chR" /\ <<x[2], x[3]>> \in InR(w)
         /\ \A x, y \in Queued(w) : x[1] = y[1] /\ x[2] = y[2] /\ x[3] = y[3] => x = y
<1> DEFINE P == {"chW", "chR"} \X CC \X Gens \X (1..Cap)
           Q(k) == IF k = "chW" THEN chW ELSE chR
<1>1. ASSUME NEW cc \in CC, NEW g \in Gens
      PROVE  /\ chW[cc][g] \in Seq(Works) /\ Len(chW[cc][g]) <= Cap /\ Distinct(chW[cc][g])
             /\ chR[cc][g] \in Seq(Works) /\ Len(chR[cc][g]) <= Cap /\ Distinct(chR[cc][g])
  BY DEF PipelineTyped, Queues, Channels
<1>2. \A x : x \in Queued(w) <=> /\ x \in P
                                 /\ x[4] <= Len(Q(x[1])[x[2]][x[3]])
                                 /\ Q(x[1])[x[2]][x[3]][x[4]] = w
  BY Zenon DEF Queued
<1>3. ASSUME NEW i \in InW(w) PROVE \E k : <<"chW", i[1], i[2], k>> \in Queued(w)
  <2>1. i \in Goroutines /\ w \in Elems(chW[i[1]][i[2]])
    BY DEF InW, In
  <2>2. i[1] \in CC /\ i[2] \in Gens
    BY <2>1, Indices
  <2>3. PICK k \in 1..Len(chW[i[1]][i[2]]) : w = chW[i[1]][i[2]][k]
    BY <2>1 DEF Elems
  <2>4. k \in 1..Cap /\ k <= Len(chW[i[1]][i[2]])
    BY <1>1, <2>2, <2>3, PipelineAssumption
  <2> QED
    BY <1>2, <2>2, <2>3, <2>4
<1>4. ASSUME NEW i \in InR(w) PROVE \E k : <<"chR", i[1], i[2], k>> \in Queued(w)
  <2>1. i \in Goroutines /\ w \in Elems(chR[i[1]][i[2]])
    BY DEF InR, In
  <2>2. i[1] \in CC /\ i[2] \in Gens
    BY <2>1, Indices
  <2>3. PICK k \in 1..Len(chR[i[1]][i[2]]) : w = chR[i[1]][i[2]][k]
    BY <2>1 DEF Elems
  <2>4. k \in 1..Cap /\ k <= Len(chR[i[1]][i[2]])
    BY <1>1, <2>2, <2>3, PipelineAssumption
  <2> QED
    BY <1>2, <2>2, <2>3, <2>4
<1>5. ASSUME NEW x \in Queued(w)
      PROVE  /\ x[1] \in {"chW", "chR"} /\ x[2] \in CC /\ x[3] \in Gens
             /\ x[4] \in 1..Len(Q(x[1])[x[2]][x[3]])
             /\ Q(x[1])[x[2]][x[3]][x[4]] = w
             /\ x = <<x[1], x[2], x[3], x[4]>>
  <2>1. x \in P /\ x[4] <= Len(Q(x[1])[x[2]][x[3]]) /\ Q(x[1])[x[2]][x[3]][x[4]] = w
    BY <1>2
  <2>2. x[1] \in {"chW", "chR"} /\ x[2] \in CC /\ x[3] \in Gens /\ x[4] \in 1..Cap
        /\ x = <<x[1], x[2], x[3], x[4]>>
    BY <2>1
  <2>3. Len(Q(x[1])[x[2]][x[3]]) \in Nat
    BY <1>1, <2>2
  <2> QED
    BY <2>1, <2>2, <2>3, PipelineAssumption
<1>6. ASSUME NEW x \in Queued(w)
      PROVE  \/ x[1] = "chW" /\ <<x[2], x[3]>> \in InW(w)
             \/ x[1] = "chR" /\ <<x[2], x[3]>> \in InR(w)
  <2>1. <<x[2], x[3]>> \in Goroutines
    BY <1>5 DEF Goroutines
  <2>2. w \in Elems(Q(x[1])[x[2]][x[3]])
    BY <1>5 DEF Elems
  <2> QED
    BY <1>5, <2>1, <2>2 DEF InW, InR, In
<1>7. ASSUME NEW x \in Queued(w), NEW y \in Queued(w), x[1] = y[1], x[2] = y[2], x[3] = y[3]
      PROVE  x = y
  <2>1. Distinct(Q(x[1])[x[2]][x[3]])
    BY <1>1, <1>5
  <2>2. x[4] = y[4]
    BY <1>5, <1>7, <2>1 DEF Distinct
  <2> QED
    BY <1>5, <1>7, <2>2
<1> QED
  BY <1>3, <1>4, <1>6, <1>7

LEMMA QueuedOnce ==
  ASSUME PipelineTyped, NEW w \in Works
  PROVE  /\ Queued(w) = {} <=> InW(w) = {} /\ InR(w) = {}
         /\ One(InW(w)) /\ InR(w) = {} => One(Queued(w))
         /\ InW(w) = {} /\ One(InR(w)) => One(Queued(w))
<1>1. Queued(w) = {} <=> InW(w) = {} /\ InR(w) = {}
  BY QueuedAt
<1>2. ASSUME One(InW(w)), InR(w) = {} PROVE One(Queued(w))
  <2>1. PICK i : InW(w) = {i}
    BY <1>2 DEF One
  <2>2. PICK x : x \in Queued(w)
    BY <1>1, <2>1
  <2>3. \A y \in Queued(w) : y[1] = "chW" /\ <<y[2], y[3]>> = i
    BY <1>2, <2>1, QueuedAt
  <2>4. \A y \in Queued(w) : y = x
    <3> TAKE y \in Queued(w)
    <3>1. x[1] = y[1] /\ x[2] = y[2] /\ x[3] = y[3]
      BY <2>2, <2>3
    <3> QED
      BY <2>2, <3>1, QueuedAt
  <2> QED
    BY <2>2, <2>4 DEF One
<1>3. ASSUME InW(w) = {}, One(InR(w)) PROVE One(Queued(w))
  <2>1. PICK i : InR(w) = {i}
    BY <1>3 DEF One
  <2>2. PICK x : x \in Queued(w)
    BY <1>1, <2>1
  <2>3. \A y \in Queued(w) : y[1] = "chR" /\ <<y[2], y[3]>> = i
    BY <1>3, <2>1, QueuedAt
  <2>4. \A y \in Queued(w) : y = x
    <3> TAKE y \in Queued(w)
    <3>1. x[1] = y[1] /\ x[2] = y[2] /\ x[3] = y[3]
      BY <2>2, <2>3
    <3> QED
      BY <2>2, <3>1, QueuedAt
  <2> QED
    BY <2>2, <2>4 DEF One
<1> QED
  BY <1>1, <1>2, <1>3

LEMMA FinitePlaces ==
  ASSUME NEW w
  PROVE  IsFiniteSet(Queued(w)) /\ IsFiniteSet(Writing(w)) /\ IsFiniteSet(Reading(w))
<1>1. IsFiniteSet(CC) /\ IsFiniteSet(Gens) /\ IsFiniteSet(1..Cap)
  BY FS_Interval, PipelineAssumption DEF CC, Gens
<1>2. IsFiniteSet(Goroutines)
  BY <1>1, FS_Product DEF Goroutines
<1>3. IsFiniteSet(Writing(w)) /\ IsFiniteSet(Reading(w))
  BY <1>2, FS_Subset DEF Writing, Reading
<1>4. IsFiniteSet({"chW", "chR"})
  <2>1. IsFiniteSet({"chW"}) /\ {"chW", "chR"} = {"chW"} \cup {"chR"}
    BY FS_Singleton
  <2> QED
    BY <2>1, FS_AddElement
<1> DEFINE A == (({"chW", "chR"} \X CC) \X Gens) \X (1..Cap)
           P == {"chW", "chR"} \X CC \X Gens \X (1..Cap)
           f == [a \in A |-> <<a[1][1][1], a[1][1][2], a[1][2], a[2]>>]
<1>5. IsFiniteSet(A)
  BY <1>1, <1>4, FS_Product
<1>6. IsFiniteSet(P)
  <2>1. f \in [A -> P]
    OBVIOUS
  <2>2. ASSUME NEW x \in P PROVE \E a \in A : f[a] = x
    <3> DEFINE a == <<<<<<x[1], x[2]>>, x[3]>>, x[4]>>
    <3>1. a \in A /\ x = <<x[1], x[2], x[3], x[4]>>
      OBVIOUS
    <3>2. f[a] = x
      BY <3>1
    <3> QED
      BY <3>1, <3>2
  <2> HIDE DEF f, A, P
  <2>3. f \in Surjection(A, P)
    BY <2>1, <2>2 DEF Surjection
  <2> QED
    BY <1>5, <2>3, FS_Surjection
<1>7. IsFiniteSet(Queued(w))
  BY <1>6, FS_Subset DEF Queued
<1> QED
  BY <1>3, <1>7

LEMMA CountPlaces ==
  ASSUME PipelineTyped, NEW w \in Works
  PROVE  /\ Places(w) \in Nat
         /\ Places(w) = 0 <=> InW(w) = {} /\ InR(w) = {} /\ Writing(w) = {} /\ Reading(w) = {}
<1> DEFINE q == Cardinality(Queued(w))
           a == Cardinality(Writing(w))
           b == Cardinality(Reading(w))
<1>1. q \in Nat /\ a \in Nat /\ b \in Nat
  BY FinitePlaces, FS_CardinalityType
<1>2. (q = 0 <=> Queued(w) = {}) /\ (a = 0 <=> Writing(w) = {}) /\ (b = 0 <=> Reading(w) = {})
  BY FinitePlaces, FS_EmptySet
<1>3. Places(w) = q + a + b
  BY DEF Places
<1> HIDE DEF q, a, b
<1>4. Places(w) \in Nat /\ (Places(w) = 0 <=> q = 0 /\ a = 0 /\ b = 0)
  BY <1>1, <1>3
<1> QED
  BY <1>2, <1>4, QueuedOnce

LEMMA CountOne ==
  ASSUME PipelineTyped, NEW w \in Works, Somewhere(w)
  PROVE  Places(w) + (IF work[w].done THEN 1 ELSE 0) = 1
<1>1. \A S : One(S) => Cardinality(S) = 1
  BY FS_Singleton DEF One
<1>2. \A S : S = {} => Cardinality(S) = 0
  BY FS_EmptySet
<1>3. CASE One(InW(w)) /\ InR(w) = {} /\ Writing(w) = {} /\ Reading(w) = {} /\ ~work[w].done
  BY <1>1, <1>2, <1>3, QueuedOnce DEF Places
<1>4. CASE InW(w) = {} /\ One(InR(w)) /\ Writing(w) = {} /\ Reading(w) = {} /\ ~work[w].done
  BY <1>1, <1>2, <1>4, QueuedOnce DEF Places
<1>5. CASE InW(w) = {} /\ InR(w) = {} /\ One(Writing(w)) /\ Reading(w) = {} /\ ~work[w].done
  BY <1>1, <1>2, <1>5, QueuedOnce DEF Places
<1>6. CASE InW(w) = {} /\ InR(w) = {} /\ Writing(w) = {} /\ One(Reading(w)) /\ ~work[w].done
  BY <1>1, <1>2, <1>6, QueuedOnce DEF Places
<1>7. CASE InW(w) = {} /\ InR(w) = {} /\ Writing(w) = {} /\ Reading(w) = {} /\ work[w].done
  BY <1>7, CountPlaces
<1> QED
  BY <1>3, <1>4, <1>5, <1>6, <1>7 DEF Somewhere

-----------------------------------------------------------------------------
(* init and acquirePipelineWork.                                           *)

\* The channels and the worker goroutine that init makes.
LEMMA InitChannels ==
  ASSUME PlaceInv, NEW cc \in CC, init(cc), UNCHANGED <<writer, reader>>
  PROVE  /\ gen' \in [CC -> 0..MaxGen] /\ made' \in [CC -> 0..MaxGen]
         /\ worker' \in [Goroutines -> WorkerTypes] /\ Phases'
<1>1. cc \in CC /\ gen[cc] \in 0..MaxGen /\ MaxGen \in Nat
  BY PipelineAssumption DEF PlaceInv, PipelineTyped
<1>2. /\ gen \in [CC -> 0..MaxGen] /\ made \in [CC -> 0..MaxGen]
      /\ worker \in [Goroutines -> WorkerTypes]
  BY DEF PlaceInv, PipelineTyped
<1>3. writer' = writer /\ reader' = reader
  OBVIOUS
<1>4. CASE gen[cc] # 0
  <2>1. made' = [made EXCEPT ![cc] = made[cc]] /\ gen' = [gen EXCEPT ![cc] = gen[cc]] /\ worker' = worker
    BY <1>4 DEF init
  <2>2. made' = made /\ gen' = gen
    BY <1>2, <2>1
  <2>3. Phases'
    BY <1>3, <2>1, <2>2 DEF PlaceInv, Phases
  <2> QED
    BY <1>2, <2>1, <2>2, <2>3
<1>5. CASE gen[cc] = 0
  <2> PICK n : n = made[cc] + 1
    OBVIOUS
  <2>1. made[cc] \in Nat /\ made[cc] < MaxGen
    BY <1>1, <1>2, <1>5 DEF init
  <2>2. n \in Gens /\ n \in 0..MaxGen /\ n > made[cc]
    BY <1>1, <2>1 DEF Gens
  <2>3. made' = [made EXCEPT ![cc] = n]
    BY <1>5 DEF init
  <2>4. made'[cc] = n
    BY <1>1, <1>2, <2>3
  <2>5. gen' = [gen EXCEPT ![cc] = n] /\ worker' = [worker EXCEPT ![<<cc, n>>].pc = "dial"]
    BY <1>5, <2>4 DEF init
  <2>6. <<cc, n>> \in Goroutines
    BY <1>1, <2>2 DEF Goroutines
  <2>7. worker[<<cc, n>>].pc = "off"
    BY <2>2, <2>6 DEF PlaceInv, Phases
  <2> DEFINE i == <<cc, n>>
             r == [worker[i] EXCEPT !.pc = "dial"]
  <2>8. r \in WorkerTypes /\ r.pc = "dial"
    BY <1>2, <2>6, WorkerRecord
  <2>9. worker' = [worker EXCEPT ![i] = r]
    BY <2>5
  <2> HIDE DEF r
  <2>10. /\ worker' \in [Goroutines -> WorkerTypes] /\ worker'[i] = r
         /\ \A j \in Goroutines : j # i => worker'[j] = worker[j]
    BY <1>2, <2>6, <2>8, <2>9
  <2>11. gen' \in [CC -> 0..MaxGen] /\ made' \in [CC -> 0..MaxGen]
    BY <1>2, <2>2, <2>3, <2>5
  <2>12. writer[i].pc = "returned" /\ reader[i].pc = "returned"
    BY <2>6, <2>7 DEF PlaceInv, Phases
  <2>13. ASSUME NEW j \in Goroutines, worker'[j].pc \notin {"serve", "close"}
         PROVE  writer'[j].pc = "returned" /\ reader'[j].pc = "returned"
    BY <1>3, <2>10, <2>12, <2>13 DEF PlaceInv, Phases
  <2>14. ASSUME NEW j \in Goroutines, j[2] > made'[j[1]]
         PROVE  worker'[j].pc = "off"
    <3>1. j[1] \in CC /\ j[2] \in Gens /\ j = <<j[1], j[2]>>
      BY Indices
    <3>2. j # i
      BY <2>2, <2>4, <2>14 DEF Gens
    <3>3. CASE j[1] = cc
      <4>1. j[2] > made[j[1]]
        BY <2>1, <2>2, <2>4, <2>14, <3>1, <3>3 DEF Gens
      <4> QED
        BY <2>10, <3>2, <4>1 DEF PlaceInv, Phases
    <3>4. CASE j[1] # cc
      <4>1. made'[j[1]] = made[j[1]]
        BY <1>2, <2>3, <3>1, <3>4
      <4> QED
        BY <2>10, <2>14, <3>2, <4>1 DEF PlaceInv, Phases
    <3> QED
      BY <3>3, <3>4
  <2> QED
    BY <2>10, <2>11, <2>13, <2>14 DEF Phases
<1> QED
  BY <1>4, <1>5

LEMMA AcquiredRecord ==
  ASSUME PipelineTyped, NEW w \in Works, NEW timed \in BOOLEAN
  PROVE  LET y == Acquired(w, timed) IN
         /\ y \in WorkTypes /\ ~y.pooled
         /\ work[w].pooled => (y.done <=> work[w].done)
         /\ ~work[w].pooled => ~y.done
<1>1. work[w] \in WorkTypes
  BY DEF PipelineTyped
<1>2. NewWork \in WorkTypes /\ ~NewWork.pooled /\ ~NewWork.done
  <2>1. NoWork \in MaybeWork
    BY DEF MaybeWork
  <2>2. NewWork \in WorkTypes
    BY <2>1, Zenon DEF NewWork, WorkTypes
  <2> QED
    BY <2>2 DEF NewWork
<1> PICK c \in {"none", "ahead", "past"} : c = IF timed THEN "ahead" ELSE "none"
  OBVIOUS
<1>3. ASSUME NEW x \in WorkTypes
      PROVE  LET y == [x EXCEPT !.clock = c]
             IN  y \in WorkTypes /\ (y.done <=> x.done) /\ (y.pooled <=> x.pooled)
  BY DEF WorkTypes
<1> DEFINE x == [work[w] EXCEPT !.pooled = FALSE]
<1>4. x \in WorkTypes /\ (x.done <=> work[w].done) /\ ~x.pooled
  BY <1>1 DEF WorkTypes
<1>5. CASE work[w].pooled
  <2>1. Acquired(w, timed) = [x EXCEPT !.clock = c]
    BY <1>5 DEF Acquired
  <2> HIDE DEF x
  <2>2. /\ Acquired(w, timed) \in WorkTypes /\ ~Acquired(w, timed).pooled
        /\ Acquired(w, timed).done <=> x.done
    BY <1>3, <1>4, <2>1
  <2> QED
    BY <1>4, <1>5, <2>2
<1>6. CASE ~work[w].pooled
  <2>1. Acquired(w, timed) = [NewWork EXCEPT !.clock = c]
    BY <1>6 DEF Acquired
  <2>2. /\ Acquired(w, timed) \in WorkTypes /\ ~Acquired(w, timed).pooled
        /\ Acquired(w, timed).done <=> NewWork.done
    BY <1>2, <1>3, <2>1
  <2> QED
    BY <1>2, <1>6, <2>2
<1> QED
  BY <1>5, <1>6

LEMMA ChooseStep ==
  ASSUME PlaceInv, NEW p \in Callers, Choose(p) PROVE PlaceInv'
<1> PICK cc : cc = getConnClient
  OBVIOUS
<1> DEFINE r == [caller[p] EXCEPT !.pc = "init", !.cc = cc, !.n = caller[p].n + 1]
<1>1. cc \in CC /\ cc \in 0..MaxConns
  BY ConnClientExists, PipelineAssumption DEF PlaceInv, CC
<1>2. /\ caller[p] \in GoodCallers /\ caller[p].pc = "idle" /\ caller[p].w = NoWork
      /\ caller[p].n + 1 \in Nat
  BY CallerAt DEF PlaceInv, Choose
<1>3. r \in GoodCallers /\ r.w = NoWork
  BY <1>1, <1>2 DEF GoodCallers, GoodCaller, CallerTypes
<1>4. caller' = [caller EXCEPT ![p] = r]
  BY DEF Choose
<1>5. /\ UNCHANGED <<chW, chR, work, writer, reader, wire>>
      /\ connClients' = cc \/ connClients' = connClients
      /\ init(cc) \/ UNCHANGED <<gen, made, worker>>
  BY DEF Choose
<1> HIDE DEF r
<1>6. /\ caller' \in [Callers -> GoodCallers] /\ caller'[p].w = NoWork /\ SameUsersBut(p)
  BY <1>3, <1>4, CallerSet DEF PlaceInv
<1>7. SameUsers
  BY <1>2, <1>6, UsersGoOn, NoWorkIsNone DEF SameUser
<1>8. Hands'
  BY <1>5, <1>7, WorksKept, Unmoved DEF PlaceInv
<1>9. connClients' \in 0..MaxConns
  BY <1>1, <1>5 DEF PlaceInv, PipelineTyped
<1>10. /\ gen' \in [CC -> 0..MaxGen] /\ made' \in [CC -> 0..MaxGen]
       /\ worker' \in [Goroutines -> WorkerTypes] /\ Phases'
  <2>1. CASE init(cc)
    BY <1>1, <1>5, <2>1, InitChannels
  <2>2. CASE UNCHANGED <<gen, made, worker>>
    BY <1>5, <2>2 DEF PlaceInv, PipelineTyped, Phases
  <2> QED
    BY <1>5, <2>1, <2>2
<1> QED
  BY <1>5, <1>6, <1>8, <1>9, <1>10 DEF PlaceInv, PipelineTyped

LEMMA DoInitStep ==
  ASSUME PlaceInv, NEW p \in Callers, DoInit(p) PROVE PlaceInv'
<1>1. /\ gen' \in [CC -> 0..MaxGen] /\ made' \in [CC -> 0..MaxGen]
      /\ worker' \in [Goroutines -> WorkerTypes] /\ Phases'
  BY InitChannels, CallerAt DEF PlaceInv, DoInit
<1>2. /\ caller[p].pc = "init" /\ caller[p] \in GoodCallers /\ caller[p].w = NoWork
      /\ caller[p].cc \in CC
  BY CallerAt DEF PlaceInv, DoInit
<1>3. UNCHANGED <<connClients, chW, chR, writer, reader, wire>>
  BY DEF DoInit
<1>4. SUFFICES caller' \in [Callers -> GoodCallers] /\ work' \in [Works -> WorkTypes] /\ Hands'
  BY <1>1, <1>3 DEF PlaceInv, PipelineTyped
<1>5. /\ \A v : InW(v)' = InW(v)
      /\ \A v : InR(v)' = InR(v)
      /\ \A v : Writing(v)' = Writing(v)
      /\ \A v : Reading(v)' = Reading(v)
  BY <1>3, KeptW, KeptR, KeptWriters, KeptReaders
<1>6. ASSUME NEW w \in Works, work[w].pooled \/ Garbage(w),
             work' = [work EXCEPT ![w] = Acquired(w, p \in TimedCallers)],
             caller' = [caller EXCEPT ![p].pc = "push", ![p].w = w]
      PROVE  caller' \in [Callers -> GoodCallers] /\ work' \in [Works -> WorkTypes] /\ Hands'
  <2> DEFINE r == [caller[p] EXCEPT !.pc = "push", !.w = w]
             y == Acquired(w, p \in TimedCallers)
  <2>1. r \in GoodCallers /\ r.w = w /\ r.pc = "push"
    BY <1>2, NoWorkIsNone DEF GoodCallers, GoodCaller, CallerTypes, MaybeWork
  <2>2. caller' = [caller EXCEPT ![p] = r]
    BY <1>6
  <2>3. /\ y \in WorkTypes /\ ~y.pooled
        /\ work[w].pooled => (y.done <=> work[w].done)
        /\ ~work[w].pooled => ~y.done
    <3>1. (p \in TimedCallers) \in BOOLEAN
      OBVIOUS
    <3> QED
      BY <3>1, AcquiredRecord DEF PlaceInv
  <2>4. work' = [work EXCEPT ![w] = y]
    BY <1>6
  <2> HIDE DEF r, y
  <2>5. /\ caller' \in [Callers -> GoodCallers] /\ caller'[p].w = w /\ caller'[p].pc # "wait"
        /\ SameUsersBut(p)
    BY <2>1, <2>2, CallerSet DEF PlaceInv
  <2>6. /\ work' \in [Works -> WorkTypes] /\ work'[w] = y
        /\ \A v \in Works : v # w => work'[v] = work[v]
    BY <2>3, <2>4, WorkSet DEF PlaceInv
  <2>7. SameBut(w)
    BY <1>5, <2>6 DEF SameBut, Same
  <2>8. CASE work[w].pooled
    <3>1. Nowhere(w) /\ \A q \in Callers : caller[q].w # w
      BY <2>8 DEF PlaceInv, Hands
    <3>2. Nowhere(w)'
      BY <1>5, <2>3, <2>6, <2>8, <3>1 DEF Nowhere
    <3>3. ~work'[w].pooled
      BY <2>3, <2>6
    <3> QED
      BY <2>5, <2>6, <2>7, <3>1, <3>2, <3>3, Taken DEF PlaceInv
  <2>9. CASE ~work[w].pooled
    <3>1. Users(w) = {} /\ Places(w) = 0
      BY <1>6, <2>9 DEF Garbage
    <3>2. \A q \in Callers : caller[q].w # w
      BY <3>1 DEF Users
    <3>3. InW(w) = {} /\ InR(w) = {} /\ Writing(w) = {} /\ Reading(w) = {}
      BY <3>1, CountPlaces DEF PlaceInv
    <3>4. Nowhere(w)'
      BY <1>5, <2>3, <2>6, <2>9, <3>3 DEF Nowhere
    <3>5. ~work'[w].pooled
      BY <2>3, <2>6
    <3> QED
      BY <2>5, <2>6, <2>7, <3>2, <3>4, <3>5, Taken DEF PlaceInv
  <2> QED
    BY <2>8, <2>9
<1>7. ASSUME caller' = [caller EXCEPT ![p].pc = "idle"], UNCHANGED work
      PROVE  caller' \in [Callers -> GoodCallers] /\ work' \in [Works -> WorkTypes] /\ Hands'
  <2> DEFINE r == [caller[p] EXCEPT !.pc = "idle"]
  <2>1. r \in GoodCallers /\ r.w = NoWork
    BY <1>2 DEF GoodCallers, GoodCaller, CallerTypes
  <2>2. caller' = [caller EXCEPT ![p] = r]
    BY <1>7
  <2> HIDE DEF r
  <2>3. caller' \in [Callers -> GoodCallers] /\ caller'[p].w = NoWork /\ SameUsersBut(p)
    BY <2>1, <2>2, CallerSet DEF PlaceInv
  <2>4. SameUsers
    BY <1>2, <2>3, UsersGoOn, NoWorkIsNone DEF SameUser
  <2>5. Hands'
    BY <1>3, <1>7, <2>4, WorksKept, Unmoved DEF PlaceInv
  <2> QED
    BY <1>7, <2>3, <2>5 DEF PlaceInv, PipelineTyped
<1> QED
  BY <1>6, <1>7 DEF DoInit

-----------------------------------------------------------------------------
LEMMA PlacesStart == Init => PlaceInv
<1> SUFFICES ASSUME Init PROVE PlaceInv
  OBVIOUS
<1>1. /\ <<>> \in Seq(Works) /\ 0 \in 0..MaxGen /\ 0 \in 0..MaxConns /\ NoWork \in MaybeWork
      /\ 0 \in Nat
  BY PipelineAssumption DEF MaybeWork
<1>2. chW \in Queues /\ chR \in Queues
  BY EmptyChannel DEF Init, Queues
<1> DEFINE c == [pc |-> "idle", cc |-> 0, w |-> NoWork, g |-> 0, n |-> 0]
<1>3. c \in GoodCallers
  <2>1. c \in CallerTypes
    BY <1>1, Zenon DEF CallerTypes
  <2>2. c.pc = "idle" /\ c.w = NoWork
    OBVIOUS
  <2> QED
    BY <2>1, <2>2 DEF GoodCallers, GoodCaller
<1>4. caller \in [Callers -> GoodCallers] /\ \A p \in Callers : caller[p].w = NoWork
  BY <1>3 DEF Init
<1>5. NewWork \in WorkTypes /\ ~NewWork.done /\ ~NewWork.pooled
  <2>1. NewWork \in WorkTypes
    BY <1>1, Zenon DEF NewWork, WorkTypes
  <2> QED
    BY <2>1 DEF NewWork
<1>6. work \in [Works -> WorkTypes] /\ \A w \in Works : ~work[w].done /\ ~work[w].pooled
  BY <1>5 DEF Init
<1> DEFINE a == [NewWriter EXCEPT !.pc = "returned"]
           b == [NewReader EXCEPT !.pc = "returned"]
           k == [pc |-> "off", err |-> FALSE, stop |-> FALSE]
<1>7. a \in GoodWriters /\ a.w = NoWork /\ a.pc = "returned"
  BY NewGood DEF GoodWriters, GoodWriter, WriterTypes
<1>8. b \in GoodReaders /\ b.w = NoWork /\ b.pc = "returned"
  BY NewGood DEF GoodReaders, GoodReader, ReaderTypes
<1>9. k \in WorkerTypes /\ k.pc = "off"
  BY DEF WorkerTypes
<1>10. /\ writer = [i \in Goroutines |-> a] /\ reader = [i \in Goroutines |-> b]
       /\ worker = [i \in Goroutines |-> k]
  BY DEF Init
<1> HIDE DEF a, b, k
<1>11. PipelineTyped
  <2>1. /\ connClients \in 0..MaxConns /\ gen \in [CC -> 0..MaxGen] /\ made \in [CC -> 0..MaxGen]
        /\ wire \in [Goroutines -> Seq(Works)]
    BY <1>1 DEF Init
  <2>2. /\ worker \in [Goroutines -> WorkerTypes] /\ writer \in [Goroutines -> GoodWriters]
        /\ reader \in [Goroutines -> GoodReaders]
    BY <1>7, <1>8, <1>9, <1>10
  <2> QED
    BY <1>2, <1>4, <1>6, <2>1, <2>2 DEF PipelineTyped
<1>12. Phases
  BY <1>7, <1>8, <1>9, <1>10 DEF Phases
<1>13. ASSUME NEW w \in Works PROVE Nowhere(w)
  <2>1. ASSUME NEW i \in Goroutines PROVE chW[i[1]][i[2]] = <<>> /\ chR[i[1]][i[2]] = <<>>
    BY Indices DEF Init
  <2>2. InW(w) = {} /\ InR(w) = {}
    BY <2>1, EmptyList DEF InW, InR, In
  <2>3. Writing(w) = {} /\ Reading(w) = {}
    BY <1>7, <1>8, <1>10, NoWorkIsNone DEF Writing, Reading
  <2> QED
    BY <1>6, <2>2, <2>3 DEF Nowhere
<1>14. Hands
  BY <1>4, <1>6, <1>13, NoWorkIsNone DEF Hands
<1> QED
  BY <1>11, <1>12, <1>14 DEF PlaceInv

LEMMA PlacesNext == PlaceInv /\ [Next]_vars => PlaceInv'
<1> SUFFICES ASSUME PlaceInv, [Next]_vars PROVE PlaceInv'
  OBVIOUS
<1>1. ASSUME NEW p \in Callers, CallerStep(p) PROVE PlaceInv'
  BY <1>1, ChooseStep, DoInitStep, PushStep, DropOldestStep, PushAgainStep, PushSlowStep,
     FinishStep, AbandonStep DEF CallerStep
<1>2. ASSUME NEW w \in Works, Expire(w) PROVE PlaceInv'
  BY <1>2, ExpireStep
<1>3. ASSUME NEW i \in Goroutines, WorkerStep(i) PROVE PlaceInv'
  BY <1>3, DialStep, FirstDoneStep, BothDoneStep, DrainOneStep, DrainEndStep, DecideStep
     DEF WorkerStep
<1>4. ASSUME NEW i \in Goroutines, WriterStep(i) \/ WriterIdle(i) PROVE PlaceInv'
  BY <1>4, WriterStartStep, WriterTakeStep, WriterQuitStep, WriterFlushStep, WriterFlushFailsStep,
     WriterTooLateStep, WriterWriteStep, WriterWriteFailsStep, WriterPassStep, WriterStopFullStep
     DEF WriterStep
<1>5. ASSUME NEW i \in Goroutines, ReaderStep(i) PROVE PlaceInv'
  BY <1>5, ReaderStartStep, ReaderTakeStep, ReaderStopStep, ReaderReadStep, ReaderFailsStep
     DEF ReaderStep
<1>6. CASE UNCHANGED vars
  <2>1. PipelineTyped' /\ Phases'
    BY <1>6 DEF PlaceInv, PipelineTyped, Phases, vars
  <2>2. Hands'
    BY <1>6, PlacesKept DEF PlaceInv, vars
  <2> QED
    BY <2>1, <2>2 DEF PlaceInv
<1> QED
  BY <1>1, <1>2, <1>3, <1>4, <1>5, <1>6 DEF Next

\* What the invariant says in numbers.
LEMMA PlaceInvCounts == PlaceInv => WorkInOnePlace
<1> SUFFICES ASSUME PlaceInv, NEW w \in Works
    PROVE  LET n == Places(w) + (IF work[w].done THEN 1 ELSE 0)
               waiting == \E p \in Users(w) : caller[p].pc = "wait"
           IN /\ n <= 1
              /\ Cardinality(Users(w)) + (IF work[w].pooled THEN 1 ELSE 0) <= 1
              /\ work[w].pooled \/ (Users(w) # {} /\ ~waiting) => n = 0
              /\ waiting => n = 1
  BY DEF WorkInOnePlace
<1> DEFINE n == Places(w) + (IF work[w].done THEN 1 ELSE 0)
           waiting == \E p \in Users(w) : caller[p].pc = "wait"
<1>1. Nowhere(w) => n = 0
  <2>1. Nowhere(w) => Places(w) = 0
    BY CountPlaces DEF PlaceInv, Nowhere
  <2> QED
    BY <2>1 DEF Nowhere
<1>2. Somewhere(w) => n = 1
  BY CountOne DEF PlaceInv
<1>3. n <= 1
  BY <1>1, <1>2 DEF PlaceInv, Hands
<1>4. ASSUME NEW p \in Users(w)
      PROVE  /\ p \in Callers /\ Users(w) = {p} /\ ~work[w].pooled
             /\ caller[p].pc = "wait" => Somewhere(w)
             /\ caller[p].pc # "wait" => Nowhere(w)
  BY DEF Users, PlaceInv, Hands
<1>5. Cardinality(Users(w)) + (IF work[w].pooled THEN 1 ELSE 0) <= 1
  <2>1. CASE Users(w) = {}
    <3>1. Cardinality(Users(w)) = 0
      BY <2>1, FS_EmptySet
    <3> QED
      BY <3>1
  <2>2. CASE Users(w) # {}
    <3>1. PICK p : p \in Users(w)
      BY <2>2
    <3>2. Users(w) = {p} /\ ~work[w].pooled
      BY <1>4, <3>1
    <3>3. Cardinality(Users(w)) = 1
      BY <3>2, FS_Singleton
    <3> QED
      BY <3>2, <3>3
  <2> QED
    BY <2>1, <2>2
<1>6. work[w].pooled => n = 0
  BY <1>1 DEF PlaceInv, Hands
<1>7. Users(w) # {} /\ ~waiting => n = 0
  BY <1>1, <1>4
<1>8. waiting => n = 1
  BY <1>2, <1>4
<1> QED
  BY <1>3, <1>5, <1>6, <1>7, <1>8

\* The inductive invariant: types, when writer and reader run, and where
\* each work is (pipelineConnClient.worker, writer, reader, Do, DoDeadline).
THEOREM PipelineInOrder == Spec => []PlaceInv
<1>1. Init => PlaceInv
  BY PlacesStart
<1>2. PlaceInv /\ [Next]_vars => PlaceInv'
  BY PlacesNext
<1> QED
  BY <1>1, <1>2, PTL DEF Spec

\* A work is in one place at a time, for any number of callers, connections
\* and restarts of the worker: it is completed once, and not reused while a
\* channel or a goroutine still has it.
THEOREM WorksInOnePlace == Spec => []WorkInOnePlace
<1>1. PlaceInv => WorkInOnePlace
  BY PlaceInvCounts
<1> QED
  BY <1>1, PipelineInOrder, PTL

-----------------------------------------------------------------------------
(* Responses.  A worker that drops its channels after an idle stop leaves   *)
(* the next one to share them, and then responses go astray (section 4 of   *)
(* the README); as long as no pipelineConnClient does, they do not.         *)

\* The channels of a pipelineConnClient are made once; connections may fail
\* and be dialled again any number of times.
OneGeneration == \A cc \in CC : made[cc] <= 1

\* The works the reader will see, in order; the requests whose responses it
\* will see.
HeldByReader(i) == IF reader[i].pc = "read" THEN <<reader[i].w>> ELSE <<>>
HeldByWriter(i) == IF writer[i].pc = "pushR" THEN <<writer[i].w>> ELSE <<>>
ToRead(i) == HeldByReader(i) \o chR[i[1]][i[2]]
Expected(i) == ToRead(i) \o HeldByWriter(i)
Requested(i) == wire[i] \o writer[i].buf

Agree(s, t) == \A k \in 1..Len(s) : k <= Len(t) => s[k] = t[k]

\* Works and requests are in step while the reader runs, and none is ahead
\* of the other while the writer runs too.
StepAt(i) ==
  reader[i].pc # "returned" =>
    /\ Agree(Requested(i), Expected(i))
    /\ writer[i].pc # "returned" => Len(Requested(i)) = Len(Expected(i))

\* Nothing is left from one connection to the next, or in a dropped channel.
LeftAt(i) ==
  /\ worker[i].pc \notin {"serve", "close"} => wire[i] = <<>>
  /\ worker[i].pc \notin {"serve", "close", "drain"} => chR[i[1]][i[2]] = <<>>
  /\ gen[i[1]] # i[2] => chR[i[1]][i[2]] = <<>>

\* Writer and reader use the channels the client has.
CurrentAt(i) ==
  /\ writer[i].pc \in {"take", "write", "pushR"} => writer[i].g = gen[i[1]]
  /\ reader[i].pc \in {"take", "read"} => reader[i].g = gen[i[1]]

MatchAt(i) == StepAt(i) /\ LeftAt(i) /\ CurrentAt(i)

\* What was read into a work is the response to it.
OwnResponse(w, r) == r.done /\ r.err = "nil" => r.resp = w

MatchInv ==
  /\ \A i \in Goroutines : MatchAt(i)
  /\ \A cc \in CC : gen[cc] <= made[cc]
  /\ \A w \in Works : OwnResponse(w, work[w])

LEMMA Concat ==
  ASSUME NEW s \in Seq(Works), NEW t \in Seq(Works)
  PROVE  /\ s \o t \in Seq(Works) /\ Len(s \o t) = Len(s) + Len(t)
         /\ \A k \in 1..Len(s) : (s \o t)[k] = s[k]
         /\ \A k \in 1..Len(t) : (s \o t)[Len(s) + k] = t[k]
  OBVIOUS

LEMMA ConcatEmpty ==
  ASSUME NEW s \in Seq(Works) PROVE s \o <<>> = s /\ <<>> \o s = s
  OBVIOUS

LEMMA ConcatAppend ==
  ASSUME NEW s \in Seq(Works), NEW t \in Seq(Works), NEW x \in Works
  PROVE  s \o Append(t, x) = Append(s \o t, x) /\ s \o <<x>> = Append(s, x)
  OBVIOUS

LEMMA ConcatTail ==
  ASSUME NEW s \in Seq(Works), NEW t \in Seq(Works), s # <<>>
  PROVE  Tail(s \o t) = Tail(s) \o t /\ Head(s \o t) = Head(s) /\ s \o t # <<>>
  OBVIOUS

LEMMA ConcatHead ==
  ASSUME NEW s \in Seq(Works), s # <<>>
  PROVE  <<Head(s)>> \o Tail(s) = s
  OBVIOUS

LEMMA ConcatOne ==
  ASSUME NEW s \in Seq(Works), NEW x \in Works
  PROVE  Head(<<x>> \o s) = x /\ Tail(<<x>> \o s) = s /\ <<x>> \o s # <<>>
  OBVIOUS

LEMMA AgreeTail ==
  ASSUME NEW s \in Seq(Works), NEW t \in Seq(Works), s # <<>>, t # <<>>, Agree(s, t)
  PROVE  Agree(Tail(s), Tail(t)) /\ Head(s) = Head(t)
         /\ Len(Tail(s)) = Len(s) - 1 /\ Len(Tail(t)) = Len(t) - 1
  BY DEF Agree

LEMMA AgreeAppend ==
  ASSUME NEW s \in Seq(Works), NEW t \in Seq(Works), NEW x \in Works, Len(s) = Len(t), Agree(s, t)
  PROVE  Agree(Append(s, x), Append(t, x)) /\ Len(Append(s, x)) = Len(Append(t, x))
  BY DEF Agree

LEMMA AgreeCut ==
  ASSUME NEW s \in Seq(Works), NEW t \in Seq(Works), NEW u \in Seq(Works)
  PROVE  /\ Agree(s \o u, t) => Agree(s, t)
         /\ Agree(s, t \o u) => Agree(s, t)
  BY DEF Agree

-----------------------------------------------------------------------------
(* The steps.                                                              *)

LEMMA ListsTyped ==
  ASSUME PipelineTyped, NEW i \in Goroutines
  PROVE  /\ wire[i] \in Seq(Works) /\ writer[i].buf \in Seq(Works) /\ chR[i[1]][i[2]] \in Seq(Works)
         /\ HeldByReader(i) \in Seq(Works) /\ HeldByWriter(i) \in Seq(Works)
         /\ ToRead(i) \in Seq(Works) /\ Expected(i) \in Seq(Works) /\ Requested(i) \in Seq(Works)
<1>1. wire[i] \in Seq(Works) /\ writer[i].buf \in Seq(Works)
  BY WriterAt DEF PipelineTyped
<1>2. chR[i[1]][i[2]] \in Seq(Works)
  BY Indices DEF PipelineTyped, Queues, Channels
<1>3. HeldByReader(i) \in Seq(Works) /\ HeldByWriter(i) \in Seq(Works)
  <2>1. <<>> \in Seq(Works) /\ \A w \in Works : <<w>> \in Seq(Works)
    OBVIOUS
  <2> QED
    BY <2>1, WriterAt, ReaderAt DEF HeldByReader, HeldByWriter
<1>4. ToRead(i) \in Seq(Works)
  BY <1>2, <1>3, Concat DEF ToRead
<1>5. Expected(i) \in Seq(Works)
  BY <1>3, <1>4, Concat DEF Expected
<1>6. Requested(i) \in Seq(Works)
  BY <1>1, Concat DEF Requested
<1> QED
  BY <1>1, <1>2, <1>3, <1>4, <1>5, <1>6

\* With one generation a worker that was started is the first, and the
\* channels are its own or dropped.
LEMMA OnlyOne ==
  ASSUME PlaceInv, OneGeneration, \A cc \in CC : gen[cc] <= made[cc],
         NEW i \in Goroutines, worker[i].pc # "off"
  PROVE  i[2] = 1 /\ gen[i[1]] \in {0, i[2]}
<1>1. i[1] \in CC /\ i[2] \in Gens
  BY Indices
<1>2. made[i[1]] \in Nat /\ gen[i[1]] \in Nat /\ i[2] \in Nat \ {0}
  BY <1>1, PipelineAssumption DEF PlaceInv, PipelineTyped, Gens
<1>3. ~(i[2] > made[i[1]]) /\ made[i[1]] <= 1 /\ gen[i[1]] <= made[i[1]]
  BY <1>1 DEF PlaceInv, Phases, OneGeneration
<1> QED
  BY <1>2, <1>3

\* A goroutine the step does not touch.
Untouched(j) ==
  /\ wire'[j] = wire[j] /\ writer'[j] = writer[j] /\ reader'[j] = reader[j]
  /\ chR'[j[1]][j[2]] = chR[j[1]][j[2]] /\ worker'[j].pc = worker[j].pc

LEMMA MatchUntouched ==
  ASSUME NEW j \in Goroutines, Untouched(j), MatchAt(j), gen'[j[1]] = gen[j[1]]
  PROVE  MatchAt(j)'
<1>1. StepAt(j)'
  BY DEF Untouched, MatchAt, StepAt, Requested, Expected, ToRead, HeldByReader, HeldByWriter
<1>2. LeftAt(j)' /\ CurrentAt(j)'
  BY DEF Untouched, MatchAt, LeftAt, CurrentAt
<1> QED
  BY <1>1, <1>2 DEF MatchAt

\* A step of the goroutines i.
LEMMA MatchFrame ==
  ASSUME MatchInv, NEW i \in Goroutines, UNCHANGED <<gen, made>>,
         \A j \in Goroutines : j # i => Untouched(j),
         MatchAt(i)', \A w \in Works : OwnResponse(w, work'[w])
  PROVE  MatchInv'
<1>1. \A j \in Goroutines : MatchAt(j)'
  BY MatchUntouched DEF MatchInv
<1> QED
  BY <1>1 DEF MatchInv

\* A work is completed with an error, or a field is changed that says nothing
\* of its response.
LEMMA ErrorRecord ==
  ASSUME NEW x \in WorkTypes, NEW w,
         NEW err \in {"ErrPipelineOverflow", "errPipelineConnStopped", "ErrTimeout",
                      "writeError", "readError"}
  PROVE  OwnResponse(w, [x EXCEPT !.done = TRUE, !.err = err])
  BY DEF WorkTypes, OwnResponse

LEMMA OwnAfter ==
  ASSUME PlaceInv, MatchInv, NEW w \in Works, NEW y, work' = [work EXCEPT ![w] = y], OwnResponse(w, y)
  PROVE  \A v \in Works : OwnResponse(v, work'[v])
<1>1. work'[w] = y /\ \A v \in Works : v # w => work'[v] = work[v]
  BY DEF PlaceInv, PipelineTyped
<1> QED
  BY <1>1 DEF MatchInv

LEMMA OwnError ==
  ASSUME PlaceInv, MatchInv, NEW w \in Works,
         NEW err \in {"ErrPipelineOverflow", "errPipelineConnStopped", "ErrTimeout",
                      "writeError", "readError"},
         Complete(w, err)
  PROVE  \A v \in Works : OwnResponse(v, work'[v])
<1> DEFINE y == [work[w] EXCEPT !.done = TRUE, !.err = err]
<1>1. OwnResponse(w, y)
  BY ErrorRecord DEF PlaceInv, PipelineTyped
<1>2. work' = [work EXCEPT ![w] = y]
  BY DEF Complete
<1> HIDE DEF y
<1> QED
  BY <1>1, <1>2, OwnAfter

LEMMA OwnUnchanged ==
  ASSUME MatchInv, work' = work PROVE \A v \in Works : OwnResponse(v, work'[v])
  BY DEF MatchInv

\* Steps of a caller or a timer that leave the goroutines alone.
LEMMA MatchElsewhere ==
  ASSUME MatchInv, UNCHANGED <<gen, made, chR, worker, writer, reader, wire>>,
         \A w \in Works : OwnResponse(w, work'[w])
  PROVE  MatchInv'
<1>1. \A j \in Goroutines : Untouched(j)
  BY DEF Untouched
<1>2. \A j \in Goroutines : MatchAt(j)'
  BY <1>1, MatchUntouched DEF MatchInv
<1> QED
  BY <1>2 DEF MatchInv

LEMMA CallersMatch ==
  ASSUME PlaceInv, MatchInv, NEW p \in Callers,
         Push(p) \/ DropOldest(p) \/ PushAgain(p) \/ PushSlow(p) \/ Finish(p) \/ Abandon(p)
  PROVE  MatchInv'
<1> PICK w : w = caller[p].w
  OBVIOUS
<1>1. UNCHANGED <<gen, made, chR, worker, writer, reader, wire>>
  BY DEF Push, DropOldest, PushAgain, PushSlow, Finish, Abandon
<1>2. SUFFICES \A v \in Works : OwnResponse(v, work'[v])
  BY <1>1, MatchElsewhere
<1>3. CASE Push(p)
  BY <1>3, OwnUnchanged DEF Push
<1>4. CASE DropOldest(p)
  <2> DEFINE cc == caller[p].cc
  <2>1. cc \in CC /\ gen[cc] \in 0..MaxGen
    BY <1>4, CallerAt DEF PlaceInv, DropOldest
  <2>2. CASE HasWork(chW, cc, gen[cc])
    <3> PICK h : h = Head(chW[cc][gen[cc]])
      OBVIOUS
    <3>1. gen[cc] \in Gens /\ chW[cc][gen[cc]] # <<>> /\ chW \in Queues
      BY <2>1, <2>2, PipelineAssumption DEF HasWork, Gens, PlaceInv, PipelineTyped
    <3>2. h \in Works
      BY <2>1, <3>1, ReceiveIn
    <3>3. Complete(h, "ErrPipelineOverflow")
      BY <1>4, <2>2 DEF DropOldest, Complete
    <3> QED
      BY <3>2, <3>3, OwnError
  <2>3. CASE ~HasWork(chW, cc, gen[cc])
    BY <1>4, <2>3, OwnUnchanged DEF DropOldest
  <2> QED
    BY <2>2, <2>3
<1>5. CASE PushAgain(p) \/ PushSlow(p)
  <2>1. w \in Works /\ Nowhere(w) /\ work[w] \in WorkTypes
    BY <1>5, CallerAt DEF PlaceInv, PipelineTyped, Hands, PushAgain, PushSlow
  <2>2. CASE work' = work
    BY <2>2, OwnUnchanged
  <2>3. ASSUME NEW x \in WorkTypes, x.done <=> work[w].done, work' = [work EXCEPT ![w] = Released(x)]
        PROVE  \A v \in Works : OwnResponse(v, work'[v])
    <3>1. OwnResponse(w, Released(x))
      BY <2>1, <2>3, ReleasedRecord DEF Nowhere, OwnResponse
    <3> QED
      BY <2>1, <2>3, <3>1, OwnAfter
  <2>4. [work[w] EXCEPT !.tick = FALSE] \in WorkTypes
        /\ ([work[w] EXCEPT !.tick = FALSE].done <=> work[w].done)
    BY <2>1, TickRecord
  <2> QED
    BY <1>5, <2>1, <2>2, <2>3, <2>4 DEF PushAgain, PushSlow
<1>6. CASE Finish(p)
  <2> DEFINE x == [work[w] EXCEPT !.done = FALSE]
  <2>1. w \in Works /\ work[w] \in WorkTypes
    BY <1>6, CallerAt DEF PlaceInv, PipelineTyped, Finish
  <2>2. work' = [work EXCEPT ![w] = Released(x)]
    BY <1>6 DEF Finish
  <2>3. x \in WorkTypes /\ ~x.done
    BY <2>1, DoneRecord
  <2> HIDE DEF x
  <2>4. OwnResponse(w, Released(x))
    BY <2>3, ReleasedRecord DEF OwnResponse
  <2> QED
    BY <2>1, <2>2, <2>4, OwnAfter
<1>7. CASE Abandon(p)
  <2> DEFINE y == [work[w] EXCEPT !.tick = FALSE]
  <2>1. w \in Works /\ work[w] \in WorkTypes /\ OwnResponse(w, work[w])
    BY <1>7, CallerAt DEF PlaceInv, PipelineTyped, Abandon, MatchInv
  <2>2. work' = [work EXCEPT ![w] = y]
    BY <1>7 DEF Abandon
  <2>3. OwnResponse(w, y)
    BY <2>1 DEF WorkTypes, OwnResponse
  <2> HIDE DEF y
  <2> QED
    BY <2>1, <2>2, <2>3, OwnAfter
<1> QED
  BY <1>3, <1>4, <1>5, <1>6, <1>7

LEMMA ExpireMatches ==
  ASSUME PlaceInv, MatchInv, NEW w \in Works, Expire(w) PROVE MatchInv'
<1> DEFINE y == [work[w] EXCEPT !.clock = "past", !.tick = TRUE]
<1>1. work[w] \in WorkTypes /\ OwnResponse(w, work[w])
  BY DEF PlaceInv, PipelineTyped, MatchInv
<1>2. OwnResponse(w, y)
  BY <1>1 DEF WorkTypes, OwnResponse
<1>3. /\ work' = [work EXCEPT ![w] = y]
      /\ UNCHANGED <<gen, made, chR, worker, writer, reader, wire>>
  BY DEF Expire
<1> HIDE DEF y
<1> QED
  BY <1>2, <1>3, OwnAfter, MatchElsewhere


-----------------------------------------------------------------------------
(* The writer and the reader.                                              *)

\* A step of the writer or the reader i, which the worker waits for.
LEMMA ServeMatches ==
  ASSUME PlaceInv, MatchInv, NEW i \in Goroutines,
         writer[i].pc # "returned" \/ reader[i].pc # "returned",
         UNCHANGED <<gen, made, worker>>,
         \A j \in Goroutines : j # i =>
           /\ wire'[j] = wire[j] /\ writer'[j] = writer[j] /\ reader'[j] = reader[j]
           /\ chR'[j[1]][j[2]] = chR[j[1]][j[2]],
         gen[i[1]] = i[2] \/ chR'[i[1]][i[2]] = chR[i[1]][i[2]],
         StepAt(i)', CurrentAt(i)', \A w \in Works : OwnResponse(w, work'[w])
  PROVE  MatchInv'
<1>1. \A j \in Goroutines : j # i => Untouched(j)
  BY DEF Untouched
<1>2. worker[i].pc \in {"serve", "close"}
  BY DEF PlaceInv, Phases
<1>3. gen[i[1]] # i[2] => chR[i[1]][i[2]] = <<>>
  BY DEF MatchInv, MatchAt, LeftAt
<1>4. LeftAt(i)'
  BY <1>2, <1>3 DEF LeftAt
<1>5. MatchAt(i)'
  BY <1>4 DEF MatchAt
<1> QED
  BY <1>1, <1>5, MatchFrame

LEMMA StepKept ==
  ASSUME NEW i \in Goroutines, StepAt(i), Requested(i)' = Requested(i), Expected(i)' = Expected(i),
         reader[i].pc # "returned", writer'[i].pc # "returned" => writer[i].pc # "returned"
  PROVE  StepAt(i)'
  BY DEF StepAt

\* The writer or the reader uses the channel of its worker.
LEMMA OwnChannel ==
  ASSUME PlaceInv, MatchInv, OneGeneration, NEW i \in Goroutines, gen[i[1]] # 0,
         writer[i].pc # "returned" \/ reader[i].pc # "returned"
  PROVE  gen[i[1]] = i[2]
<1>1. worker[i].pc # "off"
  BY DEF PlaceInv, Phases
<1> QED
  BY <1>1, OnlyOne DEF MatchInv

\* Receiving from that channel.
LEMMA ReceiveAfter ==
  ASSUME NEW q \in Queues, NEW i \in Goroutines
  PROVE  /\ Receive(q, i[1], i[2])[i[1]][i[2]] = Tail(q[i[1]][i[2]])
         /\ \A j \in Goroutines : j # i => Receive(q, i[1], i[2])[j[1]][j[2]] = q[j[1]][j[2]]
<1> PICK t : t = Tail(q[i[1]][i[2]])
  OBVIOUS
<1> DEFINE u == [q EXCEPT ![i[1]] = [q[i[1]] EXCEPT ![i[2]] = t]]
<1>1. i[1] \in CC /\ i[2] \in Gens /\ i = <<i[1], i[2]>>
  BY Indices
<1>2. Receive(q, i[1], i[2]) = u
  BY DEF Receive
<1>3. u[i[1]][i[2]] = t
  BY <1>1 DEF Queues
<1>4. ASSUME NEW j \in Goroutines, j # i PROVE u[j[1]][j[2]] = q[j[1]][j[2]]
  <2>1. j[1] \in CC /\ j[2] \in Gens /\ (j[1] # i[1] \/ j[2] # i[2])
    BY <1>1, <1>4, Indices
  <2> QED
    BY <1>1, <2>1 DEF Queues
<1> HIDE DEF u
<1> QED
  BY <1>2, <1>3, <1>4

\* A step of the writer that changes its record only.
LEMMA WriterMatches ==
  ASSUME PlaceInv, MatchInv, NEW i \in Goroutines, writer[i].pc # "returned",
         NEW r \in GoodWriters, writer' = [writer EXCEPT ![i] = r],
         UNCHANGED <<gen, made, chR, worker, reader>>,
         \A j \in Goroutines : j # i => wire'[j] = wire[j],
         reader[i].pc # "returned" => StepAt(i)',
         r.pc \in {"take", "write", "pushR"} => r.g = gen[i[1]],
         \A w \in Works : OwnResponse(w, work'[w])
  PROVE  MatchInv'
<1>1. writer'[i] = r /\ \A j \in Goroutines : j # i => writer'[j] = writer[j]
  BY WriterSet DEF PlaceInv
<1>2. StepAt(i)'
  BY DEF StepAt
<1>3. CurrentAt(i)'
  BY <1>1 DEF MatchInv, MatchAt, CurrentAt
<1> QED
  BY <1>1, <1>2, <1>3, ServeMatches

LEMMA WriterStartMatches ==
  ASSUME PlaceInv, MatchInv, NEW i \in Goroutines, WriterStart(i) PROVE MatchInv'
<1> DEFINE r == [writer[i] EXCEPT !.pc = "take", !.g = gen[i[1]]]
<1>1. writer[i] \in GoodWriters /\ writer[i].w = NoWork /\ writer[i].pc = "start"
  BY WriterAt DEF PlaceInv, WriterStart
<1>2. gen[i[1]] \in 0..MaxGen
  BY Indices DEF PlaceInv, PipelineTyped
<1>3. r \in GoodWriters /\ r.pc = "take" /\ r.g = gen[i[1]] /\ r.buf = writer[i].buf
  BY <1>1, <1>2 DEF GoodWriters, GoodWriter, WriterTypes
<1>4. writer' = [writer EXCEPT ![i] = r] /\ UNCHANGED <<clientVars, gen, chW, chR, work, worker, reader, wire>>
  BY DEF WriterStart
<1> HIDE DEF r
<1>5. writer'[i] = r
  BY <1>3, <1>4, WriterSet DEF PlaceInv
<1>6. Requested(i)' = Requested(i) /\ Expected(i)' = Expected(i)
  BY <1>1, <1>3, <1>4, <1>5 DEF Requested, Expected, ToRead, HeldByReader, HeldByWriter
<1>7. reader[i].pc # "returned" => StepAt(i)'
  BY <1>1, <1>6, StepKept DEF MatchInv, MatchAt
<1> QED
  BY <1>1, <1>3, <1>4, <1>7, OwnUnchanged, WriterMatches DEF clientVars

LEMMA WriterTakeMatches ==
  ASSUME PlaceInv, MatchInv, NEW i \in Goroutines, WriterTake(i) PROVE MatchInv'
<1> PICK w : w = Head(chW[i[1]][writer[i].g])
  OBVIOUS
<1> DEFINE r == [writer[i] EXCEPT !.pc = "write", !.w = w]
<1>1. writer[i] \in GoodWriters /\ writer[i].w = NoWork /\ writer[i].pc = "take"
      /\ writer[i].g \in 0..MaxGen
  BY WriterAt DEF PlaceInv, WriterTake
<1>2. w \in Works
  BY <1>1, Indices, ReceiveW DEF PlaceInv, WriterTake
<1>3. r \in GoodWriters /\ r.pc = "write" /\ r.g = writer[i].g /\ r.buf = writer[i].buf
  BY <1>1, <1>2, NoWorkIsNone DEF GoodWriters, GoodWriter, WriterTypes, MaybeWork
<1>4. /\ writer' = [writer EXCEPT ![i] = r]
      /\ UNCHANGED <<clientVars, gen, chR, work, worker, reader, wire>>
  BY DEF WriterTake
<1> HIDE DEF r
<1>5. writer'[i] = r
  BY <1>3, <1>4, WriterSet DEF PlaceInv
<1>6. Requested(i)' = Requested(i) /\ Expected(i)' = Expected(i)
  BY <1>1, <1>3, <1>4, <1>5 DEF Requested, Expected, ToRead, HeldByReader, HeldByWriter
<1>7. reader[i].pc # "returned" => StepAt(i)'
  BY <1>1, <1>6, StepKept DEF MatchInv, MatchAt
<1>8. writer[i].g = gen[i[1]]
  BY <1>1 DEF MatchInv, MatchAt, CurrentAt
<1> QED
  BY <1>1, <1>3, <1>4, <1>7, <1>8, OwnUnchanged, WriterMatches DEF clientVars

LEMMA WriterFlushMatches ==
  ASSUME PlaceInv, MatchInv, NEW i \in Goroutines, WriterFlush(i) PROVE MatchInv'
<1> DEFINE r == [writer[i] EXCEPT !.flush = FALSE, !.buf = <<>>]
<1>1. writer[i] \in GoodWriters /\ writer[i].pc \in {"take", "pushR"} /\ writer[i].buf \in Seq(Works)
  BY WriterAt DEF PlaceInv, WriterFlush, WaitsForWork, WaitsForRoom
<1>2. <<>> \in Seq(Works)
  OBVIOUS
<1>3. /\ r \in GoodWriters /\ r.pc = writer[i].pc /\ r.w = writer[i].w /\ r.g = writer[i].g
      /\ r.buf = <<>>
  BY <1>1, <1>2 DEF GoodWriters, GoodWriter, WriterTypes
<1>4. /\ writer' = [writer EXCEPT ![i] = r]
      /\ UNCHANGED <<clientVars, gen, chW, chR, work, worker, reader>>
  BY DEF WriterFlush
<1> HIDE DEF r
<1>5. writer'[i] = r
  BY <1>3, <1>4, WriterSet DEF PlaceInv
<1>6. /\ wire'[i] = wire[i] \o writer[i].buf
      /\ \A j \in Goroutines : j # i => wire'[j] = wire[j]
  BY DEF WriterFlush, PlaceInv, PipelineTyped
<1>7. Requested(i)' = Requested(i)
  <2>1. Requested(i) \in Seq(Works)
    BY ListsTyped DEF PlaceInv
  <2>2. Requested(i)' = Requested(i) \o <<>>
    BY <1>3, <1>5, <1>6 DEF Requested
  <2> QED
    BY <2>1, <2>2, ConcatEmpty
<1>8. Expected(i)' = Expected(i)
  <2>1. HeldByWriter(i)' = HeldByWriter(i)
    BY <1>3, <1>5 DEF HeldByWriter
  <2>2. ToRead(i)' = ToRead(i)
    BY <1>4 DEF ToRead, HeldByReader
  <2> QED
    BY <2>1, <2>2 DEF Expected
<1>9. reader[i].pc # "returned" => StepAt(i)'
  BY <1>1, <1>7, <1>8, StepKept DEF MatchInv, MatchAt
<1>10. writer[i].g = gen[i[1]]
  BY <1>1 DEF MatchInv, MatchAt, CurrentAt
<1> QED
  BY <1>1, <1>3, <1>4, <1>6, <1>9, <1>10, OwnUnchanged, WriterMatches DEF clientVars

LEMMA WriterTooLateMatches ==
  ASSUME PlaceInv, MatchInv, NEW i \in Goroutines, WriterTooLate(i) PROVE MatchInv'
<1> PICK w : w = writer[i].w
  OBVIOUS
<1> DEFINE r == [writer[i] EXCEPT !.pc = "take", !.w = NoWork]
<1>1. writer[i] \in GoodWriters /\ w \in Works /\ writer[i].pc = "write"
  BY WriterAt DEF PlaceInv, WriterTooLate
<1>2. r \in GoodWriters /\ r.pc = "take" /\ r.g = writer[i].g /\ r.buf = writer[i].buf
  BY <1>1 DEF GoodWriters, GoodWriter, WriterTypes, MaybeWork
<1>3. /\ writer' = [writer EXCEPT ![i] = r] /\ Complete(w, "ErrTimeout")
      /\ UNCHANGED <<clientVars, gen, chW, chR, worker, reader, wire>>
  BY DEF WriterTooLate, Complete
<1> HIDE DEF r
<1>4. writer'[i] = r
  BY <1>2, <1>3, WriterSet DEF PlaceInv
<1>5. Requested(i)' = Requested(i) /\ Expected(i)' = Expected(i)
  BY <1>1, <1>2, <1>3, <1>4 DEF Requested, Expected, ToRead, HeldByReader, HeldByWriter
<1>6. reader[i].pc # "returned" => StepAt(i)'
  BY <1>1, <1>5, StepKept DEF MatchInv, MatchAt
<1>7. writer[i].g = gen[i[1]]
  BY <1>1 DEF MatchInv, MatchAt, CurrentAt
<1>8. \A v \in Works : OwnResponse(v, work'[v])
  BY <1>1, <1>3, OwnError
<1> QED
  BY <1>1, <1>2, <1>3, <1>6, <1>7, <1>8, WriterMatches DEF clientVars

LEMMA WriterWriteMatches ==
  ASSUME PlaceInv, MatchInv, NEW i \in Goroutines, WriterWrite(i) PROVE MatchInv'
<1> PICK w : w = writer[i].w
  OBVIOUS
<1>1. writer[i] \in GoodWriters /\ w \in Works /\ writer[i].pc = "write"
      /\ writer[i].buf \in Seq(Works)
  BY WriterAt DEF PlaceInv, WriterWrite
<1>2. PICK f \in BOOLEAN : writer' = [writer EXCEPT ![i].pc = "pushR",
                                                    ![i].buf = Append(@, w), ![i].flush = f]
  <2> DEFINE arm == \/ ~HasWork(chW, i[1], writer[i].g)
                    \/ (IF writer[i].g = 0 THEN FALSE ELSE Len(chR[i[1]][writer[i].g]) = Cap)
             f == writer[i].flush \/ arm
  <2>1. writer' = [writer EXCEPT ![i].pc = "pushR", ![i].buf = Append(@, w), ![i].flush = f]
    BY DEF WriterWrite
  <2>2. f \in BOOLEAN
    OBVIOUS
  <2> QED
    BY <2>1, <2>2
<1> DEFINE b == Append(writer[i].buf, w)
           r == [writer[i] EXCEPT !.pc = "pushR", !.buf = b, !.flush = f]
<1>3. b \in Seq(Works)
  BY <1>1
<1>4. writer' = [writer EXCEPT ![i] = r]
  BY <1>2
<1> HIDE DEF b
<1>5. r \in GoodWriters /\ r.pc = "pushR" /\ r.w = w /\ r.g = writer[i].g /\ r.buf = b
  BY <1>1, <1>3 DEF GoodWriters, GoodWriter, WriterTypes
<1>6. UNCHANGED <<clientVars, gen, chW, chR, work, worker, reader, wire>>
  BY DEF WriterWrite
<1> HIDE DEF r
<1>7. writer'[i] = r
  BY <1>4, <1>5, WriterSet DEF PlaceInv
<1>8. /\ Requested(i) \in Seq(Works) /\ ToRead(i) \in Seq(Works) /\ wire[i] \in Seq(Works)
      /\ Expected(i) \in Seq(Works)
  BY ListsTyped DEF PlaceInv
<1>9. Requested(i)' = Append(Requested(i), w)
  <2>1. Requested(i)' = wire[i] \o Append(writer[i].buf, w)
    BY <1>5, <1>6, <1>7 DEF Requested, b
  <2>2. wire[i] \o Append(writer[i].buf, w) = Append(wire[i] \o writer[i].buf, w)
    BY <1>1, <1>8, ConcatAppend, ZenonT(40)
  <2> QED
    BY <2>1, <2>2 DEF Requested
<1>10. Expected(i)' = Append(Expected(i), w)
  <2>1. ToRead(i)' = ToRead(i)
    BY <1>6 DEF ToRead, HeldByReader
  <2>2. Expected(i) = ToRead(i) \o <<>>
    BY <1>1 DEF Expected, HeldByWriter
  <2>3. Expected(i)' = ToRead(i) \o <<w>>
    BY <1>5, <1>7, <2>1 DEF Expected, HeldByWriter
  <2> QED
    BY <1>1, <1>8, <2>2, <2>3, ConcatEmpty, ConcatAppend
<1>11. ASSUME reader[i].pc # "returned" PROVE StepAt(i)'
  <2>1. Agree(Requested(i), Expected(i)) /\ Len(Requested(i)) = Len(Expected(i))
    BY <1>1, <1>11 DEF MatchInv, MatchAt, StepAt
  <2>2. /\ Agree(Append(Requested(i), w), Append(Expected(i), w))
        /\ Len(Append(Requested(i), w)) = Len(Append(Expected(i), w))
    BY <1>1, <1>8, <2>1, AgreeAppend
  <2>3. Agree(Requested(i), Expected(i))' /\ Len(Requested(i)') = Len(Expected(i)')
    BY <1>9, <1>10, <2>2 DEF Agree
  <2> QED
    BY <2>3 DEF StepAt
<1>12. writer[i].g = gen[i[1]]
  BY <1>1 DEF MatchInv, MatchAt, CurrentAt
<1> QED
  BY <1>1, <1>4, <1>5, <1>6, <1>11, <1>12, OwnUnchanged, WriterMatches DEF clientVars

LEMMA WriterPassMatches ==
  ASSUME PlaceInv, MatchInv, OneGeneration, NEW i \in Goroutines, WriterPass(i) PROVE MatchInv'
<1> PICK w : w = writer[i].w
  OBVIOUS
<1> DEFINE r == [writer[i] EXCEPT !.pc = "take", !.w = NoWork]
<1>1. writer[i] \in GoodWriters /\ w \in Works /\ writer[i].pc = "pushR" /\ writer[i].g # 0
  BY WriterAt DEF PlaceInv, WriterPass, Room
<1>2. r \in GoodWriters /\ r.pc = "take" /\ r.g = writer[i].g /\ r.buf = writer[i].buf
  BY <1>1 DEF GoodWriters, GoodWriter, WriterTypes, MaybeWork
<1>3. /\ writer' = [writer EXCEPT ![i] = r]
      /\ UNCHANGED <<clientVars, gen, chW, work, worker, reader, wire>>
  BY DEF WriterPass
<1> HIDE DEF r
<1>4. writer'[i] = r /\ \A j \in Goroutines : j # i => writer'[j] = writer[j]
  BY <1>2, <1>3, WriterSet DEF PlaceInv
<1>5. writer[i].g = gen[i[1]]
  BY <1>1 DEF MatchInv, MatchAt, CurrentAt
<1>6. gen[i[1]] = i[2] /\ writer[i].g = i[2]
  BY <1>1, <1>5, OwnChannel
<1>7. /\ chR'[i[1]][i[2]] = Append(chR[i[1]][i[2]], w)
      /\ \A j \in Goroutines : j # i => chR'[j[1]][j[2]] = chR[j[1]][j[2]]
  <2>1. chR' = Send(chR, i[1], i[2], w) /\ chR \in Queues
    BY <1>6 DEF WriterPass, PlaceInv, PipelineTyped
  <2> DEFINE t == Append(chR[i[1]][i[2]], w)
  <2>2. chR' = [chR EXCEPT ![i[1]] = [chR[i[1]] EXCEPT ![i[2]] = t]]
    BY <2>1 DEF Send
  <2> HIDE DEF t
  <2>3. chR'[i[1]][i[2]] = t
    BY <2>1, <2>2, Indices DEF Queues
  <2>4. ASSUME NEW j \in Goroutines, j # i PROVE chR'[j[1]][j[2]] = chR[j[1]][j[2]]
    <3>1. j[1] \in CC /\ j[2] \in Gens /\ (j[1] # i[1] \/ j[2] # i[2])
      BY <2>4, Indices
    <3> QED
      BY <2>1, <2>2, <3>1, Indices DEF Queues
  <2> QED
    BY <2>3, <2>4, Zenon DEF t
<1>8. /\ HeldByReader(i) \in Seq(Works) /\ chR[i[1]][i[2]] \in Seq(Works) /\ ToRead(i) \in Seq(Works)
  BY ListsTyped DEF PlaceInv
<1>9. Expected(i)' = Expected(i)
  <2> PICK c : c = chR[i[1]][i[2]]
    OBVIOUS
  <2> PICK h : h = HeldByReader(i)
    OBVIOUS
  <2>1. HeldByReader(i)' = h
    BY <1>3 DEF HeldByReader
  <2>2. ToRead(i)' = h \o Append(c, w) /\ ToRead(i) = h \o c
    <3>1. chR'[i[1]][i[2]] = Append(c, w)
      BY <1>7
    <3> QED
      BY <2>1, <3>1 DEF ToRead
  <2>3. h \in Seq(Works) /\ c \in Seq(Works) /\ h \o c \in Seq(Works)
    BY <1>8, <2>2
  <2>4. h \o Append(c, w) = Append(h \o c, w) /\ Append(h \o c, w) \in Seq(Works)
    <3>1. h \o Append(c, w) = Append(h \o c, w)
      BY <1>1, <2>3, ConcatAppend, ZenonT(40)
    <3>2. \A s \in Seq(Works) : Append(s, w) \in Seq(Works)
      BY <1>1
    <3>3. Append(h \o c, w) \in Seq(Works)
      BY <2>3, <3>2, ZenonT(40)
    <3> QED
      BY <3>1, <3>3, ZenonT(40)
  <2>5. Expected(i)' = Append(h \o c, w) \o <<>>
    BY <1>2, <1>4, <2>2, <2>4 DEF Expected, HeldByWriter
  <2>6. Expected(i) = (h \o c) \o <<w>>
    BY <1>1, <2>2 DEF Expected, HeldByWriter
  <2> PICK u : u = h \o c
    OBVIOUS
  <2>7. u \o <<w>> = Append(u, w) /\ Append(u, w) \o <<>> = Append(u, w)
    <3>1. u \in Seq(Works) /\ Append(u, w) \in Seq(Works)
      BY <2>3, <2>4
    <3>2. u \o <<w>> = Append(u, w)
      BY <1>1, <3>1, ConcatAppend, ZenonT(40)
    <3>3. Append(u, w) \o <<>> = Append(u, w)
      BY <3>1, ConcatEmpty, ZenonT(40)
    <3> QED
      BY <3>2, <3>3
  <2> QED
    BY <2>5, <2>6, <2>7
<1>10. Requested(i)' = Requested(i)
  BY <1>2, <1>3, <1>4 DEF Requested
<1>11. StepAt(i)'
  <2>1. CASE reader[i].pc # "returned"
    BY <1>1, <1>9, <1>10, <2>1, StepKept DEF MatchInv, MatchAt
  <2>2. CASE reader[i].pc = "returned"
    BY <1>3, <2>2 DEF StepAt
  <2> QED
    BY <2>1, <2>2
<1>12. CurrentAt(i)'
  BY <1>2, <1>3, <1>4, <1>5 DEF MatchInv, MatchAt, CurrentAt
<1> QED
  BY <1>1, <1>3, <1>4, <1>6, <1>7, <1>11, <1>12, OwnUnchanged, ServeMatches DEF clientVars

\* The writer returns, with what is in its buffer flushed or lost.
LEMMA WriterReturnMatches ==
  ASSUME PlaceInv, MatchInv, NEW i \in Goroutines, writer[i].pc # "returned",
         NEW err \in BOOLEAN, WriterReturn(i, err), UNCHANGED <<gen, made, chR, worker, reader>>,
         \A w \in Works : OwnResponse(w, work'[w])
  PROVE  MatchInv'
<1> DEFINE r == [NewWriter EXCEPT !.pc = "returned", !.err = err]
<1>1. NewWriter \in GoodWriters /\ NewWriter.w = NoWork /\ NewWriter.buf = <<>>
  BY NewGood DEF NewWriter
<1>2. r \in GoodWriters /\ r.pc = "returned" /\ r.buf = <<>>
  BY <1>1 DEF GoodWriters, GoodWriter, WriterTypes
<1>3. writer' = [writer EXCEPT ![i] = r]
  BY DEF WriterReturn
<1> HIDE DEF r
<1>4. writer'[i] = r
  BY <1>2, <1>3, WriterSet DEF PlaceInv
<1>5. /\ wire[i] \in Seq(Works) /\ writer[i].buf \in Seq(Works) /\ ToRead(i) \in Seq(Works)
      /\ HeldByWriter(i) \in Seq(Works) /\ Requested(i) \in Seq(Works)
  BY ListsTyped DEF PlaceInv
<1>6. /\ wire'[i] = wire[i] \/ wire'[i] = Requested(i)
      /\ \A j \in Goroutines : j # i => wire'[j] = wire[j]
  BY DEF WriterReturn, Requested, PlaceInv, PipelineTyped
<1>7. Requested(i)' = wire'[i]
  <2>1. Requested(i)' = wire'[i] \o <<>>
    BY <1>2, <1>4 DEF Requested
  <2> QED
    BY <1>5, <1>6, <2>1, ConcatEmpty
<1>8. Expected(i)' = ToRead(i)
  <2>1. ToRead(i)' = ToRead(i)
    BY DEF ToRead, HeldByReader
  <2>2. Expected(i)' = ToRead(i) \o <<>>
    BY <1>2, <1>4, <2>1 DEF Expected, HeldByWriter
  <2> QED
    BY <1>5, <2>2, ConcatEmpty
<1>9. ASSUME reader[i].pc # "returned" PROVE StepAt(i)'
  <2>1. Agree(Requested(i), Expected(i))
    BY <1>9 DEF MatchInv, MatchAt, StepAt
  <2>2. Agree(Requested(i), ToRead(i))
    BY <1>5, <2>1, AgreeCut DEF Expected
  <2>3. Agree(wire[i], ToRead(i))
    BY <1>5, <2>2, AgreeCut DEF Requested
  <2>4. Agree(Requested(i)', Expected(i)')
    BY <1>6, <1>7, <1>8, <2>2, <2>3
  <2>5. Agree(Requested(i), Expected(i))'
    BY <2>4 DEF Agree
  <2> QED
    BY <1>2, <1>4, <2>5 DEF StepAt
<1> QED
  BY <1>2, <1>3, <1>6, <1>9, WriterMatches

LEMMA WriterEndsMatch ==
  ASSUME PlaceInv, MatchInv, NEW i \in Goroutines,
         WriterIdle(i) \/ WriterStop(i) \/ WriterFlushFails(i) \/ WriterWriteFails(i) \/ WriterStopFull(i)
  PROVE  MatchInv'
<1> PICK w : w = writer[i].w
  OBVIOUS
<1>1. PICK e \in BOOLEAN : WriterReturn(i, e)
  BY DEF WriterIdle, WriterStop, WriterFlushFails, WriterWriteFails, WriterStopFull
<1>2. UNCHANGED <<gen, made, chR, worker, reader>>
  BY DEF WriterIdle, WriterStop, WriterFlushFails, WriterWriteFails, WriterStopFull, clientVars
<1>3. writer[i].pc # "returned"
  BY DEF WriterIdle, WriterStop, WriterFlushFails, WriterWriteFails, WriterStopFull,
         WaitsForWork, WaitsForRoom
<1>4. CASE UNCHANGED work
  BY <1>1, <1>2, <1>3, <1>4, OwnUnchanged, WriterReturnMatches
<1>5. ASSUME NEW err \in {"errPipelineConnStopped", "writeError"}, Complete(w, err), w \in Works
      PROVE  MatchInv'
  <2>1. \A v \in Works : OwnResponse(v, work'[v])
    BY <1>5, OwnError
  <2> QED
    BY <1>1, <1>2, <1>3, <2>1, WriterReturnMatches
<1>6. CASE WriterIdle(i) \/ WriterStop(i)
  BY <1>4, <1>6 DEF WriterIdle, WriterStop
<1>7. CASE WriterFlushFails(i)
  <2>1. CASE writer[i].pc = "pushR"
    <3>1. w \in Works /\ Complete(w, "writeError")
      BY <1>7, <2>1, WriterAt DEF WriterFlushFails, PlaceInv, Complete
    <3> QED
      BY <1>5, <3>1
  <2>2. CASE writer[i].pc # "pushR"
    BY <1>4, <1>7, <2>2 DEF WriterFlushFails
  <2> QED
    BY <2>1, <2>2
<1>8. CASE WriterWriteFails(i)
  <2>1. w \in Works /\ Complete(w, "writeError")
    BY <1>8, WriterAt DEF WriterWriteFails, PlaceInv, Complete
  <2> QED
    BY <1>5, <2>1
<1>9. CASE WriterStopFull(i)
  <2>1. w \in Works /\ Complete(w, "errPipelineConnStopped")
    BY <1>9, WriterAt DEF WriterStopFull, WaitsForRoom, PlaceInv, Complete
  <2> QED
    BY <1>5, <2>1
<1> QED
  BY <1>6, <1>7, <1>8, <1>9

\* A step of the reader.
LEMMA ReaderMatches ==
  ASSUME PlaceInv, MatchInv, NEW i \in Goroutines, reader[i].pc # "returned",
         NEW r \in GoodReaders, reader' = [reader EXCEPT ![i] = r],
         UNCHANGED <<gen, made, worker, writer>>,
         \A j \in Goroutines : j # i => wire'[j] = wire[j] /\ chR'[j[1]][j[2]] = chR[j[1]][j[2]],
         gen[i[1]] = i[2] \/ chR'[i[1]][i[2]] = chR[i[1]][i[2]],
         r.pc # "returned" => StepAt(i)',
         r.pc \in {"take", "read"} => r.g = gen[i[1]],
         \A w \in Works : OwnResponse(w, work'[w])
  PROVE  MatchInv'
<1>1. reader'[i] = r /\ \A j \in Goroutines : j # i => reader'[j] = reader[j]
  BY ReaderSet DEF PlaceInv
<1>2. StepAt(i)'
  BY <1>1 DEF StepAt
<1>3. CurrentAt(i)'
  BY <1>1 DEF MatchInv, MatchAt, CurrentAt
<1> QED
  BY <1>1, <1>2, <1>3, ServeMatches

LEMMA ReaderStartMatches ==
  ASSUME PlaceInv, MatchInv, NEW i \in Goroutines, ReaderStart(i) PROVE MatchInv'
<1> DEFINE r == [reader[i] EXCEPT !.pc = "take", !.g = gen[i[1]]]
<1>1. reader[i] \in GoodReaders /\ reader[i].w = NoWork /\ reader[i].pc = "start"
  BY ReaderAt DEF PlaceInv, ReaderStart
<1>2. gen[i[1]] \in 0..MaxGen
  BY Indices DEF PlaceInv, PipelineTyped
<1>3. r \in GoodReaders /\ r.pc = "take" /\ r.g = gen[i[1]]
  BY <1>1, <1>2 DEF GoodReaders, GoodReader, ReaderTypes
<1>4. /\ reader' = [reader EXCEPT ![i] = r]
      /\ UNCHANGED <<clientVars, gen, chW, chR, work, worker, writer, wire>>
  BY DEF ReaderStart
<1> HIDE DEF r
<1>5. reader'[i] = r
  BY <1>3, <1>4, ReaderSet DEF PlaceInv
<1>6. Requested(i)' = Requested(i) /\ Expected(i)' = Expected(i)
  BY <1>1, <1>3, <1>4, <1>5 DEF Requested, Expected, ToRead, HeldByReader, HeldByWriter
<1>7. StepAt(i)'
  BY <1>1, <1>4, <1>6, StepKept DEF MatchInv, MatchAt
<1> QED
  BY <1>1, <1>3, <1>4, <1>7, OwnUnchanged, ReaderMatches DEF clientVars

LEMMA ReaderTakeMatches ==
  ASSUME PlaceInv, MatchInv, OneGeneration, NEW i \in Goroutines, ReaderTake(i) PROVE MatchInv'
<1> PICK w : w = Head(chR[i[1]][reader[i].g])
  OBVIOUS
<1> DEFINE r == [reader[i] EXCEPT !.pc = "read", !.w = w]
<1>1. /\ reader[i] \in GoodReaders /\ reader[i].pc = "take" /\ reader[i].g # 0
      /\ reader[i].g \in 0..MaxGen
  BY ReaderAt DEF PlaceInv, ReaderTake, HasWork
<1>2. w \in Works
  BY <1>1, Indices, ReceiveR DEF PlaceInv, ReaderTake
<1>3. r \in GoodReaders /\ r.pc = "read" /\ r.w = w /\ r.g = reader[i].g
  BY <1>1, <1>2, NoWorkIsNone DEF GoodReaders, GoodReader, ReaderTypes, MaybeWork
<1>4. /\ reader' = [reader EXCEPT ![i] = r]
      /\ UNCHANGED <<clientVars, gen, chW, work, worker, writer, wire>>
  BY DEF ReaderTake
<1> HIDE DEF r
<1>5. reader'[i] = r
  BY <1>3, <1>4, ReaderSet DEF PlaceInv
<1>6. reader[i].g = gen[i[1]]
  BY <1>1 DEF MatchInv, MatchAt, CurrentAt
<1>7. gen[i[1]] = i[2] /\ reader[i].g = i[2]
  BY <1>1, <1>6, OwnChannel
<1>8. /\ chR'[i[1]][i[2]] = Tail(chR[i[1]][i[2]])
      /\ \A j \in Goroutines : j # i => chR'[j[1]][j[2]] = chR[j[1]][j[2]]
  <2>1. chR' = Receive(chR, i[1], i[2]) /\ chR \in Queues
    BY <1>7 DEF ReaderTake, PlaceInv, PipelineTyped
  <2> QED
    BY <2>1, ReceiveAfter
<1>9. ToRead(i)' = ToRead(i)
  <2> PICK c : c = chR[i[1]][i[2]]
    OBVIOUS
  <2>1. c \in Seq(Works) /\ c # <<>> /\ w = Head(c)
    BY <1>1, <1>7, ListsTyped DEF PlaceInv, ReaderTake, HasWork
  <2>2. HeldByReader(i) = <<>> /\ HeldByReader(i)' = <<w>>
    BY <1>1, <1>3, <1>5 DEF HeldByReader
  <2>3. ToRead(i)' = <<w>> \o Tail(c) /\ ToRead(i) = <<>> \o c
    BY <1>8, <2>2 DEF ToRead
  <2>4. <<w>> \o Tail(c) = c /\ <<>> \o c = c
    BY <2>1, ConcatHead, ConcatEmpty, Zenon
  <2> QED
    BY <2>3, <2>4
<1>10. Requested(i)' = Requested(i) /\ Expected(i)' = Expected(i)
  BY <1>4, <1>9 DEF Requested, Expected, HeldByWriter
<1>11. StepAt(i)'
  BY <1>1, <1>4, <1>10, StepKept DEF MatchInv, MatchAt
<1> QED
  BY <1>1, <1>3, <1>4, <1>6, <1>7, <1>8, <1>11, OwnUnchanged, ReaderMatches DEF clientVars

LEMMA ReaderStopMatches ==
  ASSUME PlaceInv, MatchInv, NEW i \in Goroutines, ReaderStop(i) PROVE MatchInv'
<1> DEFINE r == [NewReader EXCEPT !.pc = "returned"]
<1>1. reader[i].pc = "take"
  BY DEF ReaderStop
<1>2. r \in GoodReaders /\ r.pc = "returned"
  BY NewGood DEF GoodReaders, GoodReader, ReaderTypes
<1>3. /\ reader' = [reader EXCEPT ![i] = r]
      /\ UNCHANGED <<clientVars, gen, chW, chR, work, worker, writer, wire>>
  BY DEF ReaderStop
<1> HIDE DEF r
<1> QED
  BY <1>1, <1>2, <1>3, OwnUnchanged, ReaderMatches DEF clientVars

LEMMA ReaderFailsMatches ==
  ASSUME PlaceInv, MatchInv, NEW i \in Goroutines, ReaderFails(i) PROVE MatchInv'
<1> PICK w : w = reader[i].w
  OBVIOUS
<1> DEFINE r == [NewReader EXCEPT !.pc = "returned", !.err = TRUE]
<1>1. w \in Works /\ reader[i].pc = "read"
  BY ReaderAt DEF PlaceInv, ReaderFails
<1>2. r \in GoodReaders /\ r.pc = "returned"
  BY NewGood DEF GoodReaders, GoodReader, ReaderTypes
<1>3. /\ reader' = [reader EXCEPT ![i] = r] /\ Complete(w, "readError")
      /\ UNCHANGED <<clientVars, gen, chW, chR, worker, writer, wire>>
  BY DEF ReaderFails, Complete
<1> HIDE DEF r
<1>4. \A v \in Works : OwnResponse(v, work'[v])
  BY <1>1, <1>3, OwnError
<1> QED
  BY <1>1, <1>2, <1>3, <1>4, ReaderMatches DEF clientVars

\* The response that is read is the one to the request of the work in hand.
LEMMA ReaderReadMatches ==
  ASSUME PlaceInv, MatchInv, NEW i \in Goroutines, ReaderRead(i) PROVE MatchInv'
<1> PICK w : w = reader[i].w
  OBVIOUS
<1> PICK a : a = wire[i]
  OBVIOUS
<1> DEFINE r == [reader[i] EXCEPT !.pc = "take", !.w = NoWork]
           y == [work[w] EXCEPT !.done = TRUE, !.resp = Head(a)]
<1>1. reader[i] \in GoodReaders /\ w \in Works /\ reader[i].pc = "read"
  BY ReaderAt DEF PlaceInv, ReaderRead
<1>2. r \in GoodReaders /\ r.pc = "take" /\ r.g = reader[i].g
  BY <1>1 DEF GoodReaders, GoodReader, ReaderTypes, MaybeWork
<1>3. /\ reader' = [reader EXCEPT ![i] = r] /\ work' = [work EXCEPT ![w] = y]
      /\ wire' = [wire EXCEPT ![i] = Tail(a)] /\ a # <<>>
      /\ UNCHANGED <<clientVars, gen, chW, chR, worker, writer>>
  BY DEF ReaderRead
<1>4. y.resp = Head(a)
  BY <1>1 DEF PlaceInv, PipelineTyped, WorkTypes
<1> HIDE DEF r, y
<1>5. reader'[i] = r
  BY <1>2, <1>3, ReaderSet DEF PlaceInv
<1>6. wire'[i] = Tail(a) /\ \A j \in Goroutines : j # i => wire'[j] = wire[j]
  BY <1>3 DEF PlaceInv, PipelineTyped
<1> PICK b : b = writer[i].buf
  OBVIOUS
<1> PICK c : c = chR[i[1]][i[2]]
  OBVIOUS
<1> PICK d : d = HeldByWriter(i)
  OBVIOUS
<1>7. /\ a \in Seq(Works) /\ b \in Seq(Works) /\ c \in Seq(Works) /\ d \in Seq(Works)
      /\ Requested(i) \in Seq(Works) /\ Expected(i) \in Seq(Works) /\ ToRead(i) \in Seq(Works)
  BY ListsTyped DEF PlaceInv
<1>8. /\ Requested(i)' = Tail(Requested(i)) /\ Head(Requested(i)) = Head(a)
      /\ Requested(i) # <<>>
  <2>1. Requested(i) = a \o b /\ Requested(i)' = Tail(a) \o b
    BY <1>3, <1>6 DEF Requested
  <2>2. Tail(a \o b) = Tail(a) \o b /\ Head(a \o b) = Head(a) /\ a \o b # <<>>
    BY <1>3, <1>7, ConcatTail, Zenon
  <2> QED
    BY <2>1, <2>2
<1>9. Expected(i)' = Tail(Expected(i)) /\ Head(Expected(i)) = w /\ Expected(i) # <<>>
  <2> PICK t : t = <<w>> \o c
    OBVIOUS
  <2>1. ToRead(i) = t /\ t \in Seq(Works)
    BY <1>1, <1>7 DEF ToRead, HeldByReader
  <2>2. Head(t) = w /\ Tail(t) = c /\ t # <<>>
    BY <1>1, <1>7, ConcatOne, Zenon
  <2>3. Expected(i) = t \o d
    BY <2>1 DEF Expected
  <2>4. ToRead(i)' = c
    <3>1. ToRead(i)' = <<>> \o c
      BY <1>2, <1>3, <1>5 DEF ToRead, HeldByReader
    <3> QED
      BY <1>7, <3>1, ConcatEmpty, Zenon
  <2>5. HeldByWriter(i)' = d
    BY <1>3 DEF HeldByWriter
  <2>6. Expected(i)' = c \o d
    BY <2>4, <2>5 DEF Expected
  <2>7. Tail(t \o d) = Tail(t) \o d /\ Head(t \o d) = Head(t) /\ t \o d # <<>>
    BY <1>7, <2>1, <2>2, ConcatTail, Zenon
  <2> QED
    BY <2>2, <2>3, <2>6, <2>7, Zenon
<1>10. /\ Agree(Requested(i), Expected(i))
       /\ writer[i].pc # "returned" => Len(Requested(i)) = Len(Expected(i))
  BY <1>1 DEF MatchInv, MatchAt, StepAt
<1>11. /\ Agree(Tail(Requested(i)), Tail(Expected(i))) /\ Head(Requested(i)) = Head(Expected(i))
       /\ Len(Tail(Requested(i))) = Len(Requested(i)) - 1 /\ Len(Tail(Expected(i))) = Len(Expected(i)) - 1
  BY <1>7, <1>8, <1>9, <1>10, AgreeTail
<1>12. StepAt(i)'
  <2>1. Agree(Requested(i)', Expected(i)')
    BY <1>8, <1>9, <1>11, Zenon
  <2>2. Agree(Requested(i), Expected(i))'
    BY <2>1 DEF Agree
  <2>3. writer'[i].pc # "returned" => Len(Requested(i)') = Len(Expected(i)')
    BY <1>3, <1>8, <1>9, <1>10, <1>11
  <2> QED
    BY <2>2, <2>3 DEF StepAt
<1>13. OwnResponse(w, y)
  BY <1>4, <1>8, <1>9, <1>11 DEF OwnResponse
<1>14. \A v \in Works : OwnResponse(v, work'[v])
  BY <1>1, <1>3, <1>13, OwnAfter
<1>15. reader[i].g = gen[i[1]]
  BY <1>1 DEF MatchInv, MatchAt, CurrentAt
<1> QED
  BY <1>1, <1>2, <1>3, <1>6, <1>12, <1>14, <1>15, ReaderMatches DEF clientVars

-----------------------------------------------------------------------------
(* The worker, and init.                                                   *)

\* A goroutine that has no connection, whatever becomes of the channels.
LEMMA MatchIdle ==
  ASSUME PlaceInv, NEW j \in Goroutines, MatchAt(j), worker[j].pc \notin {"serve", "close", "drain"},
         UNCHANGED <<wire, writer, reader, chR>>
  PROVE  MatchAt(j)'
<1>1. writer[j].pc = "returned" /\ reader[j].pc = "returned"
  BY DEF PlaceInv, Phases
<1>2. wire[j] = <<>> /\ chR[j[1]][j[2]] = <<>>
  BY DEF MatchAt, LeftAt
<1>3. StepAt(j)' /\ CurrentAt(j)'
  BY <1>1 DEF StepAt, CurrentAt
<1>4. LeftAt(j)'
  BY <1>2 DEF LeftAt
<1> QED
  BY <1>3, <1>4 DEF MatchAt

\* A step of the worker that touches neither channels nor goroutines.
LEMMA WorkerMatches ==
  ASSUME PlaceInv, MatchInv, NEW i \in Goroutines, NEW r, worker' = [worker EXCEPT ![i] = r],
         UNCHANGED <<gen, made, chR, work, writer, reader>>,
         \A j \in Goroutines : j # i => wire'[j] = wire[j],
         reader[i].pc = "returned" \/ wire'[i] = wire[i],
         r.pc \notin {"serve", "close"} => wire'[i] = <<>>,
         r.pc \notin {"serve", "close", "drain"} => chR[i[1]][i[2]] = <<>>
  PROVE  MatchInv'
<1>1. worker'[i] = r /\ \A j \in Goroutines : j # i => worker'[j] = worker[j]
  BY DEF PlaceInv, PipelineTyped
<1>2. \A j \in Goroutines : j # i => Untouched(j)
  BY <1>1 DEF Untouched
<1>3. MatchAt(i)
  BY DEF MatchInv
<1>4. StepAt(i)'
  <2>1. CASE reader[i].pc = "returned"
    BY <2>1 DEF StepAt
  <2>2. CASE wire'[i] = wire[i]
    <3>1. Requested(i)' = Requested(i)
      BY <2>2 DEF Requested
    <3>2. Expected(i)' = Expected(i)
      BY DEF Expected, ToRead, HeldByReader, HeldByWriter
    <3>3. CASE reader[i].pc # "returned"
      BY <1>3, <3>1, <3>2, <3>3, StepKept DEF MatchAt
    <3> QED
      BY <2>1, <3>3 DEF StepAt
  <2> QED
    BY <2>1, <2>2
<1>5. LeftAt(i)'
  BY <1>1, <1>3 DEF MatchAt, LeftAt
<1>6. CurrentAt(i)'
  BY <1>3 DEF MatchAt, CurrentAt
<1>7. MatchAt(i)'
  BY <1>4, <1>5, <1>6 DEF MatchAt
<1> QED
  BY <1>2, <1>7, OwnUnchanged, MatchFrame

LEMMA DialMatches ==
  ASSUME PlaceInv, MatchInv, NEW i \in Goroutines, Dial(i) PROVE MatchInv'
<1>1. /\ worker[i].pc = "dial"
      /\ writer' = [writer EXCEPT ![i] = NewWriter] /\ reader' = [reader EXCEPT ![i] = NewReader]
      /\ UNCHANGED <<clientVars, gen, chW, chR, work, wire>>
  BY DEF Dial
<1>2. /\ worker'[i].pc = "serve"
      /\ \A j \in Goroutines : j # i => worker'[j] = worker[j]
  BY DEF Dial, PlaceInv, PipelineTyped
<1>3. writer'[i] = NewWriter /\ \A j \in Goroutines : j # i => writer'[j] = writer[j]
  BY <1>1, NewGood, WriterSet DEF PlaceInv
<1>4. reader'[i] = NewReader /\ \A j \in Goroutines : j # i => reader'[j] = reader[j]
  BY <1>1, NewGood, ReaderSet DEF PlaceInv
<1>5. wire[i] = <<>> /\ chR[i[1]][i[2]] = <<>>
  BY <1>1 DEF MatchInv, MatchAt, LeftAt
<1>6. /\ NewWriter.pc = "start" /\ NewWriter.buf = <<>> /\ NewReader.pc = "start"
  BY DEF NewWriter, NewReader
<1>7. \A j \in Goroutines : j # i => Untouched(j)
  BY <1>1, <1>2, <1>3, <1>4 DEF Untouched
<1>8. StepAt(i)'
  <2>1. HeldByReader(i)' = <<>> /\ HeldByWriter(i)' = <<>>
    BY <1>3, <1>4, <1>6 DEF HeldByReader, HeldByWriter
  <2>2. <<>> \in Seq(Works)
    OBVIOUS
  <2>3. <<>> \o <<>> = <<>>
    BY <2>2, ConcatEmpty, Zenon
  <2>4. ToRead(i)' = <<>> /\ Requested(i)' = <<>>
    BY <1>1, <1>3, <1>5, <1>6, <2>1, <2>3 DEF ToRead, Requested
  <2>5. Expected(i)' = <<>>
    BY <2>1, <2>3, <2>4 DEF Expected
  <2>6. Agree(Requested(i), Expected(i))' /\ Len(Requested(i)') = Len(Expected(i)')
    BY <2>4, <2>5 DEF Agree
  <2> QED
    BY <2>6 DEF StepAt
<1>9. LeftAt(i)' /\ CurrentAt(i)'
  BY <1>1, <1>2, <1>3, <1>4, <1>5, <1>6 DEF LeftAt, CurrentAt
<1>10. MatchAt(i)'
  BY <1>8, <1>9 DEF MatchAt
<1> QED
  BY <1>1, <1>7, <1>10, OwnUnchanged, MatchFrame DEF clientVars

LEMMA FirstDoneMatches ==
  ASSUME PlaceInv, MatchInv, NEW i \in Goroutines, FirstDone(i) PROVE MatchInv'
<1>1. PICK h \in {writer[i], reader[i]} :
        worker' = [worker EXCEPT ![i] = [pc |-> "close", err |-> h.err, stop |-> TRUE]]
  BY DEF FirstDone
<1> DEFINE r == [pc |-> "close", err |-> h.err, stop |-> TRUE]
<1>2. r.pc = "close"
  OBVIOUS
<1> HIDE DEF r
<1>3. worker' = [worker EXCEPT ![i] = r]
  BY <1>1 DEF r
<1>4. UNCHANGED <<clientVars, gen, chW, chR, work, writer, reader, wire>>
  BY DEF FirstDone
<1> QED
  BY <1>2, <1>3, <1>4, WorkerMatches DEF clientVars

LEMMA BothDoneMatches ==
  ASSUME PlaceInv, MatchInv, NEW i \in Goroutines, BothDone(i) PROVE MatchInv'
<1> DEFINE r == [worker[i] EXCEPT !.pc = "drain"]
<1>1. r.pc = "drain"
  BY WorkerRecord DEF PlaceInv, PipelineTyped
<1>2. worker' = [worker EXCEPT ![i] = r]
  BY DEF BothDone
<1> HIDE DEF r
<1>3. wire'[i] = <<>> /\ \A j \in Goroutines : j # i => wire'[j] = wire[j]
  BY DEF BothDone, PlaceInv, PipelineTyped
<1>4. /\ reader[i].pc = "returned" /\ UNCHANGED <<clientVars, gen, chW, chR, work, writer, reader>>
  BY DEF BothDone
<1> QED
  BY <1>1, <1>2, <1>3, <1>4, WorkerMatches DEF clientVars

LEMMA DrainOneMatches ==
  ASSUME PlaceInv, MatchInv, OneGeneration, NEW i \in Goroutines, DrainOne(i) PROVE MatchInv'
<1> PICK w : w = Head(chR[i[1]][gen[i[1]]])
  OBVIOUS
<1>1. /\ worker[i].pc = "drain" /\ HasWork(chR, i[1], gen[i[1]])
      /\ chR' = Receive(chR, i[1], gen[i[1]]) /\ Complete(w, "errPipelineConnStopped")
      /\ UNCHANGED <<clientVars, gen, chW, worker, writer, reader, wire>>
  BY DEF DrainOne, Complete
<1>2. gen[i[1]] = i[2]
  <2>1. gen[i[1]] # 0
    BY <1>1 DEF HasWork
  <2> QED
    BY <1>1, <2>1, OnlyOne DEF MatchInv
<1>3. i[1] \in CC /\ gen[i[1]] \in 0..MaxGen
  BY Indices DEF PlaceInv, PipelineTyped
<1>4. w \in Works
  BY <1>1, <1>3, ReceiveR DEF PlaceInv
<1>5. \A v \in Works : OwnResponse(v, work'[v])
  BY <1>1, <1>4, OwnError
<1>6. \A j \in Goroutines : j # i => chR'[j[1]][j[2]] = chR[j[1]][j[2]]
  <2>1. chR' = Receive(chR, i[1], i[2]) /\ chR \in Queues
    BY <1>1, <1>2 DEF PlaceInv, PipelineTyped
  <2> QED
    BY <2>1, ReceiveAfter
<1>7. \A j \in Goroutines : j # i => Untouched(j)
  BY <1>1, <1>6 DEF Untouched
<1>8. writer[i].pc = "returned" /\ reader[i].pc = "returned"
  BY <1>1 DEF PlaceInv, Phases
<1>9. StepAt(i)' /\ CurrentAt(i)'
  BY <1>1, <1>8 DEF StepAt, CurrentAt
<1>10. LeftAt(i)'
  BY <1>1, <1>2 DEF MatchInv, MatchAt, LeftAt
<1>11. MatchAt(i)'
  BY <1>9, <1>10 DEF MatchAt
<1> QED
  BY <1>1, <1>5, <1>7, <1>11, MatchFrame DEF clientVars

LEMMA DrainEndMatches ==
  ASSUME PlaceInv, MatchInv, OneGeneration, NEW i \in Goroutines, DrainEnd(i) PROVE MatchInv'
<1>1. PICK pc \in {"dial", "decide"} : worker' = [worker EXCEPT ![i].pc = pc]
  BY DEF DrainEnd
<1> DEFINE r == [worker[i] EXCEPT !.pc = pc]
<1>2. worker' = [worker EXCEPT ![i] = r]
  BY <1>1
<1> HIDE DEF r
<1>3. /\ worker[i].pc = "drain" /\ ~HasWork(chR, i[1], gen[i[1]])
      /\ UNCHANGED <<clientVars, gen, chW, chR, work, writer, reader, wire>>
  BY DEF DrainEnd
<1>4. wire[i] = <<>> /\ (gen[i[1]] # i[2] => chR[i[1]][i[2]] = <<>>)
  BY <1>3 DEF MatchInv, MatchAt, LeftAt
<1>5. chR[i[1]][i[2]] = <<>>
  <2>1. i[2] # 0
    BY Indices DEF Gens
  <2> QED
    BY <1>3, <1>4, <2>1 DEF HasWork
<1> QED
  BY <1>2, <1>3, <1>4, <1>5, WorkerMatches DEF clientVars

LEMMA DecideMatches ==
  ASSUME PlaceInv, MatchInv, OneGeneration, NEW i \in Goroutines, Decide(i) PROVE MatchInv'
<1>1. /\ worker[i].pc = "decide" /\ UNCHANGED <<clientVars, chW, chR, work, writer, reader, wire>>
  BY DEF Decide
<1>2. \A j \in Goroutines : j # i => worker'[j] = worker[j]
  BY DEF Decide, PlaceInv, PipelineTyped
<1>3. i[1] \in CC /\ gen \in [CC -> 0..MaxGen] /\ made \in [CC -> 0..MaxGen]
  BY Indices DEF PlaceInv, PipelineTyped
<1>4. /\ \A cc \in CC : cc # i[1] => gen'[cc] = gen[cc]
      /\ gen'[i[1]] \in {0, gen[i[1]]}
  BY <1>3 DEF Decide
<1>5. ASSUME NEW j \in Goroutines, j[1] = i[1], j # i PROVE worker[j].pc = "off"
  <2>1. worker[j].pc # "off" => j[2] = 1
    BY OnlyOne DEF MatchInv
  <2>2. i[2] = 1
    BY <1>1, OnlyOne DEF MatchInv
  <2> QED
    BY <1>5, <2>1, <2>2, Indices
<1>6. ASSUME NEW j \in Goroutines PROVE MatchAt(j)'
  <2>1. MatchAt(j)
    BY DEF MatchInv
  <2>2. CASE j[1] = i[1]
    <3>1. worker[j].pc \notin {"serve", "close", "drain"}
      BY <1>1, <1>5, <2>2
    <3> QED
      BY <1>1, <2>1, <3>1, MatchIdle
  <2>3. CASE j[1] # i[1]
    <3>1. j # i /\ j[1] \in CC
      BY <2>3, Indices
    <3>2. Untouched(j)
      BY <1>1, <1>2, <3>1 DEF Untouched
    <3> QED
      BY <1>4, <2>1, <2>3, <3>1, <3>2, MatchUntouched
  <2> QED
    BY <2>2, <2>3
<1>7. \A cc \in CC : gen'[cc] <= made'[cc]
  <2>1. \A cc \in CC : gen[cc] <= made[cc] /\ made[cc] \in Nat /\ gen[cc] \in Nat
    BY <1>3, PipelineAssumption DEF MatchInv
  <2>2. made' = made
    BY <1>1 DEF clientVars
  <2> QED
    BY <1>4, <2>1, <2>2
<1>8. \A w \in Works : OwnResponse(w, work'[w])
  BY <1>1, OwnUnchanged
<1> QED
  BY <1>6, <1>7, <1>8 DEF MatchInv

\* init: the goroutine of the first generation starts.
LEMMA InitMatches ==
  ASSUME PlaceInv, MatchInv, OneGeneration', NEW cc \in CC, init(cc),
         UNCHANGED <<chR, writer, reader, wire>>,
         \A v \in Works : OwnResponse(v, work'[v])
  PROVE  MatchInv'
<1>1. cc \in CC /\ gen \in [CC -> 0..MaxGen] /\ made \in [CC -> 0..MaxGen]
  BY DEF PlaceInv, PipelineTyped
<1>2. UNCHANGED <<chR, writer, reader, wire>>
  OBVIOUS
<1>3. \A v \in Works : OwnResponse(v, work'[v])
  OBVIOUS
<1>4. CASE gen[cc] # 0
  <2>1. made' = [made EXCEPT ![cc] = made[cc]] /\ gen' = [gen EXCEPT ![cc] = gen[cc]] /\ worker' = worker
    BY <1>4 DEF init
  <2>2. made' = made /\ gen' = gen
    BY <1>1, <2>1
  <2> QED
    BY <1>2, <1>3, <2>1, <2>2, MatchElsewhere
<1>5. CASE gen[cc] = 0
  <2> PICK n : n = made[cc] + 1
    OBVIOUS
  <2>1. made' = [made EXCEPT ![cc] = n]
    BY <1>5 DEF init
  <2>2. made'[cc] = n /\ \A d \in CC : d # cc => made'[d] = made[d]
    BY <1>1, <2>1
  <2>3. gen' = [gen EXCEPT ![cc] = n] /\ worker' = [worker EXCEPT ![<<cc, n>>].pc = "dial"]
    BY <1>5, <2>2 DEF init
  <2>4. gen'[cc] = n /\ \A d \in CC : d # cc => gen'[d] = gen[d]
    BY <1>1, <2>3
  <2>5. made[cc] = 0 /\ n = 1
    <3>1. n <= 1
      BY <1>1, <2>2 DEF OneGeneration
    <3>2. made[cc] \in Nat
      BY <1>1, PipelineAssumption
    <3> QED
      BY <3>1, <3>2
  <2>6. ASSUME NEW j \in Goroutines PROVE MatchAt(j)'
    <3>1. MatchAt(j)
      BY DEF MatchInv
    <3>2. j[1] \in CC /\ j[2] \in Gens
      BY Indices
    <3>3. CASE j[1] = cc
      <4>1. j[2] > made[j[1]]
        BY <2>5, <3>2, <3>3 DEF Gens
      <4>2. worker[j].pc = "off"
        BY <4>1 DEF PlaceInv, Phases
      <4> QED
        BY <1>2, <3>1, <4>2, MatchIdle
    <3>4. CASE j[1] # cc
      <4>1. worker'[j].pc = worker[j].pc
        <5>1. j # <<cc, n>>
          BY <3>4
        <5> QED
          BY <2>3, <5>1 DEF PlaceInv, PipelineTyped
      <4>2. Untouched(j) /\ gen'[j[1]] = gen[j[1]]
        BY <1>2, <2>4, <3>2, <3>4, <4>1 DEF Untouched
      <4> QED
        BY <3>1, <4>2, MatchUntouched
    <3> QED
      BY <3>3, <3>4
  <2>7. \A d \in CC : gen'[d] <= made'[d]
    BY <2>2, <2>4, <2>5 DEF MatchInv
  <2> QED
    BY <1>3, <2>6, <2>7 DEF MatchInv
<1> QED
  BY <1>4, <1>5

LEMMA DoInitMatches ==
  ASSUME PlaceInv, MatchInv, OneGeneration', NEW p \in Callers, DoInit(p) PROVE MatchInv'
<1>1. caller[p].cc \in CC /\ init(caller[p].cc)
  BY CallerAt DEF PlaceInv, DoInit
<1>2. UNCHANGED <<chR, writer, reader, wire>>
  BY DEF DoInit
<1>3. \A v \in Works : OwnResponse(v, work'[v])
  <2>1. CASE work' = work
    BY <2>1, OwnUnchanged
  <2>2. ASSUME NEW w \in Works, work' = [work EXCEPT ![w] = Acquired(w, p \in TimedCallers)]
        PROVE  \A v \in Works : OwnResponse(v, work'[v])
    <3> DEFINE y == Acquired(w, p \in TimedCallers)
    <3>1. /\ work[w].pooled => (y.done <=> work[w].done)
          /\ ~work[w].pooled => ~y.done
      <4>1. (p \in TimedCallers) \in BOOLEAN
        OBVIOUS
      <4> QED
        BY <4>1, AcquiredRecord DEF PlaceInv
    <3>2. work' = [work EXCEPT ![w] = y]
      BY <2>2
    <3> HIDE DEF y
    <3>3. ~y.done
      BY <3>1 DEF PlaceInv, Hands, Nowhere
    <3>4. OwnResponse(w, y)
      BY <3>3 DEF OwnResponse
    <3> QED
      BY <3>2, <3>4, OwnAfter
  <2> QED
    BY <2>1, <2>2 DEF DoInit
<1> QED
  BY <1>1, <1>2, <1>3, InitMatches

LEMMA ChooseMatches ==
  ASSUME PlaceInv, MatchInv, OneGeneration', NEW p \in Callers, Choose(p) PROVE MatchInv'
<1>1. getConnClient \in CC
  BY ConnClientExists, PipelineAssumption DEF PlaceInv, CC
<1>2. UNCHANGED <<chR, work, writer, reader, wire>>
  BY DEF Choose
<1>3. \A v \in Works : OwnResponse(v, work'[v])
  BY <1>2, OwnUnchanged
<1>4. CASE init(getConnClient)
  BY <1>1, <1>2, <1>3, <1>4, InitMatches
<1>5. CASE UNCHANGED <<gen, made, worker>>
  BY <1>2, <1>3, <1>5, MatchElsewhere
<1> QED
  BY <1>4, <1>5 DEF Choose

-----------------------------------------------------------------------------
LEMMA MatchStart == Init => MatchInv
<1> SUFFICES ASSUME Init PROVE MatchInv
  OBVIOUS
<1>1. ASSUME NEW i \in Goroutines PROVE MatchAt(i)
  <2>1. wire[i] = <<>> /\ chR[i[1]][i[2]] = <<>>
    BY Indices DEF Init
  <2>2. writer[i].pc = "returned" /\ reader[i].pc = "returned"
    BY DEF Init, NewWriter, NewReader
  <2> QED
    BY <2>1, <2>2 DEF MatchAt, StepAt, LeftAt, CurrentAt
<1>2. \A cc \in CC : gen[cc] <= made[cc]
  BY DEF Init
<1>3. \A w \in Works : OwnResponse(w, work[w])
  BY DEF Init, NewWork, OwnResponse
<1> QED
  BY <1>1, <1>2, <1>3 DEF MatchInv

LEMMA MatchNext ==
  ASSUME PlaceInv, MatchInv, OneGeneration, OneGeneration', [Next]_vars PROVE MatchInv'
<1>1. ASSUME NEW p \in Callers, CallerStep(p) PROVE MatchInv'
  BY <1>1, ChooseMatches, DoInitMatches, CallersMatch DEF CallerStep
<1>2. ASSUME NEW w \in Works, Expire(w) PROVE MatchInv'
  BY <1>2, ExpireMatches
<1>3. ASSUME NEW i \in Goroutines, WorkerStep(i) PROVE MatchInv'
  BY <1>3, DialMatches, FirstDoneMatches, BothDoneMatches, DrainOneMatches, DrainEndMatches,
     DecideMatches DEF WorkerStep
<1>4. ASSUME NEW i \in Goroutines, WriterStep(i) \/ WriterIdle(i) PROVE MatchInv'
  BY <1>4, WriterStartMatches, WriterTakeMatches, WriterEndsMatch, WriterFlushMatches,
     WriterTooLateMatches, WriterWriteMatches, WriterPassMatches DEF WriterStep
<1>5. ASSUME NEW i \in Goroutines, ReaderStep(i) PROVE MatchInv'
  BY <1>5, ReaderStartMatches, ReaderTakeMatches, ReaderStopMatches, ReaderReadMatches,
     ReaderFailsMatches DEF ReaderStep
<1>6. CASE UNCHANGED vars
  BY <1>6, OwnUnchanged, MatchElsewhere DEF vars
<1> QED
  BY <1>1, <1>2, <1>3, <1>4, <1>5, <1>6 DEF Next

LEMMA MatchesResponse == ASSUME PlaceInv, MatchInv PROVE ResponseMatches
<1> SUFFICES ASSUME NEW p \in Callers, caller[p].pc = "wait", work[caller[p].w].done,
                    work[caller[p].w].err = "nil"
    PROVE  work[caller[p].w].resp = caller[p].w
  BY DEF ResponseMatches
<1> PICK w : w = caller[p].w
  OBVIOUS
<1>1. w \in Works
  BY CallerAt DEF PlaceInv
<1> QED
  BY <1>1 DEF MatchInv, OwnResponse

\* Responses match requests as long as no pipelineConnClient replaces its
\* channels: the writer passes works on in the order it writes requests, the
\* reader takes them in that order, and worker leaves none behind for the next
\* connection, whatever fails, times out or overflows.
THEOREM ResponsesMatch == Spec /\ []OneGeneration => []ResponseMatches
<1>1. Init => MatchInv
  BY MatchStart
<1>2. PlaceInv /\ MatchInv /\ OneGeneration /\ OneGeneration' /\ [Next]_vars => MatchInv'
  BY MatchNext
<1>3. PlaceInv /\ MatchInv => ResponseMatches
  BY MatchesResponse
<1> QED
  BY <1>1, <1>2, <1>3, PipelineInOrder, PTL DEF Spec
=============================================================================
