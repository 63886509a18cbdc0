--------------------------- MODULE PipelineClient ---------------------------
(***************************************************************************)
(* PipelineClient of src/fasthttp/client.go: callers hand works to a       *)
(* pipelineConnClient through the channel chW; a writer goroutine writes   *)
(* each request to the connection and passes the work on through chR; a    *)
(* reader goroutine reads one response for each work of chR, in order.     *)
(*                                                                         *)
(* A pipelineConnClient makes its two channels together; a generation is   *)
(* the number of such a pair (0 for nil).  The init that makes generation  *)
(* g also starts the worker goroutine <<cc, g>>, which is not tied to its  *)
(* generation: its writer and reader use whatever c.chW and c.chR hold     *)
(* when they start.                                                        *)
(*                                                                         *)
(* A request is identified with its work.  Requests fit the write buffer.  *)
(***************************************************************************)
EXTENDS Integers, FiniteSets, Sequences

CONSTANTS Callers,        \* goroutines calling Do or DoDeadline
          TimedCallers,   \* those that call DoDeadline
          Works,          \* pipelineWork objects
          MaxConns,       \* c.MaxConns (1 when it is not set)
          Cap,            \* c.MaxPendingRequests
          MaxGen,         \* bound: channel pairs made by one pipelineConnClient
          MaxCalls,       \* bound: [Callers -> calls one makes]
          NoWork

ASSUME PipelineAssumption ==
  /\ TimedCallers \subseteq Callers
  /\ MaxConns \in Nat \ {0} /\ Cap \in Nat \ {0} /\ MaxGen \in Nat \ {0}
  /\ MaxCalls \in [Callers -> Nat]
  /\ NoWork \notin Works

CC == 1..MaxConns
Gens == 1..MaxGen
Goroutines == CC \X Gens

VARIABLES
  connClients,  \* how many pipelineConnClients exist
  gen,          \* [CC -> 0..MaxGen]: the generation c.chW and c.chR hold
  made,         \* [CC -> 0..MaxGen]: generations made so far
  chW, chR,     \* [CC -> [Gens -> Seq(Works)]]
  caller,       \* [Callers -> [pc, cc, w, g, n]]
  work,         \* [Works -> [pooled, done, err, clock, tick, resp]]
  worker,       \* [Goroutines -> [pc, err, stop]]
  writer,       \* [Goroutines -> [pc, w, g, err, flush, buf]]
  reader,       \* [Goroutines -> [pc, w, g, err]]
  wire          \* [Goroutines -> Seq(Works)]: sent and not answered yet

vars == <<connClients, gen, made, chW, chR, caller, work, worker, writer, reader, wire>>

NewWork == [pooled |-> FALSE, done |-> FALSE, err |-> "nil", clock |-> "none",
            tick |-> FALSE, resp |-> NoWork]
NewWriter == [pc |-> "start", w |-> NoWork, g |-> 0, err |-> FALSE, flush |-> FALSE, buf |-> <<>>]
NewReader == [pc |-> "start", w |-> NoWork, g |-> 0, err |-> FALSE]

Init ==
  /\ connClients = 0
  /\ gen = [cc \in CC |-> 0] /\ made = [cc \in CC |-> 0]
  /\ chW = [cc \in CC |-> [g \in Gens |-> <<>>]]
  /\ chR = chW
  /\ caller = [p \in Callers |-> [pc |-> "idle", cc |-> 0, w |-> NoWork, g |-> 0, n |-> 0]]
  /\ work = [w \in Works |-> NewWork]
  /\ worker = [i \in Goroutines |-> [pc |-> "off", err |-> FALSE, stop |-> FALSE]]
  /\ writer = [i \in Goroutines |-> [NewWriter EXCEPT !.pc = "returned"]]
  /\ reader = [i \in Goroutines |-> [NewReader EXCEPT !.pc = "returned"]]
  /\ wire = [i \in Goroutines |-> <<>>]

-----------------------------------------------------------------------------
(* Works: where one is referenced, completing one, the pool.               *)

Queued(w) ==
  {x \in {"chW", "chR"} \X CC \X Gens \X (1..Cap) :
     LET s == (IF x[1] = "chW" THEN chW ELSE chR)[x[2]][x[3]]
     IN x[4] <= Len(s) /\ s[x[4]] = w}
Writing(w) == {i \in Goroutines : writer[i].w = w}
Reading(w) == {i \in Goroutines : reader[i].w = w}
Users(w) == {p \in Callers : caller[p].w = w}

\* How many goroutines and channels will complete w.
Places(w) == Cardinality(Queued(w)) + Cardinality(Writing(w)) + Cardinality(Reading(w))

\* Nothing refers to w: the collector may free it, and new may return it.
Garbage(w) == ~work[w].pooled /\ Users(w) = {} /\ Places(w) = 0

NextNew == CHOOSE w \in Works : Garbage(w)

\* acquirePipelineWork: a pooled work or a new one.  A tick left in the
\* channel of a pooled work's timer stays there.
Acquired(w, timed) ==
  LET v == IF work[w].pooled THEN [work[w] EXCEPT !.pooled = FALSE] ELSE NewWork
  IN [v EXCEPT !.clock = IF timed THEN "ahead" ELSE "none"]

\* releasePipelineWork stops the timer without draining its channel.
Released(v) == [v EXCEPT !.pooled = TRUE, !.err = "nil", !.resp = NoWork, !.clock = "none"]

\* w.err = err; w.done <- struct{}{} : the send waits while done is full.
CanComplete(w) == ~work[w].done
Complete(w, err) == work' = [work EXCEPT ![w].done = TRUE, ![w].err = err]

Room(q, cc, g) == IF g = 0 THEN FALSE ELSE Len(q[cc][g]) < Cap
HasWork(q, cc, g) == IF g = 0 THEN FALSE ELSE q[cc][g] # <<>>
Send(q, cc, g, w) == [q EXCEPT ![cc][g] = Append(@, w)]
Receive(q, cc, g) == [q EXCEPT ![cc][g] = Tail(@)]
ChanLen(q, cc) == IF gen[cc] = 0 THEN 0 ELSE Len(q[cc][gen[cc]])

-----------------------------------------------------------------------------
(* Callers.                                                                *)

\* PendingRequests of one pipelineConnClient, after its init
PendingRequests(cc) == ChanLen(chR, cc) + ChanLen(chW, cc)

\* getConnClientUnlocked: the first client without pending requests, a new
\* one while there are fewer than MaxConns, else the first of the least busy.
getConnClient ==
  LET existing == 1..connClients
      free == {cc \in existing : PendingRequests(cc) = 0}
      least == {cc \in existing : \A d \in existing : PendingRequests(cc) <= PendingRequests(d)}
      First(S) == CHOOSE cc \in S : \A d \in S : cc <= d
  IN IF free # {} THEN First(free)
     ELSE IF connClients < MaxConns THEN connClients + 1 ELSE First(least)

\* pipelineConnClient.init: a client without channels gets two and a worker.
init(cc) ==
  LET fresh == gen[cc] = 0 IN
  /\ fresh => made[cc] < MaxGen
  /\ made' = [made EXCEPT ![cc] = IF fresh THEN @ + 1 ELSE @]
  /\ gen' = [gen EXCEPT ![cc] = IF fresh THEN made'[cc] ELSE @]
  /\ worker' = IF fresh THEN [worker EXCEPT ![<<cc, made'[cc]>>].pc = "dial"] ELSE worker

\* PipelineClient.Do and DoDeadline up to init of the chosen client.  Asking an
\* existing client for its pending requests inits it; one that had no channels
\* has none then and is the chosen one.
Choose(p) ==
  /\ caller[p].pc = "idle" /\ caller[p].n < MaxCalls[p]
  /\ IF getConnClient > connClients
     THEN connClients' = getConnClient /\ UNCHANGED <<gen, made, worker>>
     ELSE init(getConnClient) /\ UNCHANGED connClients
  /\ caller' = [caller EXCEPT ![p].pc = "init", ![p].cc = getConnClient, ![p].n = @ + 1]
  /\ UNCHANGED <<chW, chR, work, writer, reader, wire>>

\* init, then a work is taken: DoDeadline returns early when it is too late.
DoInit(p) ==
  /\ caller[p].pc = "init"
  /\ init(caller[p].cc)
  /\ \/ \E w \in Works :
          /\ work[w].pooled \/ (Garbage(w) /\ w = NextNew)
          /\ work' = [work EXCEPT ![w] = Acquired(w, p \in TimedCallers)]
          /\ caller' = [caller EXCEPT ![p].pc = "push", ![p].w = w]
     \/ /\ p \in TimedCallers
        /\ caller' = [caller EXCEPT ![p].pc = "idle"]
        /\ UNCHANGED work
  /\ UNCHANGED <<connClients, chW, chR, writer, reader, wire>>

Return(p) == caller' = [caller EXCEPT ![p].pc = "idle", ![p].w = NoWork, ![p].g = 0]

\* select { case c.chW <- w: default: }.  The slow path of DoDeadline waits
\* on the channel c.chW holds now.
Push(p) ==
  LET cc == caller[p].cc IN
  /\ caller[p].pc = "push"
  /\ IF Room(chW, cc, gen[cc])
     THEN /\ chW' = Send(chW, cc, gen[cc], caller[p].w)
          /\ caller' = [caller EXCEPT ![p].pc = "wait"]
     ELSE /\ caller' = [caller EXCEPT ![p].pc = IF p \in TimedCallers THEN "slow" ELSE "full",
                                      ![p].g = gen[cc]]
          /\ UNCHANGED chW
  /\ UNCHANGED <<connClients, gen, made, chR, work, worker, writer, reader, wire>>

\* Do: the oldest work of a full queue gives its place.
DropOldest(p) ==
  LET cc == caller[p].cc  g == gen[cc] IN
  /\ caller[p].pc = "full"
  /\ IF HasWork(chW, cc, g)
     THEN /\ CanComplete(Head(chW[cc][g]))
          /\ Complete(Head(chW[cc][g]), "ErrPipelineOverflow")
          /\ chW' = Receive(chW, cc, g)
     ELSE UNCHANGED <<chW, work>>
  /\ caller' = [caller EXCEPT ![p].pc = "again"]
  /\ UNCHANGED <<connClients, gen, made, chR, worker, writer, reader, wire>>

PushAgain(p) ==
  LET cc == caller[p].cc IN
  /\ caller[p].pc = "again"
  /\ IF Room(chW, cc, gen[cc])
     THEN /\ chW' = Send(chW, cc, gen[cc], caller[p].w)
          /\ caller' = [caller EXCEPT ![p].pc = "wait"]
          /\ UNCHANGED work
     ELSE /\ Return(p)
          /\ work' = [work EXCEPT ![caller[p].w] = Released(@)]
          /\ UNCHANGED chW
  /\ UNCHANGED <<connClients, gen, made, chR, worker, writer, reader, wire>>

\* DoDeadline, slow path: there is room, or the timer ticks.
PushSlow(p) ==
  LET cc == caller[p].cc  w == caller[p].w IN
  /\ caller[p].pc = "slow"
  /\ \/ /\ Room(chW, cc, caller[p].g)
        /\ chW' = Send(chW, cc, caller[p].g, w)
        /\ caller' = [caller EXCEPT ![p].pc = "wait"]
        /\ UNCHANGED work
     \/ /\ work[w].tick
        /\ work' = [work EXCEPT ![w] = Released([@ EXCEPT !.tick = FALSE])]
        /\ Return(p)
        /\ UNCHANGED chW
  /\ UNCHANGED <<connClients, gen, made, chR, worker, writer, reader, wire>>

\* <-w.done: the response or the error is taken over, the work pooled.
Finish(p) ==
  LET w == caller[p].w IN
  /\ caller[p].pc = "wait" /\ work[w].done
  /\ work' = [work EXCEPT ![w] = Released([@ EXCEPT !.done = FALSE])]
  /\ Return(p)
  /\ UNCHANGED <<connClients, gen, made, chW, chR, worker, writer, reader, wire>>

\* Mutant: the work that timed out goes back to the pool at once.
AbandonReleases(p) ==
  LET w == caller[p].w IN
  /\ caller[p].pc = "wait" /\ p \in TimedCallers /\ work[w].tick
  /\ work' = [work EXCEPT ![w] = Released([@ EXCEPT !.tick = FALSE])]
  /\ Return(p)
  /\ UNCHANGED <<connClients, gen, made, chW, chR, worker, writer, reader, wire>>

\* <-w.t.C while the work is on its way: it is left to whoever has it.
Abandon(p) ==
  LET w == caller[p].w IN
  /\ caller[p].pc = "wait" /\ p \in TimedCallers /\ work[w].tick
  /\ work' = [work EXCEPT ![w].tick = FALSE]
  /\ Return(p)
  /\ UNCHANGED <<connClients, gen, made, chW, chR, worker, writer, reader, wire>>

\* External: the deadline of a work passes and its timer fires.
Expire(w) ==
  /\ work[w].clock = "ahead"
  /\ work' = [work EXCEPT ![w].clock = "past", ![w].tick = TRUE]
  /\ UNCHANGED <<connClients, gen, made, chW, chR, caller, worker, writer, reader, wire>>

-----------------------------------------------------------------------------
(* The worker goroutine i = <<cc, n>>.                                     *)

clientVars == <<connClients, made, caller>>

\* worker(): the connection is dialled; a failed dial is tried again.
Dial(i) ==
  /\ worker[i].pc = "dial"
  /\ worker' = [worker EXCEPT ![i] = [pc |-> "serve", err |-> FALSE, stop |-> FALSE]]
  /\ writer' = [writer EXCEPT ![i] = NewWriter]
  /\ reader' = [reader EXCEPT ![i] = NewReader]
  /\ UNCHANGED <<clientVars, gen, chW, chR, work, wire>>

\* The reader or the writer has returned: close the connection, stop the other.
FirstDone(i) ==
  /\ worker[i].pc = "serve"
  /\ \E h \in {writer[i], reader[i]} :
       /\ h.pc = "returned"
       /\ worker' = [worker EXCEPT ![i] = [pc |-> "close", err |-> h.err, stop |-> TRUE]]
  /\ UNCHANGED <<clientVars, gen, chW, chR, work, writer, reader, wire>>

\* Mutant: the works in chR are not notified; the next connection finds them.
BothDoneNoDrain(i) ==
  /\ worker[i].pc = "close"
  /\ writer[i].pc = "returned" /\ reader[i].pc = "returned"
  /\ worker' = [worker EXCEPT ![i].pc = IF worker[i].err THEN "dial" ELSE "decide"]
  /\ wire' = [wire EXCEPT ![i] = <<>>]
  /\ UNCHANGED <<clientVars, gen, chW, chR, work, writer, reader>>

BothDone(i) ==
  /\ worker[i].pc = "close"
  /\ writer[i].pc = "returned" /\ reader[i].pc = "returned"
  /\ worker' = [worker EXCEPT ![i].pc = "drain"]
  /\ wire' = [wire EXCEPT ![i] = <<>>]
  /\ UNCHANGED <<clientVars, gen, chW, chR, work, writer, reader>>

\* Notify pending readers: of the chR the client has now.
DrainOne(i) ==
  LET cc == i[1]  g == gen[cc] IN
  /\ worker[i].pc = "drain" /\ HasWork(chR, cc, g)
  /\ CanComplete(Head(chR[cc][g]))
  /\ Complete(Head(chR[cc][g]), "errPipelineConnStopped")
  /\ chR' = Receive(chR, cc, g)
  /\ UNCHANGED <<clientVars, gen, chW, worker, writer, reader, wire>>

DrainEnd(i) ==
  /\ worker[i].pc = "drain" /\ ~HasWork(chR, i[1], gen[i[1]])
  /\ worker' = [worker EXCEPT ![i].pc = IF worker[i].err THEN "dial" ELSE "decide"]
  /\ UNCHANGED <<clientVars, gen, chW, chR, work, writer, reader, wire>>

\* The loop around worker(), after an idle stop: the goroutine ends when both
\* channels are empty, and leaves them in place; else it drops them.
Decide(i) ==
  LET stop == PendingRequests(i[1]) = 0 IN
  /\ worker[i].pc = "decide"
  /\ gen' = IF stop THEN gen ELSE [gen EXCEPT ![i[1]] = 0]
  /\ worker' = [worker EXCEPT ![i].pc = IF stop THEN "ended" ELSE "dial"]
  /\ UNCHANGED <<clientVars, chW, chR, work, writer, reader, wire>>

-----------------------------------------------------------------------------
(* writer(conn, stopCh).                                                   *)

WriterStart(i) ==
  /\ writer[i].pc = "start"
  /\ writer' = [writer EXCEPT ![i].pc = "take", ![i].g = gen[i[1]]]
  /\ UNCHANGED <<clientVars, gen, chW, chR, work, worker, reader, wire>>

(* A select with a default and the select under it are one wait: the cases  *)
(* other than the channel's are taken while the channel cannot go on.       *)

\* case w = <-chW
WriterTake(i) ==
  LET cc == i[1]  g == writer[i].g IN
  /\ writer[i].pc = "take" /\ HasWork(chW, cc, g)
  /\ writer' = [writer EXCEPT ![i].pc = "write", ![i].w = Head(chW[cc][g])]
  /\ chW' = Receive(chW, cc, g)
  /\ UNCHANGED <<clientVars, gen, chR, work, worker, reader, wire>>

WaitsForWork(i) == writer[i].pc = "take" /\ ~HasWork(chW, i[1], writer[i].g)
WaitsForRoom(i) == writer[i].pc = "pushR" /\ ~Room(chR, i[1], writer[i].g)

\* The deferred Flush of every return of writer: nothing reaches a connection
\* that is closed or failed.
WriterReturn(i, err) ==
  /\ writer' = [writer EXCEPT ![i] = [NewWriter EXCEPT !.pc = "returned", !.err = err]]
  /\ wire' = IF err \/ worker[i].stop THEN wire ELSE [wire EXCEPT ![i] = @ \o writer[i].buf]

\* stopTimer: nothing came for MaxIdleConnDuration
WriterIdle(i) ==
  /\ WaitsForWork(i)
  /\ WriterReturn(i, FALSE)
  /\ UNCHANGED <<clientVars, gen, chW, chR, work, worker, reader>>

WriterStop(i) ==
  /\ WaitsForWork(i) /\ worker[i].stop
  /\ WriterReturn(i, FALSE)
  /\ UNCHANGED <<clientVars, gen, chW, chR, work, worker, reader>>

\* case <-flushTimerCh, in either select
WriterFlush(i) ==
  /\ WaitsForWork(i) \/ WaitsForRoom(i)
  /\ writer[i].flush /\ ~worker[i].stop
  /\ writer' = [writer EXCEPT ![i].flush = FALSE, ![i].buf = <<>>]
  /\ wire' = [wire EXCEPT ![i] = @ \o writer[i].buf]
  /\ UNCHANGED <<clientVars, gen, chW, chR, work, worker, reader>>

WriterFlushFails(i) ==
  /\ WaitsForWork(i) \/ WaitsForRoom(i)
  /\ writer[i].flush
  /\ IF writer[i].pc = "pushR"
     THEN CanComplete(writer[i].w) /\ Complete(writer[i].w, "writeError")
     ELSE UNCHANGED work
  /\ WriterReturn(i, TRUE)
  /\ UNCHANGED <<clientVars, gen, chW, chR, worker, reader>>

\* A work whose deadline has passed is not written.
WriterTooLate(i) ==
  LET w == writer[i].w IN
  /\ writer[i].pc = "write" /\ work[w].clock = "past"
  /\ CanComplete(w) /\ Complete(w, "ErrTimeout")
  /\ writer' = [writer EXCEPT ![i].pc = "take", ![i].w = NoWork]
  /\ UNCHANGED <<clientVars, gen, chW, chR, worker, reader, wire>>

\* The request goes to the buffer; the flush timer is armed when nothing
\* follows it or chR is full.
WriterWrite(i) ==
  LET w == writer[i].w  cc == i[1]  g == writer[i].g
      arm == ~HasWork(chW, cc, g) \/ (IF g = 0 THEN FALSE ELSE Len(chR[cc][g]) = Cap) IN
  /\ writer[i].pc = "write" /\ work[w].clock # "past"
  /\ writer' = [writer EXCEPT ![i].pc = "pushR", ![i].buf = Append(@, w), ![i].flush = @ \/ arm]
  /\ UNCHANGED <<clientVars, gen, chW, chR, work, worker, reader, wire>>

WriterWriteFails(i) ==
  LET w == writer[i].w IN
  /\ writer[i].pc = "write" /\ work[w].clock # "past"
  /\ CanComplete(w) /\ Complete(w, "writeError")
  /\ WriterReturn(i, TRUE)
  /\ UNCHANGED <<clientVars, gen, chW, chR, worker, reader>>

\* case chR <- w
WriterPass(i) ==
  LET cc == i[1]  g == writer[i].g IN
  /\ writer[i].pc = "pushR" /\ Room(chR, cc, g)
  /\ chR' = Send(chR, cc, g, writer[i].w)
  /\ writer' = [writer EXCEPT ![i].pc = "take", ![i].w = NoWork]
  /\ UNCHANGED <<clientVars, gen, chW, work, worker, reader, wire>>

\* Mutant: the writer returns without completing its work.
WriterStopFullSilent(i) ==
  /\ WaitsForRoom(i) /\ worker[i].stop
  /\ WriterReturn(i, FALSE)
  /\ UNCHANGED <<clientVars, gen, chW, chR, work, worker, reader>>

WriterStopFull(i) ==
  LET w == writer[i].w IN
  /\ WaitsForRoom(i) /\ worker[i].stop
  /\ CanComplete(w) /\ Complete(w, "errPipelineConnStopped")
  /\ WriterReturn(i, FALSE)
  /\ UNCHANGED <<clientVars, gen, chW, chR, worker, reader>>

-----------------------------------------------------------------------------
(* reader(conn, stopCh).                                                   *)

ReaderStart(i) ==
  /\ reader[i].pc = "start"
  /\ reader' = [reader EXCEPT ![i].pc = "take", ![i].g = gen[i[1]]]
  /\ UNCHANGED <<clientVars, gen, chW, chR, work, worker, writer, wire>>

ReaderTake(i) ==
  LET cc == i[1]  g == reader[i].g IN
  /\ reader[i].pc = "take" /\ HasWork(chR, cc, g)
  /\ reader' = [reader EXCEPT ![i].pc = "read", ![i].w = Head(chR[cc][g])]
  /\ chR' = Receive(chR, cc, g)
  /\ UNCHANGED <<clientVars, gen, chW, work, worker, writer, wire>>

\* case <-stopCh
ReaderStop(i) ==
  /\ reader[i].pc = "take" /\ ~HasWork(chR, i[1], reader[i].g) /\ worker[i].stop
  /\ reader' = [reader EXCEPT ![i] = [NewReader EXCEPT !.pc = "returned"]]
  /\ UNCHANGED <<clientVars, gen, chW, chR, work, worker, writer, wire>>

\* The next response of the connection is read into the work.
ReaderRead(i) ==
  LET w == reader[i].w IN
  /\ reader[i].pc = "read" /\ wire[i] # <<>>
  /\ CanComplete(w)
  /\ work' = [work EXCEPT ![w].done = TRUE, ![w].resp = Head(wire[i])]
  /\ wire' = [wire EXCEPT ![i] = Tail(@)]
  /\ reader' = [reader EXCEPT ![i].pc = "take", ![i].w = NoWork]
  /\ UNCHANGED <<clientVars, gen, chW, chR, worker, writer>>

\* The connection failed, timed out, was closed by the peer or by worker().
ReaderFails(i) ==
  LET w == reader[i].w IN
  /\ reader[i].pc = "read"
  /\ CanComplete(w) /\ Complete(w, "readError")
  /\ reader' = [reader EXCEPT ![i] = [NewReader EXCEPT !.pc = "returned", !.err = TRUE]]
  /\ UNCHANGED <<clientVars, gen, chW, chR, worker, writer, wire>>

-----------------------------------------------------------------------------
CallerStep(p) ==
  \/ Choose(p) \/ DoInit(p) \/ Push(p) \/ DropOldest(p) \/ PushAgain(p)
  \/ PushSlow(p) \/ Finish(p) \/ Abandon(p)
WorkerStep(i) ==
  \/ Dial(i) \/ FirstDone(i) \/ BothDone(i) \/ DrainOne(i) \/ DrainEnd(i) \/ Decide(i)
WriterStep(i) ==
  \/ WriterStart(i) \/ WriterTake(i) \/ WriterStop(i)
  \/ WriterFlush(i) \/ WriterFlushFails(i) \/ WriterTooLate(i) \/ WriterWrite(i)
  \/ WriterWriteFails(i) \/ WriterPass(i) \/ WriterStopFull(i)
ReaderStep(i) ==
  \/ ReaderStart(i) \/ ReaderTake(i) \/ ReaderStop(i) \/ ReaderRead(i) \/ ReaderFails(i)

Next ==
  \/ \E p \in Callers : CallerStep(p)
  \/ \E w \in Works : Expire(w)
  \/ \E i \in Goroutines : WorkerStep(i) \/ WriterStep(i) \/ WriterIdle(i) \/ ReaderStep(i)

Spec == Init /\ [][Next]_vars

\* A goroutine that can go on does; the peer answers or the connection fails;
\* a dial succeeds in the end.
Fairness ==
  /\ \A p \in Callers :
       /\ WF_vars(Push(p) \/ DropOldest(p) \/ PushAgain(p) \/ PushSlow(p))
       /\ WF_vars(Finish(p) \/ Abandon(p))
  /\ \A w \in Works : WF_vars(Expire(w))
  /\ \A i \in Goroutines :
       /\ WF_vars(WorkerStep(i))
       /\ WF_vars(ReaderStep(i))
       /\ WF_vars(WriterStep(i))
FairSpec == Spec /\ Fairness

-----------------------------------------------------------------------------
(* Properties.                                                             *)

\* Every work is in exactly one pair of hands: a pooled work, and one its
\* caller has not queued yet, is in no channel, is used by no writer or reader
\* and has nothing in its done channel; one a caller waits for is in exactly
\* one of these places, so that it is completed once and only by its call.
\* (acquire/releasePipelineWork and every path that ends in w.done.)
WorkInOnePlace ==
  \A w \in Works :
    LET n == Places(w) + (IF work[w].done THEN 1 ELSE 0)
        waiting == \E p \in Users(w) : caller[p].pc = "wait"
    IN /\ n <= 1
       /\ Cardinality(Users(w)) + (IF work[w].pooled THEN 1 ELSE 0) <= 1
       /\ work[w].pooled \/ (Users(w) # {} /\ ~waiting) => n = 0
       /\ waiting => n = 1

\* A call that returns without error has the response to its own request:
\* the works of chR and the requests on the connection stay in step, also when
\* works time out, overflow, or the connection fails in between.
ResponseMatches ==
  \A p \in Callers :
    LET w == caller[p].w IN
    caller[p].pc = "wait" /\ work[w].done /\ work[w].err = "nil" => work[w].resp = w

\* No writer will ever take w: its channel was dropped, or the goroutine that
\* serves it ended after MaxIdleConnDuration (init starts no other).
Orphaned(w) ==
  \E x \in Queued(w) : x[3] # gen[x[2]] \/ \A g \in Gens : worker[<<x[2], g>>].pc \in {"off", "ended"}

\* The request of w is in the buffer of a writer that waits for more work with
\* no flush pending: the works that followed it timed out in chW.
HeldBack(w) ==
  \E i \in Goroutines :
    /\ WaitsForWork(i) /\ ~writer[i].flush
    /\ \E k \in 1..Len(writer[i].buf) : writer[i].buf[k] = w

\* Every call returns, unless its work is orphaned by an idle stop or held
\* back in the write buffer.
Answered ==
  \A p \in Callers :
    caller[p].pc = "wait" ~>
      (caller[p].pc # "wait" \/ Orphaned(caller[p].w) \/ HeldBack(caller[p].w))
=============================================================================
