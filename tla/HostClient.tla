----------------------------- MODULE HostClient -----------------------------
(***************************************************************************)
(* The connection pool of fasthttp's HostClient (fasthttp/client.go):      *)
(* acquireConn, the queue of wantConns, releaseConn, closeConn,            *)
(* decConnsCount, dialConnFor, connsCleaner, CloseIdleConnections and      *)
(* SetMaxConns, driven by goroutines that run HostClient.Do.               *)
(*                                                                         *)
(* Every section of the code that runs under connsLock, and every section  *)
(* under a wantConn's own mutex, is one atomic step; everything between    *)
(* two such sections may interleave.  releaseConn is the one section that  *)
(* takes a wantConn's mutex while it holds connsLock, so it is two steps   *)
(* with connsLock held in between.                                         *)
(*                                                                         *)
(* An agent is a goroutine: a caller of Do, the goroutine dialConnFor(w)   *)
(* (named by its wantConn w), the connsCleaner, or a caller of             *)
(* CloseIdleConnections.                                                   *)
(***************************************************************************)
EXTENDS Integers, Sequences, FiniteSets

CONSTANTS
  Callers,            \* goroutines that call HostClient.Do
  Wants,              \* wantConn objects (bounds the queue connsWait)
  Conns,              \* connections, by identity (bounds those alive at once)
  Cleaner,            \* the connsCleaner goroutine
  Closers,            \* goroutines that call CloseIdleConnections
  MaxConnsValues,     \* the values MaxConns may be given; 0 means "not set"
  DefaultMaxConns,    \* DefaultMaxConnsPerHost
  Waiting,            \* MaxConnWaitTimeout > 0
  Lifo,               \* ConnPoolStrategy = LIFO (FIFO otherwise)
  CloseCallers,       \* callers whose requests carry Connection: close
  TimedCallers,       \* callers whose req.timeout is below MaxConnWaitTimeout
  RetryableCallers,   \* callers whose requests satisfy isIdempotent or RetryIf
  MaxAttempts,        \* MaxIdemponentCallAttempts
  NoConn, NoWant, NoAgent

Agents == Callers \cup Wants \cup {Cleaner} \cup Closers
Sweepers == {Cleaner} \cup Closers

\* The limit acquireConn applies: DefaultMaxConnsPerHost when MaxConns is unset.
Limit(m) == IF m <= 0 THEN DefaultMaxConns ELSE m

\* The goroutines are pairwise distinct, the sentinels are outside the sets
\* they complement, and some positive limit always applies.
ASSUME HostClientAssumption ==
  /\ IsFiniteSet(Conns)
  /\ Callers \cap Wants = {} /\ Callers \cap Sweepers = {} /\ Wants \cap Sweepers = {}
  /\ Cleaner \notin Closers
  /\ MaxConnsValues \subseteq Int /\ MaxConnsValues # {}
  /\ DefaultMaxConns \in Nat \ {0} /\ MaxAttempts \in Nat \ {0}
  /\ Waiting \in BOOLEAN /\ Lifo \in BOOLEAN
  /\ CloseCallers \subseteq Callers /\ TimedCallers \subseteq Callers
  /\ RetryableCallers \subseteq Callers
  /\ NoConn \notin Conns /\ NoWant \notin Wants /\ NoAgent \notin Agents

VARIABLES
  maxConns,      \* HostClient.MaxConns
  connsCount,    \* HostClient.connsCount
  conns,         \* HostClient.conns, the idle connections
  connsWait,     \* HostClient.connsWait, a FIFO of wantConns
  cleanerRun,    \* HostClient.connsCleanerRun
  connsLock,     \* the agent inside releaseConn's critical section, or NoAgent
  want,          \* the wantConn objects: ready (closed), conn, err
  pc,            \* where each agent is
  cur,           \* the connection an agent holds in a local variable
  mine,          \* the wantConn a caller waits on
  sel,           \* the wantConn releaseConn popped while it holds connsLock
  scratch,       \* the connections a sweeper took out of conns to close
  attempts,      \* Do's attempts counter
  res,           \* the outcome of Do ("again" while Do is about to retry)
  place,         \* history: where each connection is in its life
  allowed        \* history: the limit in force, or the connections there were
                 \* when it was set, if these were more

vars == <<maxConns, allowed, connsCount, conns, connsWait, cleanerRun, connsLock, want,
          pc, cur, mine, sel, scratch, attempts, res, place>>

PCs == {"idle", "acquire", "enqueue", "wait", "cancel", "dial", "deliver",
        "deliverErr", "dialfailed", "inuse", "release", "releasing", "close",
        "netclose", "collect", "sweep"}
Places == {"free", "dialing", "held", "idle", "delivered", "scratch", "closing"}
Results == {"none", "again", "ok", "NoFreeConns", "Timeout", "DialErr", "Err"}

Unset == [ready |-> FALSE, conn |-> NoConn, err |-> FALSE]

Elems(s) == {s[i] : i \in DOMAIN s}

Init ==
  /\ maxConns \in MaxConnsValues /\ allowed = Limit(maxConns)
  /\ connsCount = 0
  /\ conns = <<>>
  /\ connsWait = <<>>
  /\ cleanerRun = FALSE
  /\ connsLock = NoAgent
  /\ want = [w \in Wants |-> Unset]
  /\ pc = [a \in Agents |-> "idle"]
  /\ cur = [a \in Agents |-> NoConn]
  /\ mine = [p \in Callers |-> NoWant]
  /\ sel = NoWant
  /\ scratch = [a \in Sweepers |-> <<>>]
  /\ attempts = [p \in Callers |-> 0]
  /\ res = [p \in Callers |-> "none"]
  /\ place = [k \in Conns |-> "free"]

-----------------------------------------------------------------------------
(* Helpers.                                                                *)

Unlocked == connsLock = NoAgent
Goto(a, l) == pc' = [pc EXCEPT ![a] = l]
Moves(k, l) == place' = [place EXCEPT ![k] = l]

\* wantConn.waiting: the ready channel is still open.
IsWaiting(w) == ~want[w].ready

\* A wantConn nothing refers to any more is garbage and may stand for a new one.
Fresh(w) ==
  /\ w \notin Elems(connsWait)
  /\ \A p \in Callers : mine[p] # w
  /\ pc[w] = "idle" /\ sel # w

\* The number of wantConns at the front of the queue that no longer wait:
\* what "for q.len() > 0 { w := q.popFront(); if w.waiting() ..." skips.
Stale == Cardinality({i \in DOMAIN connsWait : \A j \in 1..i : ~IsWaiting(connsWait[j])})

NoneWaiting == Stale = Len(connsWait)

\* The wantConn that loop stops at, and the queue it leaves.
FirstWaiting == connsWait[Stale + 1]
AfterFirstWaiting == SubSeq(connsWait, Stale + 2, Len(connsWait))

\* Mutant of Cleared: clearFront does not look whether the head still waits.
ClearedAll == <<>>

\* wantConnQueue.clearFront: pop what no longer waits from the front.
Cleared == SubSeq(connsWait, Stale + 1, Len(connsWait))

\* What a caller does when its attempt is over: Do loops or returns.
AfterAttempt(a) ==
  IF a \in Callers
  THEN IF res[a] = "again" THEN "acquire" ELSE "idle"
  ELSE IF a \in Sweepers THEN "sweep" ELSE "idle"

\* Mutant of DecConnsCount: the slot is passed on and given up as well.
DecConnsCountTwice(pcs, cs, pl) ==
  /\ connsCount' = connsCount - 1
  /\ \/ /\ ~Waiting \/ NoneWaiting
        /\ connsWait' = IF Waiting THEN <<>> ELSE connsWait
        /\ pc' = pcs /\ cur' = cs /\ place' = pl
     \/ /\ Waiting /\ ~NoneWaiting
        /\ \E k \in Conns :
             /\ place[k] = "free"
             /\ pc' = [pcs EXCEPT ![FirstWaiting] = "dial"]
             /\ cur' = [cs EXCEPT ![FirstWaiting] = k]
             /\ place' = [pl EXCEPT ![k] = "dialing"]
        /\ connsWait' = AfterFirstWaiting

\* decConnsCount, run under connsLock by an agent that gives up its slot:
\* either the slot goes to the first waiting wantConn, for which a dialConnFor
\* goroutine starts, or connsCount is decremented.  pcs, cs and pl are pc, cur
\* and place as the rest of the agent's step leaves them.
DecConnsCount(pcs, cs, pl) ==
  \/ /\ ~Waiting \/ NoneWaiting
     /\ connsCount' = connsCount - 1
     /\ connsWait' = IF Waiting THEN <<>> ELSE connsWait
     /\ pc' = pcs /\ cur' = cs /\ place' = pl
  \/ /\ Waiting /\ ~NoneWaiting
     /\ LET w == FirstWaiting
        IN \E k \in Conns :
             /\ place[k] = "free"
             /\ pc' = [pcs EXCEPT ![w] = "dial"]
             /\ cur' = [cs EXCEPT ![w] = k]
             /\ place' = [pl EXCEPT ![k] = "dialing"]
     /\ connsWait' = AfterFirstWaiting
     /\ UNCHANGED connsCount

-----------------------------------------------------------------------------
(* HostClient.Do and acquireConn.                                          *)

\* A goroutine calls Do.
Do(p) ==
  /\ pc[p] = "idle"
  /\ Goto(p, "acquire")
  /\ attempts' = [attempts EXCEPT ![p] = 0]
  /\ res' = [res EXCEPT ![p] = "none"]
  /\ UNCHANGED <<maxConns, allowed, connsCount, conns, connsWait, cleanerRun, connsLock,
                 want, cur, mine, sel, scratch, place>>

\* The deadline of the request passes before the attempt starts.
DoTimeout(p) ==
  /\ pc[p] = "acquire" /\ p \in TimedCallers
  /\ Goto(p, "idle")
  /\ res' = [res EXCEPT ![p] = "Timeout"]
  /\ UNCHANGED <<maxConns, allowed, connsCount, conns, connsWait, cleanerRun, connsLock,
                 want, cur, mine, sel, scratch, attempts, place>>

\* acquireConn takes an idle connection, the newest (LIFO) or oldest (FIFO).
AcquireIdle(p) ==
  /\ pc[p] = "acquire" /\ Unlocked
  /\ conns # <<>>
  /\ LET k == IF Lifo THEN conns[Len(conns)] ELSE conns[1]
     IN /\ cur' = [cur EXCEPT ![p] = k]
        /\ Moves(k, "held")
  /\ conns' = IF Lifo THEN SubSeq(conns, 1, Len(conns) - 1) ELSE Tail(conns)
  /\ Goto(p, "inuse")
  /\ UNCHANGED <<maxConns, allowed, connsCount, connsWait, cleanerRun, connsLock, want,
                 mine, sel, scratch, attempts, res>>

\* Mutant of AcquireCreate: the limit is off by one.
AcquireCreateOffByOne(p) ==
  /\ pc[p] = "acquire" /\ Unlocked
  /\ conns = <<>> /\ connsCount <= Limit(maxConns)
  /\ connsCount' = connsCount + 1
  /\ \E k \in Conns :
       /\ place[k] = "free"
       /\ cur' = [cur EXCEPT ![p] = k]
       /\ Moves(k, "dialing")
  /\ cleanerRun' = TRUE
  /\ pc' = [pc EXCEPT ![p] = "dial", ![Cleaner] = IF cleanerRun THEN @ ELSE "collect"]
  /\ UNCHANGED <<maxConns, allowed, conns, connsWait, connsLock, want, mine, sel,
                 scratch, attempts, res>>

\* acquireConn reserves a slot for a new connection and, unless the request
\* closes it anyway, makes sure a connsCleaner runs.
AcquireCreate(p) ==
  /\ pc[p] = "acquire" /\ Unlocked
  /\ conns = <<>> /\ connsCount < Limit(maxConns)
  /\ connsCount' = connsCount + 1
  /\ \E k \in Conns :
       /\ place[k] = "free"
       /\ cur' = [cur EXCEPT ![p] = k]
       /\ Moves(k, "dialing")
  /\ LET start == ~cleanerRun /\ p \notin CloseCallers
     IN /\ cleanerRun' = (cleanerRun \/ start)
        /\ pc' = [pc EXCEPT ![p] = "dial",
                            ![Cleaner] = IF start THEN "collect" ELSE @]
  /\ UNCHANGED <<maxConns, allowed, conns, connsWait, connsLock, want, mine, sel,
                 scratch, attempts, res>>

\* All connections are busy and the client does not wait for one.
AcquireFail(p) ==
  /\ pc[p] = "acquire" /\ Unlocked
  /\ conns = <<>> /\ connsCount >= Limit(maxConns) /\ ~Waiting
  /\ Goto(p, "idle")
  /\ res' = [res EXCEPT ![p] = "NoFreeConns"]
  /\ UNCHANGED <<maxConns, allowed, connsCount, conns, connsWait, cleanerRun, connsLock,
                 want, cur, mine, sel, scratch, attempts, place>>

\* All connections are busy: acquireConn drops connsLock before it queues.
AcquireMustWait(p) ==
  /\ pc[p] = "acquire" /\ Unlocked
  /\ conns = <<>> /\ connsCount >= Limit(maxConns) /\ Waiting
  /\ Goto(p, "enqueue")
  /\ UNCHANGED <<maxConns, allowed, connsCount, conns, connsWait, cleanerRun, connsLock,
                 want, cur, mine, sel, scratch, attempts, res, place>>

\* queueForIdle, in a critical section of its own.
QueueForIdle(p) ==
  /\ pc[p] = "enqueue" /\ Unlocked
  /\ \E w \in Wants :
       /\ Fresh(w)
       /\ want' = [want EXCEPT ![w] = Unset]
       /\ connsWait' = Append(Cleared, w)
       /\ mine' = [mine EXCEPT ![p] = w]
  /\ Goto(p, "wait")
  /\ UNCHANGED <<maxConns, allowed, connsCount, conns, cleanerRun, connsLock, cur, sel,
                 scratch, attempts, res, place>>

\* The select receives from w.ready: a connection, or the error of the dial.
WaitReady(p) ==
  /\ pc[p] = "wait"
  /\ LET w == mine[p]
     IN /\ want[w].ready
        /\ \/ /\ want[w].conn # NoConn
              /\ cur' = [cur EXCEPT ![p] = want[w].conn]
              /\ Moves(want[w].conn, "held")
              /\ mine' = [mine EXCEPT ![p] = NoWant]
              /\ Goto(p, "inuse")
              /\ UNCHANGED res
           \/ /\ want[w].conn = NoConn
              /\ Goto(p, "cancel")
              /\ res' = [res EXCEPT ![p] = "DialErr"]
              /\ UNCHANGED <<cur, mine, place>>
  /\ UNCHANGED <<maxConns, allowed, connsCount, conns, connsWait, cleanerRun, connsLock,
                 want, sel, scratch, attempts>>

\* The select receives from the timer, possibly while w.ready is closed too.
WaitTimeout(p) ==
  /\ pc[p] = "wait"
  /\ Goto(p, "cancel")
  /\ res' = [res EXCEPT ![p] =
               IF p \in TimedCallers THEN "Timeout" ELSE "NoFreeConns"]
  /\ UNCHANGED <<maxConns, allowed, connsCount, conns, connsWait, cleanerRun, connsLock,
                 want, cur, mine, sel, scratch, attempts, place>>

\* Mutant of Cancel: what was delivered in the meantime is forgotten.
CancelForgets(p) ==
  /\ pc[p] = "cancel"
  /\ want' = [want EXCEPT ![mine[p]] = [@ EXCEPT !.ready = TRUE, !.err = TRUE]]
  /\ Goto(p, "idle")
  /\ mine' = [mine EXCEPT ![p] = NoWant]
  /\ UNCHANGED <<maxConns, allowed, connsCount, conns, connsWait, cleanerRun, connsLock,
                 cur, sel, scratch, attempts, res, place>>

\* wantConn.cancel, deferred by acquireConn: a connection that was delivered
\* in the meantime has to be given back.
Cancel(p) ==
  /\ pc[p] = "cancel"
  /\ LET w == mine[p]
         k == want[w].conn
     IN /\ want' = [want EXCEPT ![w] = [ready |-> TRUE, conn |-> NoConn, err |-> TRUE]]
        /\ IF k # NoConn
           THEN /\ cur' = [cur EXCEPT ![p] = k]
                /\ Moves(k, "held")
                /\ Goto(p, "release")
           ELSE /\ Goto(p, "idle")
                /\ UNCHANGED <<cur, place>>
  /\ mine' = [mine EXCEPT ![p] = NoWant]
  /\ UNCHANGED <<maxConns, allowed, connsCount, conns, connsWait, cleanerRun, connsLock,
                 sel, scratch, attempts, res>>

-----------------------------------------------------------------------------
(* Dialling: dialHostHard is called by acquireConn with the reserved slot,  *)
(* and by dialConnFor with the slot decConnsCount passed on.                *)

DialOk(a) ==
  /\ pc[a] = "dial"
  /\ Goto(a, IF a \in Callers THEN "inuse" ELSE "deliver")
  /\ Moves(cur[a], "held")
  /\ UNCHANGED <<maxConns, allowed, connsCount, conns, connsWait, cleanerRun, connsLock,
                 want, cur, mine, sel, scratch, attempts, res>>

DialFail(a) ==
  /\ pc[a] = "dial"
  /\ Goto(a, IF a \in Callers THEN "dialfailed" ELSE "deliverErr")
  /\ UNCHANGED <<maxConns, allowed, connsCount, conns, connsWait, cleanerRun, connsLock,
                 want, cur, mine, sel, scratch, attempts, res, place>>

\* The slot of a failed dial is given up, by decConnsCount.
DecAfterDialFail(a) ==
  /\ pc[a] = "dialfailed" /\ Unlocked
  /\ DecConnsCount([pc EXCEPT ![a] = "idle"], [cur EXCEPT ![a] = NoConn],
                   [place EXCEPT ![cur[a]] = "free"])
  /\ res' = IF a \in Callers THEN [res EXCEPT ![a] = "DialErr"] ELSE res
  /\ UNCHANGED <<maxConns, allowed, conns, cleanerRun, connsLock, want, mine, sel,
                 scratch, attempts>>

\* wantConn.tryDeliver succeeds once: nothing was delivered, nobody cancelled.
Deliverable(w) == want[w].conn = NoConn /\ ~want[w].err
Delivered(w, k) == [want EXCEPT ![w] = [ready |-> TRUE, conn |-> k, err |-> FALSE]]

\* dialConnFor delivers the new connection; a cancelled wantConn refuses it
\* and the connection is released as any other.
DialerDeliver(w) ==
  /\ pc[w] = "deliver"
  /\ \/ /\ Deliverable(w)
        /\ want' = Delivered(w, cur[w])
        /\ Moves(cur[w], "delivered")
        /\ cur' = [cur EXCEPT ![w] = NoConn]
        /\ Goto(w, "idle")
     \/ /\ ~Deliverable(w)
        /\ Goto(w, "release")
        /\ UNCHANGED <<want, cur, place>>
  /\ UNCHANGED <<maxConns, allowed, connsCount, conns, connsWait, cleanerRun, connsLock,
                 mine, sel, scratch, attempts, res>>

\* dialConnFor delivers the error of the dial and then gives up the slot.
DialerDeliverErr(w) ==
  /\ pc[w] = "deliverErr"
  /\ want' = IF Deliverable(w)
             THEN [want EXCEPT ![w] = [ready |-> TRUE, conn |-> NoConn, err |-> TRUE]]
             ELSE want
  /\ Goto(w, "dialfailed")
  /\ UNCHANGED <<maxConns, allowed, connsCount, conns, connsWait, cleanerRun, connsLock,
                 cur, mine, sel, scratch, attempts, res, place>>

-----------------------------------------------------------------------------
(* transport.RoundTrip once it has a connection, and Do's retry decision.  *)

\* The response is read and the connection may be kept.  With a streamed body
\* this is the moment the caller closes the body.
RoundTripKeep(p) ==
  /\ pc[p] = "inuse" /\ p \notin CloseCallers
  /\ Goto(p, "release")
  /\ res' = [res EXCEPT ![p] = "ok"]
  /\ UNCHANGED <<maxConns, allowed, connsCount, conns, connsWait, cleanerRun, connsLock,
                 want, cur, mine, sel, scratch, attempts, place>>

\* The response is read; the request, the response, MaxConnDuration or a
\* reset of the connection while writing asks to close it.
RoundTripClose(p) ==
  /\ pc[p] = "inuse"
  /\ Goto(p, "close")
  /\ res' = [res EXCEPT ![p] = "ok"]
  /\ UNCHANGED <<maxConns, allowed, connsCount, conns, connsWait, cleanerRun, connsLock,
                 want, cur, mine, sel, scratch, attempts, place>>

\* A deadline, write or read fails.  Do retries when RoundTrip allows it, the
\* body is no stream, the request is retryable or the error is io.EOF, and
\* attempts are left.
RoundTripError(p) ==
  /\ pc[p] = "inuse"
  /\ Goto(p, "close")
  /\ \/ /\ res' = [res EXCEPT ![p] = "Err"]     \* ErrBodyTooLarge, body stream, not retryable
        /\ UNCHANGED attempts
     \/ \E eof \in BOOLEAN :
          /\ eof \/ p \in RetryableCallers
          /\ attempts' = [attempts EXCEPT ![p] = @ + 1]
          /\ res' = [res EXCEPT ![p] =
                       IF attempts[p] + 1 >= MaxAttempts THEN "Err" ELSE "again"]
  /\ UNCHANGED <<maxConns, allowed, connsCount, conns, connsWait, cleanerRun, connsLock,
                 want, cur, mine, sel, scratch, place>>

-----------------------------------------------------------------------------
(* releaseConn.                                                            *)

\* releaseConn locks connsLock.  Without waiters the connection becomes idle;
\* otherwise the first waiting wantConn is popped and the lock is kept.
ReleaseConn(a) ==
  /\ pc[a] = "release" /\ Unlocked
  /\ \/ /\ ~Waiting \/ NoneWaiting
        /\ conns' = Append(conns, cur[a])
        /\ Moves(cur[a], "idle")
        /\ cur' = [cur EXCEPT ![a] = NoConn]
        /\ Goto(a, AfterAttempt(a))
        /\ connsWait' = IF Waiting THEN <<>> ELSE connsWait
        /\ UNCHANGED <<connsLock, sel>>
     \/ /\ Waiting /\ ~NoneWaiting
        /\ sel' = FirstWaiting
        /\ connsWait' = AfterFirstWaiting
        /\ connsLock' = a
        /\ Goto(a, "releasing")
        /\ UNCHANGED <<conns, cur, place>>
  /\ UNCHANGED <<maxConns, allowed, connsCount, cleanerRun, want, mine, scratch,
                 attempts, res>>

\* Mutant of ReleaseDeliver: the result of tryDeliver is ignored and the
\* connection goes to the pool as well.
ReleaseDeliverIgnored(a) ==
  /\ pc[a] = "releasing"
  /\ want' = IF Deliverable(sel) THEN Delivered(sel, cur[a]) ELSE want
  /\ conns' = Append(conns, cur[a])
  /\ Moves(cur[a], "idle")
  /\ cur' = [cur EXCEPT ![a] = NoConn]
  /\ sel' = NoWant /\ connsLock' = NoAgent
  /\ Goto(a, AfterAttempt(a))
  /\ UNCHANGED <<maxConns, allowed, connsCount, connsWait, cleanerRun, mine, scratch,
                 attempts, res>>

\* tryDeliver on the popped wantConn, which may have been cancelled since it
\* was seen waiting: then the connection becomes idle.  connsLock is released.
ReleaseDeliver(a) ==
  /\ pc[a] = "releasing"
  /\ \/ /\ Deliverable(sel)
        /\ want' = Delivered(sel, cur[a])
        /\ Moves(cur[a], "delivered")
        /\ UNCHANGED conns
     \/ /\ ~Deliverable(sel)
        /\ conns' = Append(conns, cur[a])
        /\ Moves(cur[a], "idle")
        /\ UNCHANGED want
  /\ cur' = [cur EXCEPT ![a] = NoConn]
  /\ sel' = NoWant /\ connsLock' = NoAgent
  /\ Goto(a, AfterAttempt(a))
  /\ UNCHANGED <<maxConns, allowed, connsCount, connsWait, cleanerRun, mine, scratch,
                 attempts, res>>

-----------------------------------------------------------------------------
(* closeConn: first decConnsCount, then Close on the connection.           *)

CloseDec(p) ==
  /\ pc[p] = "close" /\ Unlocked
  /\ DecConnsCount([pc EXCEPT ![p] = "netclose"], cur,
                   [place EXCEPT ![cur[p]] = "closing"])
  /\ UNCHANGED <<maxConns, allowed, conns, cleanerRun, connsLock, want, mine, sel,
                 scratch, attempts, res>>

\* cc.c.Close() and releaseClientConn.
NetClose(a) ==
  /\ pc[a] = "netclose"
  /\ Moves(cur[a], "free")
  /\ cur' = [cur EXCEPT ![a] = NoConn]
  /\ Goto(a, AfterAttempt(a))
  /\ UNCHANGED <<maxConns, allowed, connsCount, conns, connsWait, cleanerRun, connsLock,
                 want, mine, sel, scratch, attempts, res>>

-----------------------------------------------------------------------------
(* connsCleaner and CloseIdleConnections.                                  *)

\* Sweeper a takes the first n idle connections out of the pool.
TakeIdle(a, n) ==
  /\ Unlocked
  /\ scratch' = [scratch EXCEPT ![a] = SubSeq(conns, 1, n)]
  /\ conns' = SubSeq(conns, n + 1, Len(conns))
  /\ place' = [k \in Conns |-> IF \E i \in 1..n : conns[i] = k THEN "scratch" ELSE place[k]]
  /\ Goto(a, "sweep")
  /\ UNCHANGED <<maxConns, allowed, connsCount, connsWait, cleanerRun, connsLock, want,
                 cur, mine, sel, attempts, res>>

\* connsCleaner wakes up and takes the connections at the front of the pool
\* that are idle for longer than MaxIdleConnDuration: any number of them.
Collect(n) ==
  /\ pc[Cleaner] = "collect" /\ n \in 0..Len(conns)
  /\ TakeIdle(Cleaner, n)

CloseIdleConnections(a) ==
  /\ pc[a] = "idle"
  /\ TakeIdle(a, Len(conns))

\* closeConn on the next connection of the scratch list, up to its Close.
ScratchDec(a) ==
  /\ pc[a] = "sweep" /\ scratch[a] # <<>> /\ Unlocked
  /\ LET k == Head(scratch[a])
     IN DecConnsCount([pc EXCEPT ![a] = "netclose"], [cur EXCEPT ![a] = k],
                      [place EXCEPT ![k] = "closing"])
  /\ scratch' = [scratch EXCEPT ![a] = Tail(@)]
  /\ UNCHANGED <<maxConns, allowed, conns, cleanerRun, connsLock, want, mine, sel,
                 attempts, res>>

\* Mutant of CleanerCheck: the cleaner stops when no connection is idle.
CleanerCheckIdle ==
  /\ pc[Cleaner] = "sweep" /\ scratch[Cleaner] = <<>> /\ Unlocked
  /\ cleanerRun' = (conns # <<>>)
  /\ Goto(Cleaner, IF conns = <<>> THEN "idle" ELSE "collect")
  /\ UNCHANGED <<maxConns, allowed, connsCount, conns, connsWait, connsLock, want, cur,
                 mine, sel, scratch, attempts, res, place>>

\* Mutant of CleanerCheck: connsCleanerRun is not reset.
CleanerCheckNoReset ==
  /\ pc[Cleaner] = "sweep" /\ scratch[Cleaner] = <<>> /\ Unlocked
  /\ Goto(Cleaner, IF connsCount = 0 THEN "idle" ELSE "collect")
  /\ UNCHANGED <<maxConns, allowed, connsCount, conns, connsWait, cleanerRun, connsLock,
                 want, cur, mine, sel, scratch, attempts, res, place>>

\* connsCleaner stops when no connection is left, else it sleeps and loops.
CleanerCheck ==
  /\ pc[Cleaner] = "sweep" /\ scratch[Cleaner] = <<>> /\ Unlocked
  /\ cleanerRun' = (connsCount # 0)
  /\ Goto(Cleaner, IF connsCount = 0 THEN "idle" ELSE "collect")
  /\ UNCHANGED <<maxConns, allowed, connsCount, conns, connsWait, connsLock, want, cur,
                 mine, sel, scratch, attempts, res, place>>

\* CloseIdleConnections returns.
CloserDone(a) ==
  /\ pc[a] = "sweep" /\ scratch[a] = <<>>
  /\ Goto(a, "idle")
  /\ UNCHANGED <<maxConns, allowed, connsCount, conns, connsWait, cleanerRun, connsLock,
                 want, cur, mine, sel, scratch, attempts, res, place>>

SetMaxConns(m) ==
  /\ Unlocked
  /\ maxConns # m
  /\ maxConns' = m
  /\ allowed' = IF connsCount > Limit(m) THEN connsCount ELSE Limit(m)
  /\ UNCHANGED <<connsCount, conns, connsWait, cleanerRun, connsLock, want, pc,
                 cur, mine, sel, scratch, attempts, res, place>>

-----------------------------------------------------------------------------
CallerNext(p) ==
  \/ Do(p) \/ DoTimeout(p)
  \/ AcquireIdle(p) \/ AcquireCreate(p) \/ AcquireFail(p) \/ AcquireMustWait(p)
  \/ QueueForIdle(p) \/ WaitReady(p) \/ WaitTimeout(p) \/ Cancel(p)
  \/ RoundTripKeep(p) \/ RoundTripClose(p) \/ RoundTripError(p)
  \/ CloseDec(p)

DialerNext(w) == DialerDeliver(w) \/ DialerDeliverErr(w)

DialNext(a) == DialOk(a) \/ DialFail(a) \/ DecAfterDialFail(a)

ReleaseNext(a) == ReleaseConn(a) \/ ReleaseDeliver(a)

CleanerNext == (\E n \in 0..Len(conns) : Collect(n)) \/ CleanerCheck

Next ==
  \/ \E p \in Callers : CallerNext(p)
  \/ \E w \in Wants : DialerNext(w)
  \/ \E a \in Callers \cup Wants : DialNext(a) \/ ReleaseNext(a)
  \/ CleanerNext
  \/ \E a \in Closers : CloseIdleConnections(a) \/ CloserDone(a)
  \/ \E a \in Sweepers : ScratchDec(a)
  \/ \E a \in Callers \cup Sweepers : NetClose(a)
  \/ \E m \in MaxConnsValues : SetMaxConns(m)

\* The Go scheduler runs every runnable goroutine and a mutex in starvation
\* mode is granted to whoever keeps asking, hence strong fairness: an agent's
\* next step is only ever disabled while somebody else holds connsLock.  A
\* request ends by its deadline, and a connection nobody takes becomes idle
\* for longer than MaxIdleConnDuration: the cleaner, which sleeps just long
\* enough, keeps finding expired ones.  Nothing makes anybody call Do,
\* CloseIdleConnections or SetMaxConns.
Fairness ==
  /\ \A p \in Callers :
       SF_vars(~(pc[p] = "idle") /\ (CallerNext(p) \/ DialNext(p) \/ ReleaseNext(p) \/ NetClose(p)))
  /\ \A w \in Wants : SF_vars(DialerNext(w) \/ DialNext(w) \/ ReleaseNext(w))
  /\ SF_vars(CleanerNext \/ ScratchDec(Cleaner) \/ NetClose(Cleaner))
  /\ SF_vars(\E n \in 1..Len(conns) : Collect(n))
  /\ \A a \in Closers : SF_vars(ScratchDec(a) \/ NetClose(a) \/ CloserDone(a))

Spec == Init /\ [][Next]_vars

FairSpec == Spec /\ Fairness

-----------------------------------------------------------------------------
(* Properties.                                                             *)

\* Every variable has the type of the field or local it models.
TypeOK ==
  /\ maxConns \in MaxConnsValues /\ allowed \in Nat
  /\ connsCount \in Nat
  /\ conns \in Seq(Conns)
  /\ connsWait \in Seq(Wants)
  /\ cleanerRun \in BOOLEAN
  /\ connsLock \in Agents \cup {NoAgent}
  /\ want \in [Wants -> [ready : BOOLEAN, conn : Conns \cup {NoConn}, err : BOOLEAN]]
  /\ pc \in [Agents -> PCs]
  /\ cur \in [Agents -> Conns \cup {NoConn}]
  /\ mine \in [Callers -> Wants \cup {NoWant}]
  /\ sel \in Wants \cup {NoWant}
  /\ scratch \in [Sweepers -> Seq(Conns)]
  /\ attempts \in [Callers -> Nat]
  /\ res \in [Callers -> Results]
  /\ place \in [Conns -> Places]

\* The connections that occupy a slot of MaxConns: being dialled, used,
\* idle, on their way to a waiter, or waiting to be closed by a sweeper.
CountedIn(pl) == {k \in Conns : pl[k] \notin {"free", "closing"}}

\* connsCount is exactly the number of connections that occupy a slot, over
\* every race of release, close, failed dial, cancellation and sweep: no slot
\* leaks (acquireConn would refuse connections for ever) and none is given up
\* twice (MaxConns would be exceeded).
CountExact == connsCount = Cardinality(CountedIn(place))

\* A wantConn some caller still waits on.
Owned(w) == \E p \in Callers : mine[p] = w

\* The places that hold a reference to connection k.
Refs(k) ==
  {<<"cur", a, 0>> : a \in {b \in Agents : cur[b] = k}}
    \cup {<<"idle", Cleaner, i>> : i \in {j \in DOMAIN conns : conns[j] = k}}
    \cup {<<"want", w, 0>> : w \in {v \in Wants : want[v].conn = k /\ Owned(v)}}
    \cup UNION {{<<"scratch", a, i>> : i \in {j \in DOMAIN scratch[a] : scratch[a][j] = k}} :
                a \in Sweepers}

\* A connection is referred to from one place at most, and from nowhere once
\* it is closed: two requests never share one, the cleaner never closes what a
\* request uses, a late delivery never resurrects what was released.
ExclusiveUse ==
  \A k \in Conns :
    /\ \A r, s \in Refs(k) : r = s
    /\ place[k] = "free" => Refs(k) = {}

\* A connection that is not closed can still be reached: nobody forgets one,
\* not even when the timer and the delivery race.
NoConnForgotten == \A k \in Conns : place[k] # "free" => Refs(k) # {}

\* The slots in use never exceed the limit in force.  When SetMaxConns lowered
\* it below what was in use, the slots are handed on to waiters and given back,
\* but never become more than they were then.
WithinLimit == connsCount <= allowed

\* A wantConn that still waits belongs to a caller that will collect the
\* answer, and is either queued, being dialled for, or about to be delivered:
\* releaseConn and decConnsCount never pop a waiter without serving it.
NoWaiterDropped ==
  \A p \in Callers :
    pc[p] = "wait" /\ Deliverable(mine[p]) =>
      \/ mine[p] \in Elems(connsWait)
      \/ pc[mine[p]] \in {"dial", "deliver", "deliverErr"}
      \/ sel = mine[p]

\* Where an agent has a connection in hand that is being dialled, or is open.
Dialling == {"dial", "deliverErr", "dialfailed"}
Holding == {"inuse", "deliver", "release", "releasing", "close"}

AgentsCoherent ==
  \A a \in Agents :
    /\ pc[a] \in Dialling => cur[a] \in Conns /\ place[cur[a]] = "dialing"
    /\ pc[a] \in Holding => cur[a] \in Conns /\ place[cur[a]] = "held"
    /\ pc[a] = "netclose" => cur[a] \in Conns /\ place[cur[a]] = "closing"
    /\ pc[a] \notin Dialling \cup Holding \cup {"netclose"} => cur[a] = NoConn
    /\ \A b \in Agents : a # b /\ cur[a] # NoConn => cur[a] # cur[b]

PoolCoherent ==
  /\ \A i \in DOMAIN conns : place[conns[i]] = "idle"
  /\ \A i, j \in DOMAIN conns : conns[i] = conns[j] => i = j

ScratchCoherent ==
  \A a \in Sweepers : \A i \in DOMAIN scratch[a] :
    /\ place[scratch[a][i]] = "scratch"
    /\ \A b \in Sweepers : \A j \in DOMAIN scratch[b] :
         scratch[a][i] = scratch[b][j] => a = b /\ i = j

WantsCoherent ==
  \A p \in Callers :
    mine[p] # NoWant =>
      /\ want[mine[p]].conn # NoConn => place[want[mine[p]].conn] = "delivered"
      /\ \A q \in Callers :
           /\ mine[p] = mine[q] => p = q
           /\ mine[q] # NoWant /\ want[mine[p]].conn # NoConn
                /\ want[mine[p]].conn = want[mine[q]].conn => p = q

LockCoherent ==
  /\ \A a \in Agents : connsLock = a <=> pc[a] = "releasing"
  /\ \A p \in Callers : pc[p] \in {"wait", "cancel"} => mine[p] # NoWant
  /\ connsLock # NoAgent => sel # NoWant
  /\ \A a \in Sweepers : scratch[a] # <<>> => pc[a] \in {"sweep", "netclose"}

\* Callers, dialers and sweepers are only ever in their own part of the code.
RolesCoherent ==
  /\ \A a \in Wants :
       pc[a] \in {"idle", "dial", "deliver", "deliverErr", "dialfailed", "release", "releasing"}
  /\ \A a \in Sweepers : pc[a] \in {"idle", "collect", "sweep", "netclose"}
  /\ cleanerRun <=> pc[Cleaner] # "idle"

\* The inductive invariant behind the safety properties: where each agent is
\* says in which stage of its life the connection it holds is; agents, the
\* pool, the scratch lists and the answered wantConns never hold the same one;
\* and the agent between the two steps of releaseConn is the one with connsLock.
Coherent ==
  /\ TypeOK /\ CountExact
  /\ AgentsCoherent /\ PoolCoherent /\ ScratchCoherent /\ WantsCoherent
  /\ LockCoherent /\ RolesCoherent

\* Whatever is delivered to a wantConn is taken over, by the caller or by
\* cancel and releaseConn, even if the timer fires first.
DeliveredIsTaken == \A k \in Conns : (place[k] = "delivered") ~> (place[k] # "delivered")

\* "Idle keep-alive connections are closed after this duration"
\* (MaxIdleConnDuration): an idle connection does not stay in the pool for
\* ever, it is reused or closed.
IdleExpires == \A k \in Conns : (place[k] = "idle") ~> (place[k] # "idle")

\* No caller is inside Do.
Quiescent == \A p \in Callers : pc[p] = "idle"

\* When requests stop, connsCleaner closes every connection for good and ends.
DrainsWhenQuiet == (<>[]Quiescent) => <>[](connsCount = 0 /\ ~cleanerRun)

=============================================================================
