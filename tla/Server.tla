------------------------------- MODULE Server -------------------------------
(***************************************************************************)
(* fasthttp/server.go: the accept loop of Serve, ServeConn, the request    *)
(* loop of serveConn with its pipelining, Expect: 100-continue, timeouts   *)
(* and hijacking, TimeoutHandler, the pool of RequestCtx, and Shutdown.    *)
(*                                                                         *)
(* A client sends units of two: the beginning of a request and its rest.   *)
(* The server may find only the first of them in its buffer, which may     *)
(* hold the whole header (the rest is the body) or a part of it.           *)
(*                                                                         *)
(* A step of a connection's goroutine extends from one access of shared    *)
(* state (a counter, s.stop, s.idleConns, a pool, a channel, the network)  *)
(* to the next.  The worker pool is modelled by what module WorkerPool     *)
(* checks of it: a goroutine for each of at most Concurrency connections.  *)
(***************************************************************************)
EXTENDS Integers, FiniteSets

CONSTANTS
  Conns,               \* connections, each with its client
  Direct,              \* those passed to ServeConn instead of being accepted
  MaxRequests,         \* how many requests each client sends at most
  Ctxs,                \* RequestCtx objects
  Concurrency,         \* Server.Concurrency
  ReduceMemoryUsage,   \* Server.ReduceMemoryUsage
  ReadTimeout,         \* Server.ReadTimeout > 0
  WriteTimeout,        \* Server.WriteTimeout > 0
  KeepHijackedConns,   \* Server.KeepHijackedConns
  CloseOnShutdown,     \* Server.CloseOnShutdown
  ContinueHandler,     \* Server.ContinueHandler # nil
  TimeoutHandler,      \* the handler is wrapped by TimeoutHandler
  Hijacks,             \* the handler may hijack the connection
  Deadline,            \* Shutdown's context may expire
  NoConn, NoCtx

\* One RequestCtx for each connection, each hijacked connection and each
\* handler that TimeoutHandler gave up on is enough.
ASSUME ServerAssumption ==
  /\ IsFiniteSet(Conns) /\ IsFiniteSet(Ctxs) /\ Direct \subseteq Conns
  /\ MaxRequests \in [Conns -> Nat]
  /\ Concurrency \in Nat \ {0}
  /\ {ReduceMemoryUsage, ReadTimeout, WriteTimeout, KeepHijackedConns, CloseOnShutdown,
      ContinueHandler, TimeoutHandler, Hijacks, Deadline} \subseteq BOOLEAN
  /\ NoConn \notin Conns /\ NoCtx \notin Ctxs

VARIABLES
  conn,          \* serveConn's locals and the client's side, per connection
  net,           \* whether the server closed the connection
  idleConns,     \* s.idleConns: "no", "new" (idle in five seconds) or "idle"
  connState,     \* the last state the ConnState hook was called with
  open,          \* s.open
  concurrency,   \* s.concurrency
  spc, acc,      \* the accept loop of Serve, the connection it holds
  listener,      \* the listener of the last Serve: "none" (s.ln is nil), "open", "closed"
  stop,          \* s.stop
  concurrencyCh, \* s.concurrencyCh has been made, by Serve
  shpc, shres,   \* Shutdown, which holds s.mu while it runs, and its result
  pool,          \* s.ctxPool
  running,       \* the RequestCtxs whose handler runs in a goroutine of TimeoutHandler
  timeoutCh,     \* ctx.timeoutCh holds a token
  leaving        \* TimeoutHandler goroutines between ch <- and <-concurrencyCh

acceptVars == <<spc, acc>>
counters == <<open, concurrency>>
stateVars == <<idleConns, connState>>
shutVars == <<listener, stop, concurrencyCh, shpc, shres>>
ctxVars == <<pool, running, timeoutCh, leaving>>
vars == <<conn, net, idleConns, connState, open, concurrency, spc, acc, listener,
          stop, concurrencyCh, shpc, shres, pool, running, timeoutCh, leaving>>

PCs == {"none", "accepted", "over", "counted", "start", "loop", "peek", "byte", "active",
        "header", "more", "body", "error", "expect", "100body", "handle", "await", "respond",
        "panic", "idle", "checkStop", "exit", "cleanup", "uncount", "close", "report", "worker",
        "gone"}
ConnStates == {"none", "new", "active", "idle", "hijacked", "closed"}

\* Per connection: the units the client sent, whether it closed its end, the
\* units in the socket and in the reader br; connRequestNum (2 stands for
\* more), the responses in the writer bw, whether br is not nil,
\* continueReadingRequest, the RequestCtx, and what became of a hijack handler.
Blank(l) ==
  [pc |-> l, sent |-> 0, eof |-> FALSE, sock |-> 0, buf |-> 0, num |-> 0, held |-> 0,
   br |-> FALSE, cont |-> TRUE, ctx |-> NoCtx, hijack |-> "no"]

Init ==
  /\ conn = [c \in Conns |-> Blank("none")]
  /\ net = [c \in Conns |-> "open"]
  /\ idleConns = [c \in Conns |-> "no"] /\ connState = [c \in Conns |-> "none"]
  /\ open = 0 /\ concurrency = 0
  /\ spc = "off" /\ acc = NoConn
  /\ listener = "none"
  /\ stop = FALSE /\ concurrencyCh = FALSE /\ shpc = "off" /\ shres = "none"
  /\ pool = {} /\ running = {} /\ timeoutCh = [x \in Ctxs |-> FALSE] /\ leaving = 0

-----------------------------------------------------------------------------
(* Helpers.                                                                *)

At(c, l) == conn[c].pc = l
Set(c, r) == conn' = [conn EXCEPT ![c] = r]
Goto(c, l) == Set(c, [conn[c] EXCEPT !.pc = l])

\* setState: trackConn and the ConnState hook.
SetState(c, s) ==
  /\ idleConns' = [idleConns EXCEPT ![c] = IF s \in {"new", "idle"} THEN s ELSE "no"]
  /\ connState' = [connState EXCEPT ![c] = s]

\* The goroutine is done with the connection; a hijack handler may not be.
Gone(c) == Set(c, [Blank("gone") EXCEPT !.ctx = conn[c].ctx, !.hijack = conn[c].hijack])

\* Reading and writing fail once the server closed the connection; the other
\* end may be gone as well.
Broken(c) == net[c] = "closed" \/ conn[c].eof

\* A RequestCtx nobody refers to: it was never allocated or has been collected.
Unused(x) == x \notin pool \cup running /\ \A c \in Conns : conn[c].ctx # x

\* acquireCtx returns x: from the pool, or a new one whose timeoutCh is nil.
AcquireCtx(x) ==
  \/ x \in pool /\ pool' = pool \ {x} /\ UNCHANGED timeoutCh
  \/ Unused(x) /\ timeoutCh' = [timeoutCh EXCEPT ![x] = FALSE] /\ UNCHANGED pool

-----------------------------------------------------------------------------
(* Clients (external): they send requests and close the connection.        *)

ClientSend(c) ==
  /\ conn[c].pc \notin {"none", "gone"} /\ ~conn[c].eof /\ conn[c].sent < 2 * MaxRequests[c]
  /\ Set(c, [conn[c] EXCEPT !.sent = @ + 1, !.sock = @ + 1])
  /\ UNCHANGED <<net, acceptVars, counters, stateVars, shutVars, ctxVars>>

ClientClose(c) ==
  /\ conn[c].pc \notin {"none", "gone"} /\ ~conn[c].eof
  /\ Set(c, [conn[c] EXCEPT !.eof = TRUE])
  /\ UNCHANGED <<net, acceptVars, counters, stateVars, shutVars, ctxVars>>

-----------------------------------------------------------------------------
(* Serve: the accept loop, and ServeConn.                                  *)

\* Serve (called once) registers its listener under s.mu ...
Serve ==
  /\ spc = "off" /\ shpc = "off" /\ ~concurrencyCh
  /\ spc' = "registered"
  /\ listener' = "open" /\ concurrencyCh' = TRUE
  /\ UNCHANGED <<conn, net, acc, counters, stateVars, stop, shpc, shres, ctxVars>>

\* Mutant of ServeCount: waiting in Accept is not counted as an open connection.
ServeCountNot ==
  /\ spc = "registered"
  /\ spc' = "accept"
  /\ UNCHANGED <<conn, net, acc, counters, stateVars, shutVars, ctxVars>>

\* ... and counts itself as an open connection.
ServeCount ==
  /\ spc = "registered"
  /\ spc' = "accept" /\ open' = open + 1
  /\ UNCHANGED <<conn, net, acc, concurrency, stateVars, shutVars, ctxVars>>

\* acceptConn returns a connection ...
Accept(c) ==
  /\ spc = "accept" /\ listener = "open"
  /\ c \notin Direct /\ At(c, "none")
  /\ Goto(c, "accepted")
  /\ SetState(c, "new")
  /\ spc' = "accepted" /\ acc' = c
  /\ UNCHANGED <<net, counters, shutVars, ctxVars>>

\* ... which is counted before it is passed on.
AcceptCount ==
  /\ spc = "accepted"
  /\ spc' = "handoff" /\ open' = open + 1
  /\ UNCHANGED <<conn, net, acc, concurrency, stateVars, shutVars, ctxVars>>

\* The connections a goroutine of the worker pool is busy with.
Busy == {c \in Conns \ Direct : conn[c].pc \notin {"none", "accepted", "gone"}}

\* wp.Serve passes the connection to a worker ...
Handoff ==
  /\ spc = "handoff" /\ Cardinality(Busy) < Concurrency
  /\ Goto(acc, "start")
  /\ spc' = "accept" /\ acc' = NoConn
  /\ UNCHANGED <<net, counters, stateVars, shutVars, ctxVars>>

\* ... or refuses: it counts no more, gets an error response and is closed.
HandoffRefused ==
  /\ spc = "handoff" /\ Cardinality(Busy) >= Concurrency
  /\ spc' = "refused"
  /\ UNCHANGED <<conn, net, acc, counters, stateVars, shutVars, ctxVars>>

RefusedCount ==
  /\ spc = "refused"
  /\ spc' = "dropped" /\ open' = open - 1
  /\ UNCHANGED <<conn, net, acc, concurrency, stateVars, shutVars, ctxVars>>

RefusedClose ==
  /\ spc = "dropped"
  /\ net' = [net EXCEPT ![acc] = "closed"]
  /\ spc' = "closed"
  /\ UNCHANGED <<conn, acc, counters, stateVars, shutVars, ctxVars>>

RefusedState ==
  /\ spc = "closed"
  /\ SetState(acc, "closed")
  /\ Gone(acc)
  /\ spc' = "accept" /\ acc' = NoConn
  /\ UNCHANGED <<net, counters, shutVars, ctxVars>>

\* Mutant of AcceptError: Serve goes on counting itself after it returned.
AcceptErrorLeaks ==
  /\ spc = "accept" /\ listener # "open"
  /\ spc' = "off"
  /\ UNCHANGED <<conn, net, acc, counters, stateVars, shutVars, ctxVars>>

\* Accept fails, because the listener was closed or for good: Serve stops the
\* worker pool and returns.
AcceptError ==
  /\ spc = "accept" /\ listener # "open"
  /\ spc' = "off" /\ open' = open - 1
  /\ UNCHANGED <<conn, net, acc, concurrency, stateVars, shutVars, ctxVars>>

\* The program closes the listener itself.
CloseListener ==
  /\ spc = "accept" /\ listener = "open"
  /\ listener' = "closed"
  /\ UNCHANGED <<conn, net, acceptVars, counters, stateVars, stop, concurrencyCh, shpc,
                 shres, ctxVars>>

\* ServeConn adds one to s.concurrency and serves the connection, or refuses it.
ServeConn(c) ==
  /\ c \in Direct /\ At(c, "none")
  /\ concurrency' = concurrency + 1
  /\ Goto(c, IF concurrency + 1 > Concurrency THEN "over" ELSE "counted")
  /\ UNCHANGED <<net, open, acceptVars, stateVars, shutVars, ctxVars>>

ServeConnOpen(c) ==
  /\ At(c, "counted")
  /\ open' = open + 1
  /\ Goto(c, "start")
  /\ UNCHANGED <<net, concurrency, acceptVars, stateVars, shutVars, ctxVars>>

ServeConnRefused(c) ==
  /\ At(c, "over")
  /\ concurrency' = concurrency - 1
  /\ net' = [net EXCEPT ![c] = "closed"]
  /\ Gone(c)
  /\ UNCHANGED <<open, acceptVars, stateVars, shutVars, ctxVars>>

-----------------------------------------------------------------------------
(* serveConn: reading a request.                                           *)

\* serveConn starts; a failed TLS handshake or the handler of another
\* negotiated protocol end it at once, before there is a RequestCtx.  (Setting a
\* deadline before the handshake, for that handler or for HeaderReceived can
\* panic as in RespondPanics; that is left out.)
Start(c) ==
  /\ At(c, "start")
  /\ concurrency' = concurrency + 1
  /\ \/ \E x \in Ctxs :
          /\ AcquireCtx(x)
          /\ Set(c, [conn[c] EXCEPT !.pc = "loop", !.ctx = x])
          /\ UNCHANGED <<running, leaving>>
     \/ Goto(c, "exit") /\ UNCHANGED ctxVars
  /\ UNCHANGED <<net, open, acceptVars, stateVars, shutVars>>

\* Mutant of Loop: the RequestCtx that was given back is used on.
LoopKeepsCtx(c) ==
  /\ At(c, "loop")
  /\ LET k == [conn[c] EXCEPT !.num = IF @ = 2 THEN 2 ELSE @ + 1]
         reads == ReduceMemoryUsage /\ ~k.br
     IN \/ /\ k.num > 1 /\ ReadTimeout /\ net[c] = "closed"
           /\ Set(c, [k EXCEPT !.pc = "exit"]) /\ UNCHANGED ctxVars
        \/ /\ ~(k.num > 1 /\ ReadTimeout /\ net[c] = "closed")
           /\ IF reads
              THEN /\ Set(c, [k EXCEPT !.pc = "byte"])
                   /\ pool' = pool \cup {k.ctx}
                   /\ UNCHANGED <<running, timeoutCh, leaving>>
              ELSE /\ Set(c, [k EXCEPT !.pc = IF k.num > 1 THEN "peek" ELSE "active",
                                       !.br = TRUE])
                   /\ UNCHANGED ctxVars
  /\ UNCHANGED <<net, acceptVars, counters, stateVars, shutVars>>

\* The top of the loop: from the second request on the idle timeout is set,
\* which fails on a closed connection, and the first byte is waited for.
\* acquireByteReader gives the RequestCtx back while it waits.
Loop(c) ==
  /\ At(c, "loop")
  /\ LET k == [conn[c] EXCEPT !.num = IF @ = 2 THEN 2 ELSE @ + 1]
         reads == ReduceMemoryUsage /\ ~k.br
     IN \/ /\ k.num > 1 /\ ReadTimeout /\ net[c] = "closed"
           /\ Set(c, [k EXCEPT !.pc = "exit"]) /\ UNCHANGED ctxVars
        \/ /\ ~(k.num > 1 /\ ReadTimeout /\ net[c] = "closed")
           /\ IF reads
              THEN /\ Set(c, [k EXCEPT !.pc = "byte", !.ctx = NoCtx])
                   /\ pool' = pool \cup {k.ctx}
                   /\ UNCHANGED <<running, timeoutCh, leaving>>
              ELSE /\ Set(c, [k EXCEPT !.pc = IF k.num > 1 THEN "peek" ELSE "active",
                                       !.br = TRUE])
                   /\ UNCHANGED ctxVars
  /\ UNCHANGED <<net, acceptVars, counters, stateVars, shutVars>>

\* The buffered reader is filled with n units that have arrived.
Fill(c, n) ==
  /\ conn[c].pc \in {"peek", "header", "more", "body", "100body"}
  /\ conn[c].buf < (IF At(c, "more") THEN 2 ELSE 1)
  /\ net[c] = "open" /\ n \in 1..conn[c].sock
  /\ Set(c, [conn[c] EXCEPT !.buf = @ + n, !.sock = @ - n])
  /\ UNCHANGED <<net, acceptVars, counters, stateVars, shutVars, ctxVars>>

\* A blocking read returns an error: the connection was closed by either
\* side, or the deadline passed.
ReadFails(c) == net[c] = "closed" \/ (conn[c].eof /\ conn[c].sock = 0) \/ ReadTimeout

\* br.Peek(1): on a keep-alive connection an error ends the loop silently.
Peek(c) ==
  /\ At(c, "peek")
  /\ \/ conn[c].buf > 0 /\ Goto(c, "active")
     \/ conn[c].buf = 0 /\ ReadFails(c) /\ Goto(c, "exit")
  /\ UNCHANGED <<net, acceptVars, counters, stateVars, shutVars, ctxVars>>

\* acquireByteReader: the first byte is read and a RequestCtx acquired again.
ByteReader(c) ==
  /\ At(c, "byte")
  /\ \E x \in Ctxs :
       /\ AcquireCtx(x)
       /\ \/ \E n \in 1..conn[c].sock :
               /\ net[c] = "open"
               /\ Set(c, [conn[c] EXCEPT !.pc = "active", !.ctx = x, !.br = TRUE,
                                         !.buf = @ + n, !.sock = @ - n])
          \/ /\ ReadFails(c)
             /\ Set(c, [conn[c] EXCEPT !.pc = "exit", !.ctx = x])
  /\ UNCHANGED <<net, acceptVars, counters, stateVars, shutVars, running, leaving>>

\* The connection becomes active; setting its deadline may fail.
Active(c) ==
  /\ At(c, "active")
  /\ SetState(c, "active")
  /\ Goto(c, IF ReadTimeout /\ net[c] = "closed" THEN "exit" ELSE "header")
  /\ UNCHANGED <<net, acceptVars, counters, shutVars, ctxVars>>

\* The header is complete in the buffer; the body, if it is not announced by
\* Expect: 100-continue, comes next.
HeaderRead(c) ==
  /\ \/ At(c, "header") /\ conn[c].buf >= 1
     \/ At(c, "more") /\ conn[c].buf >= 2
  /\ \E expect \in BOOLEAN :
       LET k == [conn[c] EXCEPT !.buf = @ - 1]
           drop == ReduceMemoryUsage /\ k.buf = 0
       IN Set(c, [k EXCEPT !.pc = IF expect THEN "expect" ELSE "body",
                           !.br = ~(expect /\ drop)])
  /\ UNCHANGED <<net, acceptVars, counters, stateVars, shutVars, ctxVars>>

\* Mutant of HeaderNeedsMore: buffered responses are not flushed before the wait.
HeaderNeedsMoreNoFlush(c) ==
  /\ At(c, "header") /\ conn[c].buf = 1
  /\ Goto(c, "more")
  /\ UNCHANGED <<net, acceptVars, counters, stateVars, shutVars, ctxVars>>

\* The header is incomplete: responses still in the buffer are flushed before
\* the server waits for the rest of it.
HeaderNeedsMore(c) ==
  /\ At(c, "header") /\ conn[c].buf = 1
  /\ \/ /\ conn[c].held = 0 \/ net[c] = "open"
        /\ Set(c, [conn[c] EXCEPT !.pc = "more", !.held = 0])
     \/ /\ conn[c].held > 0 /\ Broken(c)
        /\ Goto(c, "exit")
  /\ UNCHANGED <<net, acceptVars, counters, stateVars, shutVars, ctxVars>>

\* The client leaves before the first byte: nothing is answered.
HeaderNothing(c) ==
  /\ At(c, "header") /\ conn[c].buf = 0 /\ conn[c].sock = 0
  /\ conn[c].eof /\ net[c] = "open"
  /\ Set(c, [conn[c] EXCEPT !.pc = "exit", !.br = FALSE])
  /\ UNCHANGED <<net, acceptVars, counters, stateVars, shutVars, ctxVars>>

\* The request is malformed or too large, or reading it fails.
ReadError(c) ==
  /\ conn[c].pc \in {"header", "more", "body", "100body"}
  /\ \/ conn[c].pc \in {"body", "100body"} \/ conn[c].buf > 0
     \/ net[c] = "closed" \/ ReadTimeout
  /\ Set(c, [conn[c] EXCEPT !.pc = "error", !.br = FALSE])
  /\ UNCHANGED <<net, acceptVars, counters, stateVars, shutVars, ctxVars>>

\* writeErrorResponse, whose errors are ignored, ends the loop.
WriteError(c) ==
  /\ At(c, "error")
  /\ \/ net[c] = "open" /\ Set(c, [conn[c] EXCEPT !.pc = "exit", !.held = 0])
     \/ Broken(c) /\ Set(c, [conn[c] EXCEPT !.pc = "exit"])
  /\ UNCHANGED <<net, acceptVars, counters, stateVars, shutVars, ctxVars>>

\* The body is read.
BodyRead(c) ==
  /\ conn[c].pc \in {"body", "100body"} /\ conn[c].buf > 0
  /\ LET k == [conn[c] EXCEPT !.buf = @ - 1]
     IN Set(c, [k EXCEPT !.pc = "handle", !.br = ~(ReduceMemoryUsage /\ k.buf = 0)])
  /\ UNCHANGED <<net, acceptVars, counters, stateVars, shutVars, ctxVars>>

\* ContinueHandler denies the body: what the reader holds is thrown away.
ExpectDeny(c) ==
  /\ At(c, "expect") /\ ContinueHandler
  /\ Set(c, [conn[c] EXCEPT !.pc = "handle", !.cont = FALSE, !.buf = 0])
  /\ UNCHANGED <<net, acceptVars, counters, stateVars, shutVars, ctxVars>>

\* ContinueHandler agrees: 100 Continue is written and flushed, with the
\* responses before it, and the body is read.
ExpectContinue(c) ==
  /\ At(c, "expect")
  /\ LET k == [conn[c] EXCEPT !.cont = TRUE]
     IN \/ net[c] = "open" /\ Set(c, [k EXCEPT !.pc = "100body", !.held = 0,
                                                !.br = TRUE])
        \/ Broken(c) /\ Set(c, [k EXCEPT !.pc = "exit"])
  /\ UNCHANGED <<net, acceptVars, counters, stateVars, shutVars, ctxVars>>

-----------------------------------------------------------------------------
(* The handler, TimeoutHandler and the response.                           *)

\* The handler runs in the connection's goroutine, unless the body was denied.
Handle(c) ==
  /\ At(c, "handle") /\ ~(TimeoutHandler /\ conn[c].cont)
  /\ \E h \in {"no"} \cup (IF Hijacks /\ conn[c].cont THEN {"set", "silent"} ELSE {}) :
       Set(c, [conn[c] EXCEPT !.pc = "respond", !.hijack = h])
  /\ UNCHANGED <<net, acceptVars, counters, stateVars, shutVars, ctxVars>>

Slots == Cardinality(running) + leaving

\* TimeoutHandler takes a place in concurrencyCh and starts the handler in a
\* goroutine, or answers StatusTooManyRequests.
TimeoutStart(c) ==
  /\ At(c, "handle") /\ TimeoutHandler /\ conn[c].cont
  /\ IF concurrencyCh /\ Slots < Concurrency
     THEN running' = running \cup {conn[c].ctx} /\ Goto(c, "await")
     ELSE Goto(c, "respond") /\ UNCHANGED running
  /\ UNCHANGED <<net, acceptVars, counters, stateVars, shutVars, pool, timeoutCh, leaving>>

\* TimeoutHandler gave up on x: nobody reads its timeoutCh any more.
Abandoned(x) == \A c \in Conns : conn[c].ctx # x

\* The handler returns: ch <- struct{}{} ...
HandlerReturn(x) ==
  /\ x \in running
  /\ timeoutCh' = [timeoutCh EXCEPT ![x] = ~Abandoned(x)]
  /\ running' = running \ {x}
  /\ leaving' = leaving + 1
  /\ UNCHANGED <<conn, net, acceptVars, counters, stateVars, shutVars, pool>>

\* ... and then <-concurrencyCh.
HandlerLeave ==
  /\ leaving > 0
  /\ leaving' = leaving - 1
  /\ UNCHANGED <<conn, net, acceptVars, counters, stateVars, shutVars, pool, running, timeoutCh>>

TimeoutDone(c) ==
  /\ At(c, "await") /\ timeoutCh[conn[c].ctx]
  /\ timeoutCh' = [timeoutCh EXCEPT ![conn[c].ctx] = FALSE]
  /\ \E h \in {"no"} \cup (IF Hijacks THEN {"set", "silent"} ELSE {}) :
       Set(c, [conn[c] EXCEPT !.pc = "respond", !.hijack = h])
  /\ UNCHANGED <<net, acceptVars, counters, stateVars, shutVars, pool, running, leaving>>

\* Mutant of TimeoutFires: the timed out RequestCtx is used on.
TimeoutFiresReuses(c) ==
  /\ At(c, "await")
  /\ Goto(c, "respond")
  /\ UNCHANGED <<net, acceptVars, counters, stateVars, shutVars, ctxVars>>

\* The timer fires: the RequestCtx is left to the handler, which may still be
\* running, and the response goes out with a new one.
TimeoutFires(c) ==
  /\ At(c, "await")
  /\ \E x \in Ctxs :
       AcquireCtx(x) /\ Set(c, [conn[c] EXCEPT !.pc = "respond", !.ctx = x])
  /\ UNCHANGED <<net, acceptVars, counters, stateVars, shutVars, running, leaving>>

\* The response asks for the connection to be closed: the request, the
\* response, MaxRequestsPerConn or DisableKeepalive do, or CloseOnShutdown.
MustClose == CloseOnShutdown /\ stop

\* c.SetWriteDeadline fails, on a connection that Shutdown has closed.
DeadlineFails(c) == WriteTimeout /\ net[c] = "closed"

\* serveConn panics then.  Nothing recovers, so the program ends here; the
\* model stops this goroutine only and lets the others go on.
RespondPanics(c) ==
  /\ At(c, "respond") /\ DeadlineFails(c)
  /\ Goto(c, "panic")
  /\ UNCHANGED <<net, acceptVars, counters, stateVars, shutVars, ctxVars>>

\* Writing or flushing the response fails.
RespondFail(c) ==
  /\ At(c, "respond") /\ conn[c].hijack # "silent" /\ Broken(c) /\ ~DeadlineFails(c)
  /\ Set(c, [conn[c] EXCEPT !.pc = "exit"])
  /\ UNCHANGED <<net, acceptVars, counters, stateVars, shutVars, ctxVars>>

\* Mutant of RespondClose: only an empty reader makes the response be flushed.
RespondCloseNoFlush(c) ==
  /\ At(c, "respond") /\ conn[c].hijack # "silent" /\ net[c] = "open"
  /\ Set(c, [conn[c] EXCEPT !.pc = "exit", !.held = IF conn[c].buf = 0 THEN 0 ELSE @ + 1])
  /\ UNCHANGED <<net, acceptVars, counters, stateVars, shutVars, ctxVars>>

\* The last response of the connection; a hijack handler is skipped.
RespondClose(c) ==
  /\ At(c, "respond") /\ conn[c].hijack # "silent" /\ net[c] = "open"
  /\ Set(c, [conn[c] EXCEPT !.pc = "exit", !.held = 0])
  /\ UNCHANGED <<net, acceptVars, counters, stateVars, shutVars, ctxVars>>

\* The connection is kept: the response is flushed unless the reader already
\* holds something of the next request.
RespondKeep(c) ==
  /\ At(c, "respond") /\ conn[c].hijack = "no" /\ ~MustClose /\ ~DeadlineFails(c)
  /\ LET flush == ~conn[c].br \/ conn[c].buf = 0 \/ ReduceMemoryUsage
     IN /\ flush => net[c] = "open"
        /\ Set(c, [conn[c] EXCEPT !.pc = "idle", !.held = IF flush THEN 0 ELSE @ + 1])
  /\ UNCHANGED <<net, acceptVars, counters, stateVars, shutVars, ctxVars>>

\* The connection is hijacked, after the response unless HijackSetNoResponse:
\* what is buffered is flushed and the handler's goroutine takes the reader
\* and the RequestCtx.
RespondHijack(c) ==
  /\ At(c, "respond") /\ conn[c].hijack # "no" /\ net[c] = "open"
  /\ conn[c].hijack = "set" => ~MustClose
  /\ Set(c, [conn[c] EXCEPT !.pc = "exit", !.held = 0, !.br = FALSE, !.hijack = "runs"])
  /\ UNCHANGED <<net, acceptVars, counters, stateVars, shutVars, ctxVars>>

\* A hijack handler whose connection fails first is not called.
HijackFail(c) ==
  /\ At(c, "respond") /\ conn[c].hijack = "silent" /\ Broken(c) /\ ~DeadlineFails(c)
  /\ Set(c, [conn[c] EXCEPT !.pc = "exit", !.br = FALSE])
  /\ UNCHANGED <<net, acceptVars, counters, stateVars, shutVars, ctxVars>>

\* hijackConnHandler: the handler returns, the connection is closed (unless
\* KeepHijackedConns) and the RequestCtx released.
HijackReturn(c) ==
  /\ conn[c].hijack = "runs"
  /\ net' = IF KeepHijackedConns THEN net ELSE [net EXCEPT ![c] = "closed"]
  /\ pool' = pool \cup {conn[c].ctx}
  /\ Set(c, [conn[c] EXCEPT !.hijack = "done", !.ctx = NoCtx])
  /\ UNCHANGED <<acceptVars, counters, stateVars, shutVars, running, timeoutCh, leaving>>

\* Mutant of Idle: setState(StateIdle) is left out.
IdleNoState(c) ==
  /\ At(c, "idle")
  /\ Goto(c, "checkStop")
  /\ UNCHANGED <<net, acceptVars, counters, stateVars, shutVars, ctxVars>>

\* The request is over and the connection waits for the next one ...
Idle(c) ==
  /\ At(c, "idle")
  /\ SetState(c, "idle")
  /\ Goto(c, "checkStop")
  /\ UNCHANGED <<net, acceptVars, counters, shutVars, ctxVars>>

\* ... unless the server shuts down.
CheckStop(c) ==
  /\ At(c, "checkStop")
  /\ Goto(c, IF stop THEN "exit" ELSE "loop")
  /\ UNCHANGED <<net, acceptVars, counters, stateVars, shutVars, ctxVars>>

-----------------------------------------------------------------------------
(* The end of a connection.                                                *)

\* serveConn returns: reader and writer are released, with what the writer
\* still holds, and the RequestCtx unless a hijack handler was set ...
Exit(c) ==
  /\ At(c, "exit")
  /\ LET k == conn[c]
     IN /\ Set(c, [k EXCEPT !.pc = "cleanup", !.br = FALSE,
                            !.ctx = IF k.hijack = "runs" THEN k.ctx ELSE NoCtx])
        /\ pool' = IF k.hijack = "no" THEN pool \cup ({k.ctx} \ {NoCtx}) ELSE pool
  /\ UNCHANGED <<net, acceptVars, counters, stateVars, shutVars, running, timeoutCh, leaving>>

\* ... and serveConnCleanup gives up the counts, one after the other.
CleanupOpen(c) ==
  /\ At(c, "cleanup")
  /\ open' = open - 1
  /\ Goto(c, "uncount")
  /\ UNCHANGED <<net, concurrency, acceptVars, stateVars, shutVars, ctxVars>>

CleanupConcurrency(c) ==
  /\ At(c, "uncount")
  /\ concurrency' = concurrency - 1
  /\ Goto(c, "close")
  /\ UNCHANGED <<net, open, acceptVars, stateVars, shutVars, ctxVars>>

Hijacked(c) == conn[c].hijack \in {"runs", "done"}

\* workerFunc or ServeConn closes the connection unless it was hijacked ...
CloseConn(c) ==
  /\ At(c, "close")
  /\ net' = IF Hijacked(c) THEN net ELSE [net EXCEPT ![c] = "closed"]
  /\ concurrency' = IF c \in Direct THEN concurrency - 1 ELSE concurrency
  /\ Goto(c, "report")
  /\ UNCHANGED <<open, acceptVars, stateVars, shutVars, ctxVars>>

\* Mutant of Report: only hijacked connections report their last state.
ReportHijacked(c) ==
  /\ At(c, "report")
  /\ IF Hijacked(c) THEN SetState(c, "hijacked") ELSE UNCHANGED stateVars
  /\ IF c \in Direct THEN Gone(c) ELSE Goto(c, "worker")
  /\ UNCHANGED <<net, acceptVars, counters, shutVars, ctxVars>>

\* ... and reports its last state.
Report(c) ==
  /\ At(c, "report")
  /\ SetState(c, IF Hijacked(c) THEN "hijacked" ELSE "closed")
  /\ IF c \in Direct THEN Gone(c) ELSE Goto(c, "worker")
  /\ UNCHANGED <<net, acceptVars, counters, shutVars, ctxVars>>

\* The worker is ready for another connection.
WorkerReady(c) ==
  /\ At(c, "worker")
  /\ Gone(c)
  /\ UNCHANGED <<net, acceptVars, counters, stateVars, shutVars, ctxVars>>

-----------------------------------------------------------------------------
(* ShutdownWithContext.  It holds s.mu until it returns.                   *)

Shutdown ==
  /\ shpc = "off"
  /\ shpc' = "close" /\ stop' = TRUE /\ shres' = "none"
  /\ UNCHANGED <<conn, net, acceptVars, counters, stateVars, listener, concurrencyCh,
                 ctxVars>>

\* Without a listener (s.ln is nil) it returns nil at once: s.stop was set for
\* a moment only.
ShutdownNoListener ==
  /\ shpc = "close" /\ listener = "none"
  /\ shpc' = "off" /\ stop' = FALSE /\ shres' = "nil"
  /\ UNCHANGED <<conn, net, acceptVars, counters, stateVars, listener, concurrencyCh,
                 ctxVars>>

\* Closing a listener that is closed already fails, and Shutdown returns.
ShutdownCloseError ==
  /\ shpc = "close" /\ listener = "closed"
  /\ shpc' = "off" /\ stop' = FALSE /\ shres' = "err"
  /\ UNCHANGED <<conn, net, acceptVars, counters, stateVars, listener, concurrencyCh,
                 ctxVars>>

ShutdownClose ==
  /\ shpc = "close" /\ listener = "open"
  /\ listener' = "closed" /\ shpc' = "sweep"
  /\ UNCHANGED <<conn, net, acceptVars, counters, stateVars, stop, concurrencyCh, shres,
                 ctxVars>>

\* closeIdleConns: the idle connections, and the new ones of more than five
\* seconds (old), are closed and forgotten.
CloseIdleConns(old) ==
  /\ shpc = "sweep" /\ \A c \in old : idleConns[c] = "new"
  /\ LET closed == {c \in Conns : idleConns[c] = "idle"} \cup old
     IN /\ net' = [c \in Conns |-> IF c \in closed THEN "closed" ELSE net[c]]
        /\ idleConns' = [c \in Conns |-> IF c \in closed THEN "no" ELSE idleConns[c]]
  /\ shpc' = "check"
  /\ UNCHANGED <<conn, connState, acceptVars, counters, listener, stop, concurrencyCh,
                 shres, ctxVars>>

\* s.open is zero, or the context is done, and Shutdown returns.
ShutdownReturn(r) ==
  /\ \/ r = "nil" /\ shpc = "check" /\ open = 0
     \/ r = "ctx" /\ shpc = "wait" /\ Deadline
  /\ shpc' = "off" /\ stop' = FALSE /\ shres' = r
  /\ listener' = "none"
  /\ UNCHANGED <<conn, net, acceptVars, counters, stateVars, concurrencyCh, ctxVars>>

ShutdownWait ==
  /\ shpc = "check" /\ open # 0
  /\ shpc' = "wait"
  /\ UNCHANGED <<conn, net, acceptVars, counters, stateVars, listener, stop,
                 concurrencyCh, shres, ctxVars>>

\* The ticker ticks.
ShutdownTick ==
  /\ shpc = "wait"
  /\ shpc' = "sweep"
  /\ UNCHANGED <<conn, net, acceptVars, counters, stateVars, listener, stop,
                 concurrencyCh, shres, ctxVars>>

-----------------------------------------------------------------------------
ClientNext(c) == ClientSend(c) \/ ClientClose(c)

ServeNext ==
  \/ Serve \/ ServeCount \/ AcceptCount \/ Handoff
  \/ HandoffRefused \/ RefusedCount \/ RefusedClose \/ RefusedState \/ AcceptError
  \/ CloseListener \/ \E c \in Conns : Accept(c)

\* The goroutine of connection c.
ConnNext(c) ==
  \/ ServeConnOpen(c) \/ ServeConnRefused(c) \/ Start(c) \/ Loop(c)
  \/ (\E n \in 1..conn[c].sock : Fill(c, n)) \/ Peek(c) \/ ByteReader(c) \/ Active(c)
  \/ HeaderRead(c) \/ HeaderNeedsMore(c) \/ HeaderNothing(c) \/ ReadError(c) \/ WriteError(c)
  \/ BodyRead(c) \/ ExpectDeny(c) \/ ExpectContinue(c)
  \/ Handle(c) \/ TimeoutStart(c) \/ TimeoutDone(c) \/ TimeoutFires(c)
  \/ RespondPanics(c) \/ RespondFail(c) \/ RespondClose(c) \/ RespondKeep(c)
  \/ RespondHijack(c) \/ HijackFail(c) \/ Idle(c) \/ CheckStop(c)
  \/ Exit(c) \/ CleanupOpen(c) \/ CleanupConcurrency(c) \/ CloseConn(c) \/ Report(c) \/ WorkerReady(c)

HandlerNext == (\E x \in Ctxs : HandlerReturn(x)) \/ HandlerLeave

ShutdownNext ==
  \/ ShutdownNoListener \/ ShutdownCloseError \/ ShutdownClose
  \/ (\E old \in SUBSET Conns : CloseIdleConns(old))
  \/ ShutdownReturn("nil") \/ ShutdownWait \/ ShutdownTick

Next ==
  \/ \E c \in Conns : ClientNext(c) \/ ServeConn(c) \/ ConnNext(c) \/ HijackReturn(c)
  \/ ServeNext \/ HandlerNext
  \/ Shutdown \/ ShutdownNext \/ ShutdownReturn("ctx")

\* Runnable goroutines run, handlers return and the ticker ticks.  Clients
\* need not send anything, nobody has to call Serve, ServeConn or Shutdown,
\* and the context of Shutdown need not expire.
Fairness ==
  /\ \A c \in Conns : WF_vars(ConnNext(c))
  /\ \A x \in Ctxs : WF_vars(HandlerReturn(x))
  /\ WF_vars(HandlerLeave)
  /\ WF_vars(ServeCount \/ AcceptCount \/ Handoff \/ HandoffRefused \/ RefusedCount
             \/ RefusedClose \/ RefusedState \/ AcceptError)
  /\ WF_vars(ShutdownNext)

Spec == Init /\ [][Next]_vars

FairSpec == Spec /\ Fairness

-----------------------------------------------------------------------------
(* Properties.                                                             *)

\* Every variable has the type of the field or local it models.
TypeOK ==
  /\ conn \in [Conns ->
       [pc : PCs, sent : Nat, eof : BOOLEAN, sock : Nat, buf : Nat, num : 0..2, held : Nat,
        br : BOOLEAN, cont : BOOLEAN, ctx : Ctxs \cup {NoCtx},
        hijack : {"no", "set", "silent", "runs", "done"}]]
  /\ net \in [Conns -> {"open", "closed"}]
  /\ idleConns \in [Conns -> {"no", "new", "idle"}]
  /\ connState \in [Conns -> ConnStates]
  /\ open \in Nat /\ concurrency \in Nat
  /\ spc \in {"off", "registered", "accept", "accepted", "handoff", "refused", "dropped", "closed"}
  /\ acc \in Conns \cup {NoConn}
  /\ listener \in {"none", "open", "closed"}
  /\ stop \in BOOLEAN /\ concurrencyCh \in BOOLEAN
  /\ shpc \in {"off", "close", "sweep", "check", "wait"}
  /\ shres \in {"none", "nil", "err", "ctx"}
  /\ pool \subseteq Ctxs /\ running \subseteq Ctxs
  /\ timeoutCh \in [Ctxs -> BOOLEAN] /\ leaving \in Nat

\* The connections that count as open, those counted by serveConn and those
\* counted by ServeConn.
Unserved ==
  {"none", "accepted", "over", "counted", "uncount", "close", "report", "worker", "gone"}
Served == {c \in Conns : conn[c].pc \notin Unserved}
Started == {c \in Conns : conn[c].pc \notin (Unserved \ {"uncount"}) \cup {"start"}}
Passed == {c \in Direct :
             conn[c].pc \notin Unserved \ {"over", "counted", "uncount", "close"}}
InService == Started \cup Passed

\* The accept loop counts as one open connection, and as another one while it
\* holds a connection that it has counted.
LoopOpen ==
  IF spc \in {"off", "registered"} THEN 0 ELSE IF spc \in {"handoff", "refused"} THEN 2 ELSE 1

\* s.open and s.concurrency are exact over every way a connection can end:
\* Shutdown waits for s.open to become zero, and s.concurrency is the number
\* of currently served connections (GetCurrentConcurrency), each counted once.
\* It fails for a connection of ServeConn, which is counted there and in serveConn.
CountersExact ==
  /\ open = Cardinality(Served) + LoopOpen
  /\ concurrency = Cardinality(InService)

\* A RequestCtx is used by one connection, hijack handler or timed out
\* handler only and is in the pool only when none uses it; no handler starts
\* with the token of an earlier one in its timeoutCh.
CtxExclusive ==
  \A c \in Conns :
    conn[c].ctx # NoCtx =>
      /\ conn[c].ctx \notin pool
      /\ \A d \in Conns : conn[d].ctx = conn[c].ctx => d = c
      /\ conn[c].ctx \in running => At(c, "await")
      /\ At(c, "handle") => ~timeoutCh[conn[c].ctx]

\* s.idleConns never holds a connection whose request is being read, handled
\* or answered, so Shutdown does not close it, nor one that has ended.
IdleTracked ==
  \A c \in Conns :
    idleConns[c] # "no" =>
      conn[c].pc \in {"accepted", "start", "loop", "peek", "byte", "active", "checkStop", "exit",
                      "cleanup", "uncount", "close", "report"}

\* A response that was written is flushed before the connection ends, unless
\* the client is gone or the server shut down in the meantime.
AnsweredUnlessShutdown ==
  \A c \in Conns :
    conn[c].pc \in {"cleanup", "uncount", "close", "report", "worker", "gone"} /\ ~conn[c].eof =>
      conn[c].held = 0 \/ shpc # "off" \/ shres # "none"

\* "If we have to wait for the next request we flush the outgoing buffer first
\* so it doesn't have to wait" (serveConn): no response is held back while
\* the server waits for a client to send the next header.
NothingHeldBack ==
  \A c \in Conns :
    \/ conn[c].pc \in {"peek", "header"} /\ conn[c].buf = 0
    \/ At(c, "byte") \/ At(c, "more")
    => conn[c].held = 0

\* Shutdown returns nil only when every connection Serve accepted has been
\* served: even one that was accepted just before the listener was closed.
DrainedOnReturn ==
  [][shpc = "check" /\ shpc' = "off" =>
       \A c \in Conns \ Direct : c \notin Served /\ ~At(c, "accepted")]_vars

\* The transitions the ConnState constants document: "Connections begin at
\* this state [StateNew] and then transition to either StateActive or
\* StateClosed", active and idle take turns, closed and hijacked are final.
\* It fails for a connection of ServeConn, of which StateNew is never reported.
StateOrder ==
  [][\A c \in Conns :
       /\ connState'[c] # connState[c] =>
            <<connState[c], connState'[c]>> \in
              {<<"none", "new">>, <<"new", "active">>, <<"new", "closed">>,
               <<"active", "idle">>, <<"active", "hijacked">>, <<"active", "closed">>,
               <<"idle", "active">>, <<"idle", "closed">>}
       /\ At(c, "active") => connState[c] # "active"]_vars

\* Shutdown returns, once the clients that keep a connection busy are timed
\* out (ReadTimeout, as its documentation recommends).
ShutdownEnds == (shpc # "off") ~> (shpc = "off")

=============================================================================
