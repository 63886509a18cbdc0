---------------------------- MODULE ServerProofs ----------------------------
(***************************************************************************)
(* Proofs about Server, for any number of connections, requests and        *)
(* RequestCtxs and every setting of the server.                            *)
(*                                                                         *)
(* The inductive invariant says of each connection what its place in       *)
(* serveConn implies for the last state it reported, the responses still   *)
(* in the writer, a hijack handler and the network (GoodConn), of each     *)
(* RequestCtx that one connection at most has it and when its timeoutCh    *)
(* may hold a token (CtxInv), where the accept loop is (AcceptInv), and    *)
(* what the counters are (CountersAre): a connection of ServeConn counts   *)
(* twice in s.concurrency.                                                 *)
(***************************************************************************)
EXTENDS Server, FiniteSetTheorems, TLAPS

\* Shutdown has been called.
Began == shpc # "off" \/ shres # "none"

Rec ==
  [pc : PCs, sent : Nat, eof : BOOLEAN, sock : Nat, buf : Nat, num : 0..2, held : Nat,
   br : BOOLEAN, cont : BOOLEAN, ctx : Ctxs \cup {NoCtx},
   hijack : {"no", "set", "silent", "runs", "done"}]

\* The stages of a connection: waiting for a request, reading and answering it,
\* and on its way out.
Between == {"start", "loop", "peek", "byte", "active", "checkStop"}
Serving == {"header", "more", "body", "error", "expect", "100body", "handle", "await",
            "respond", "idle"}
Ending == {"exit", "cleanup", "uncount", "close", "report", "worker", "gone"}

\* All connections come from Serve.
NoDirect == Direct = {}

\* The last state reported.
GoodState(k, s) ==
  /\ k.pc \in {"none", "over", "counted"} => s = "none"
  /\ k.pc \notin {"none", "over", "counted"} /\ NoDirect => s # "none"
  /\ k.pc = "accepted" => s = "new"
  /\ k.pc \in Between => s \in {"none", "new", "idle"}
  /\ k.pc \in Serving => s = "active"
  /\ k.pc \in {"exit", "cleanup", "uncount", "close", "report"} =>
       /\ s \in {"none", "new", "idle", "active"}
       /\ k.hijack \in {"runs", "done"} => s = "active"

\* s.idleConns.
GoodIdle(k, i) ==
  i # "no" => k.pc \in {"accepted", "start", "loop", "peek", "byte", "active", "checkStop",
                        "exit", "cleanup", "uncount", "close", "report"}

\* The responses in the writer: there are some only while the reader holds a
\* part of the next request, or after an error or Shutdown.
GoodHeld(k, b) ==
  /\ k.pc \in {"none", "accepted", "over", "counted", "start", "byte", "more", "gone"} =>
       k.held = 0
  /\ k.pc \in {"idle", "checkStop", "loop", "active", "peek", "header"} /\ k.held # 0 =>
       k.buf > 0 /\ ~ReduceMemoryUsage
  /\ k.pc \in Ending /\ ~k.eof => k.held = 0 \/ b

\* A hijack handler, and the RequestCtx.
GoodHijack(k) ==
  /\ k.hijack # "no" => k.pc \in {"respond", "panic"} \cup Ending
  /\ k.hijack \in {"runs", "done"} => k.pc \in Ending
  /\ k.hijack = "runs" => k.ctx # NoCtx
  /\ k.pc \in (Between \cup Serving) \ {"start", "byte"} => k.ctx # NoCtx

\* The server closes a connection it serves only when it shuts down.
GoodNet(k, n, b) == n = "closed" /\ ~b => k.pc = "accepted" \/ k.pc \in Ending

GoodConn(k, n, i, s, b) ==
  /\ k \in Rec
  /\ GoodState(k, s) /\ GoodIdle(k, i) /\ GoodHeld(k, b) /\ GoodHijack(k) /\ GoodNet(k, n, b)

ConnsGood == \A c \in Conns : GoodConn(conn[c], net[c], idleConns[c], connState[c], Began)

CtxInv ==
  /\ pool \cap running = {}
  /\ \A c \in Conns : conn[c].ctx # NoCtx =>
       /\ conn[c].ctx \notin pool
       /\ \A d \in Conns : conn[d].ctx = conn[c].ctx => d = c
       /\ conn[c].ctx \in running => At(c, "await")
  /\ \A x \in Ctxs : timeoutCh[x] =>
       x \notin pool \cup running /\ \A c \in Conns : conn[c].ctx = x => At(c, "await")

\* The accept loop holds a connection.
Holding == {"accepted", "handoff", "refused", "dropped", "closed"}

AcceptInv ==
  /\ spc \in Holding => acc \in Conns \ Direct /\ At(acc, "accepted")
  /\ \A c \in Conns : At(c, "accepted") => spc \in Holding /\ acc = c
  /\ \A c \in Conns : conn[c].pc \in {"over", "counted"} => c \in Direct
  /\ spc \in {"accepted", "handoff"} => net[acc] = "open" \/ Began
  /\ stop => Began

CountersAre ==
  /\ open = Cardinality(Served) + LoopOpen
  /\ concurrency = Cardinality(Started) + Cardinality(Passed)

ServerInv == TypeOK /\ ConnsGood /\ CtxInv /\ AcceptInv /\ CountersAre

-----------------------------------------------------------------------------
(* Steps of one connection.                                                *)

\* The places where a goroutine runs serveConn and TimeoutHandler does not
\* have its RequestCtx.
Quiet == (Between \cup Serving \cup {"panic", "exit"}) \ {"start", "await"}

\* What the typing of a connection's record says of each of its fields.
LEMMA RecFields ==
  ASSUME NEW k \in Rec
  PROVE  /\ k.pc \in PCs /\ k.sent \in Nat /\ k.eof \in BOOLEAN /\ k.sock \in Nat
         /\ k.buf \in Nat /\ k.num \in 0..2 /\ k.held \in Nat /\ k.br \in BOOLEAN
         /\ k.cont \in BOOLEAN /\ k.ctx \in Ctxs \cup {NoCtx}
         /\ k.hijack \in {"no", "set", "silent", "runs", "done"}
  BY DEF Rec

\* A step of c that leaves the counters, the RequestCtxs and the server alone.
LEMMA LocalStep ==
  ASSUME ServerInv, NEW c \in Conns, NEW k, Set(c, k),
         GoodConn(k, net[c], idleConns'[c], connState'[c], Began), k.ctx = conn[c].ctx,
         k.pc = conn[c].pc \/ (conn[c].pc \in Quiet /\ k.pc \in Quiet),
         idleConns' \in [Conns -> {"no", "new", "idle"}], connState' \in [Conns -> ConnStates],
         \A d \in Conns : d # c => idleConns'[d] = idleConns[d] /\ connState'[d] = connState[d],
         UNCHANGED <<net, acceptVars, counters, shutVars, ctxVars>>
  PROVE  ServerInv'
<1> USE DEF acceptVars, counters, shutVars, ctxVars
<1>0. /\ conn \in [Conns -> Rec] /\ k \in Rec
      /\ Began' = Began
  BY DEF ServerInv, TypeOK, GoodConn, Rec, Began
<1>1. conn' \in [Conns -> Rec] /\ conn'[c] = k /\ \A d \in Conns : d # c => conn'[d] = conn[d]
  BY <1>0 DEF Set
<1>2. TypeOK'
  BY <1>1 DEF ServerInv, TypeOK, Rec
<1>3. ConnsGood'
  BY <1>0, <1>1 DEF ServerInv, ConnsGood
<1>4. \A d \in Conns : /\ conn'[d].ctx = conn[d].ctx
                       /\ At(d, "await")' <=> At(d, "await")
                       /\ At(d, "start")' <=> At(d, "start")
                       /\ At(d, "accepted")' <=> At(d, "accepted")
                       /\ conn'[d].pc \in {"over", "counted"} <=> conn[d].pc \in {"over", "counted"}
                       /\ conn'[d].pc \in Unserved <=> conn[d].pc \in Unserved
                       /\ \A l \in Unserved : conn'[d].pc = l <=> conn[d].pc = l
  BY <1>1 DEF At, Quiet, Between, Serving, Unserved
<1>5. CtxInv'
  BY <1>4 DEF ServerInv, CtxInv
<1>6. AcceptInv'
  <2>1. acc \in Conns => (At(acc, "accepted")' <=> At(acc, "accepted"))
    BY <1>4 DEF At
  <2> QED
    BY <1>0, <1>4, <2>1 DEF ServerInv, AcceptInv, At
<1>7. CountersAre'
  <2>1. Served' = Served
    BY <1>4 DEF Served
  <2>2. Started' = Started
    BY <1>4 DEF Started, At, Unserved
  <2>3. Passed' = Passed
    BY <1>4, ServerAssumption DEF Passed, Unserved
  <2>4. LoopOpen' = LoopOpen
    BY DEF LoopOpen
  <2> QED
    BY <2>1, <2>2, <2>3, <2>4 DEF ServerInv, CountersAre
<1> QED
  BY <1>2, <1>3, <1>5, <1>6, <1>7 DEF ServerInv

\* The same, for a step that reports no state.
LEMMA SilentStep ==
  ASSUME ServerInv, NEW c \in Conns, NEW k \in Rec, Set(c, k), k.ctx = conn[c].ctx,
         k.pc = conn[c].pc \/ (conn[c].pc \in Quiet /\ k.pc \in Quiet),
         GoodState(k, connState[c]), GoodIdle(k, idleConns[c]), GoodHeld(k, Began),
         GoodHijack(k), GoodNet(k, net[c], Began),
         UNCHANGED <<net, acceptVars, counters, stateVars, shutVars, ctxVars>>
  PROVE  ServerInv'
<1>1. GoodConn(k, net[c], idleConns'[c], connState'[c], Began)
  BY DEF GoodConn, stateVars
<1>2. /\ idleConns' \in [Conns -> {"no", "new", "idle"}] /\ connState' \in [Conns -> ConnStates]
      /\ \A d \in Conns : d # c => idleConns'[d] = idleConns[d] /\ connState'[d] = connState[d]
  BY DEF ServerInv, TypeOK, stateVars
<1> QED
  BY <1>1, <1>2, LocalStep

\* What the invariant says of one connection.
LEMMA Known ==
  ASSUME ServerInv, NEW c \in Conns
  PROVE  /\ conn[c] \in Rec /\ GoodState(conn[c], connState[c]) /\ GoodIdle(conn[c], idleConns[c])
         /\ GoodHeld(conn[c], Began) /\ GoodHijack(conn[c]) /\ GoodNet(conn[c], net[c], Began)
  BY DEF ServerInv, ConnsGood, GoodConn

\* The client sends.
LEMMA ClientSendStep ==
  ASSUME ServerInv, NEW c \in Conns, ClientSend(c)
  PROVE  ServerInv'
<1> DEFINE k == [conn[c] EXCEPT !.sent = @ + 1, !.sock = @ + 1]
<1>1. /\ Set(c, k) /\ UNCHANGED <<net, acceptVars, counters, stateVars, shutVars, ctxVars>>
      /\ ~conn[c].eof
  BY DEF ClientSend, At
<1>2. conn[c] \in Rec /\ conn[c].sent + 1 \in Nat /\ conn[c].sock + 1 \in Nat
  BY <1>1, Known, RecFields DEF PCs
<1>3. k \in Rec
  BY <1>2, Zenon DEF Rec
<1>4. /\ k.ctx = conn[c].ctx /\ k.pc = conn[c].pc
      /\ GoodState(k, connState[c]) /\ GoodIdle(k, idleConns[c]) /\ GoodHeld(k, Began)
      /\ GoodHijack(k) /\ GoodNet(k, net[c], Began)
  BY <1>1, Known, RecFields DEF GoodState, GoodIdle, GoodHeld, GoodHijack, GoodNet, Rec, Quiet, Between, Serving, Ending
<1> QED
  BY <1>1, <1>3, <1>4, SilentStep

\* The client closes its end.
LEMMA ClientCloseStep ==
  ASSUME ServerInv, NEW c \in Conns, ClientClose(c)
  PROVE  ServerInv'
<1> DEFINE k == [conn[c] EXCEPT !.eof = TRUE]
<1>1. /\ Set(c, k) /\ UNCHANGED <<net, acceptVars, counters, stateVars, shutVars, ctxVars>>
      /\ ~conn[c].eof
  BY DEF ClientClose, At
<1>2. conn[c] \in Rec /\ TRUE \in BOOLEAN
  BY <1>1, Known, RecFields DEF PCs
<1>3. k \in Rec
  BY <1>2, Zenon DEF Rec
<1>4. /\ k.ctx = conn[c].ctx /\ k.pc = conn[c].pc
      /\ GoodState(k, connState[c]) /\ GoodIdle(k, idleConns[c]) /\ GoodHeld(k, Began)
      /\ GoodHijack(k) /\ GoodNet(k, net[c], Began)
  BY <1>1, Known, RecFields DEF GoodState, GoodIdle, GoodHeld, GoodHijack, GoodNet, Rec, Quiet, Between, Serving, Ending
<1> QED
  BY <1>1, <1>3, <1>4, SilentStep

\* The reader is filled.
LEMMA FillStep ==
  ASSUME ServerInv, NEW c \in Conns, NEW n, Fill(c, n)
  PROVE  ServerInv'
<1> DEFINE k == [conn[c] EXCEPT !.buf = @ + n, !.sock = @ - n]
<1>1. /\ Set(c, k) /\ UNCHANGED <<net, acceptVars, counters, stateVars, shutVars, ctxVars>>
      /\ n \in 1..conn[c].sock
  BY DEF Fill, At
<1>2. conn[c] \in Rec /\ conn[c].buf + n \in Nat /\ conn[c].sock - n \in Nat
  BY <1>1, Known, RecFields DEF PCs
<1>3. k \in Rec
  BY <1>2, Zenon DEF Rec
<1>4. /\ k.ctx = conn[c].ctx /\ k.pc = conn[c].pc
      /\ GoodState(k, connState[c]) /\ GoodIdle(k, idleConns[c]) /\ GoodHeld(k, Began)
      /\ GoodHijack(k) /\ GoodNet(k, net[c], Began)
  BY <1>1, Known, RecFields DEF GoodState, GoodIdle, GoodHeld, GoodHijack, GoodNet, Rec, Quiet, Between, Serving, Ending
<1> QED
  BY <1>1, <1>3, <1>4, SilentStep

\* The first byte of the next request is there, or never comes.
LEMMA PeekStep ==
  ASSUME ServerInv, NEW c \in Conns, Peek(c)
  PROVE  ServerInv'
<1>1. UNCHANGED <<net, acceptVars, counters, stateVars, shutVars, ctxVars>>
  BY DEF Peek
<1>2. CASE /\ conn[c].pc = "peek"
           /\ Set(c, [conn[c] EXCEPT !.pc = "active"])
  <2> DEFINE k == [conn[c] EXCEPT !.pc = "active"]
  <2>1. conn[c] \in Rec /\ "active" \in PCs
    BY <1>2, Known, RecFields DEF PCs
  <2>2. k \in Rec
    BY <2>1, Zenon DEF Rec
  <2>3. /\ k.ctx = conn[c].ctx /\ k.pc \in Quiet /\ conn[c].pc \in Quiet
      /\ GoodState(k, connState[c]) /\ GoodIdle(k, idleConns[c]) /\ GoodHeld(k, Began)
      /\ GoodHijack(k) /\ GoodNet(k, net[c], Began)
    BY <1>2, Known, RecFields DEF GoodState, GoodIdle, GoodHeld, GoodHijack, GoodNet, Rec, Quiet, Between, Serving, Ending
  <2> QED
    BY <1>1, <1>2, <2>2, <2>3, SilentStep
<1>3. CASE /\ conn[c].pc = "peek" /\ conn[c].buf = 0
           /\ Set(c, [conn[c] EXCEPT !.pc = "exit"])
  <2> DEFINE k == [conn[c] EXCEPT !.pc = "exit"]
  <2>1. conn[c] \in Rec /\ "exit" \in PCs
    BY <1>3, Known, RecFields DEF PCs
  <2>2. k \in Rec
    BY <2>1, Zenon DEF Rec
  <2>3. /\ k.ctx = conn[c].ctx /\ k.pc \in Quiet /\ conn[c].pc \in Quiet
      /\ GoodState(k, connState[c]) /\ GoodIdle(k, idleConns[c]) /\ GoodHeld(k, Began)
      /\ GoodHijack(k) /\ GoodNet(k, net[c], Began)
    BY <1>3, Known, RecFields DEF GoodState, GoodIdle, GoodHeld, GoodHijack, GoodNet, Rec, Quiet, Between, Serving, Ending
  <2> QED
    BY <1>1, <1>3, <2>2, <2>3, SilentStep
<1> QED
  BY <1>2, <1>3 DEF Peek, At, Goto

\* The header is incomplete.
LEMMA HeaderNeedsMoreStep ==
  ASSUME ServerInv, NEW c \in Conns, HeaderNeedsMore(c)
  PROVE  ServerInv'
<1>1. UNCHANGED <<net, acceptVars, counters, stateVars, shutVars, ctxVars>>
  BY DEF HeaderNeedsMore
<1>2. CASE /\ conn[c].pc = "header"
           /\ Set(c, [conn[c] EXCEPT !.pc = "more", !.held = 0])
  <2> DEFINE k == [conn[c] EXCEPT !.pc = "more", !.held = 0]
  <2>1. conn[c] \in Rec /\ "more" \in PCs /\ 0 \in Nat
    BY <1>2, Known, RecFields DEF PCs
  <2>2. k \in Rec
    BY <2>1, Zenon DEF Rec
  <2>3. /\ k.ctx = conn[c].ctx /\ k.pc \in Quiet /\ conn[c].pc \in Quiet
      /\ GoodState(k, connState[c]) /\ GoodIdle(k, idleConns[c]) /\ GoodHeld(k, Began)
      /\ GoodHijack(k) /\ GoodNet(k, net[c], Began)
    BY <1>2, Known, RecFields DEF GoodState, GoodIdle, GoodHeld, GoodHijack, GoodNet, Rec, Quiet, Between, Serving, Ending
  <2> QED
    BY <1>1, <1>2, <2>2, <2>3, SilentStep
<1>3. CASE /\ conn[c].pc = "header" /\ (net[c] = "closed" \/ conn[c].eof)
           /\ Set(c, [conn[c] EXCEPT !.pc = "exit"])
  <2> DEFINE k == [conn[c] EXCEPT !.pc = "exit"]
  <2>1. conn[c] \in Rec /\ "exit" \in PCs
    BY <1>3, Known, RecFields DEF PCs
  <2>2. k \in Rec
    BY <2>1, Zenon DEF Rec
  <2>3. /\ k.ctx = conn[c].ctx /\ k.pc \in Quiet /\ conn[c].pc \in Quiet
      /\ GoodState(k, connState[c]) /\ GoodIdle(k, idleConns[c]) /\ GoodHeld(k, Began)
      /\ GoodHijack(k) /\ GoodNet(k, net[c], Began)
    BY <1>3, Known, RecFields DEF GoodState, GoodIdle, GoodHeld, GoodHijack, GoodNet, Rec, Quiet, Between, Serving, Ending
  <2> QED
    BY <1>1, <1>3, <2>2, <2>3, SilentStep
<1> QED
  BY <1>2, <1>3 DEF HeaderNeedsMore, At, Broken, Goto

\* The client leaves before the first byte.
LEMMA HeaderNothingStep ==
  ASSUME ServerInv, NEW c \in Conns, HeaderNothing(c)
  PROVE  ServerInv'
<1> DEFINE k == [conn[c] EXCEPT !.pc = "exit", !.br = FALSE]
<1>1. /\ Set(c, k) /\ UNCHANGED <<net, acceptVars, counters, stateVars, shutVars, ctxVars>>
      /\ conn[c].pc = "header" /\ conn[c].buf = 0
  BY DEF HeaderNothing, At
<1>2. conn[c] \in Rec /\ "exit" \in PCs /\ FALSE \in BOOLEAN
  BY <1>1, Known, RecFields DEF PCs
<1>3. k \in Rec
  BY <1>2, Zenon DEF Rec
<1>4. /\ k.ctx = conn[c].ctx /\ k.pc \in Quiet /\ conn[c].pc \in Quiet
      /\ GoodState(k, connState[c]) /\ GoodIdle(k, idleConns[c]) /\ GoodHeld(k, Began)
      /\ GoodHijack(k) /\ GoodNet(k, net[c], Began)
  BY <1>1, Known, RecFields DEF GoodState, GoodIdle, GoodHeld, GoodHijack, GoodNet, Rec, Quiet, Between, Serving, Ending
<1> QED
  BY <1>1, <1>3, <1>4, SilentStep

\* Reading the request fails.
LEMMA ReadErrorStep ==
  ASSUME ServerInv, NEW c \in Conns, ReadError(c)
  PROVE  ServerInv'
<1> DEFINE k == [conn[c] EXCEPT !.pc = "error", !.br = FALSE]
<1>1. /\ Set(c, k) /\ UNCHANGED <<net, acceptVars, counters, stateVars, shutVars, ctxVars>>
      /\ conn[c].pc \in {"header", "more", "body", "100body"}
  BY DEF ReadError, At
<1>2. conn[c] \in Rec /\ "error" \in PCs /\ FALSE \in BOOLEAN
  BY <1>1, Known, RecFields DEF PCs
<1>3. k \in Rec
  BY <1>2, Zenon DEF Rec
<1>4. /\ k.ctx = conn[c].ctx /\ k.pc \in Quiet /\ conn[c].pc \in Quiet
      /\ GoodState(k, connState[c]) /\ GoodIdle(k, idleConns[c]) /\ GoodHeld(k, Began)
      /\ GoodHijack(k) /\ GoodNet(k, net[c], Began)
  BY <1>1, Known, RecFields DEF GoodState, GoodIdle, GoodHeld, GoodHijack, GoodNet, Rec, Quiet, Between, Serving, Ending
<1> QED
  BY <1>1, <1>3, <1>4, SilentStep

\* The error response is written, or it cannot be.
LEMMA WriteErrorStep ==
  ASSUME ServerInv, NEW c \in Conns, WriteError(c)
  PROVE  ServerInv'
<1>1. UNCHANGED <<net, acceptVars, counters, stateVars, shutVars, ctxVars>>
  BY DEF WriteError
<1>2. CASE /\ conn[c].pc = "error"
           /\ Set(c, [conn[c] EXCEPT !.pc = "exit", !.held = 0])
  <2> DEFINE k == [conn[c] EXCEPT !.pc = "exit", !.held = 0]
  <2>1. conn[c] \in Rec /\ "exit" \in PCs /\ 0 \in Nat
    BY <1>2, Known, RecFields DEF PCs
  <2>2. k \in Rec
    BY <2>1, Zenon DEF Rec
  <2>3. /\ k.ctx = conn[c].ctx /\ k.pc \in Quiet /\ conn[c].pc \in Quiet
      /\ GoodState(k, connState[c]) /\ GoodIdle(k, idleConns[c]) /\ GoodHeld(k, Began)
      /\ GoodHijack(k) /\ GoodNet(k, net[c], Began)
    BY <1>2, Known, RecFields DEF GoodState, GoodIdle, GoodHeld, GoodHijack, GoodNet, Rec, Quiet, Between, Serving, Ending
  <2> QED
    BY <1>1, <1>2, <2>2, <2>3, SilentStep
<1>3. CASE /\ conn[c].pc = "error" /\ (net[c] = "closed" \/ conn[c].eof)
           /\ Set(c, [conn[c] EXCEPT !.pc = "exit"])
  <2> DEFINE k == [conn[c] EXCEPT !.pc = "exit"]
  <2>1. conn[c] \in Rec /\ "exit" \in PCs
    BY <1>3, Known, RecFields DEF PCs
  <2>2. k \in Rec
    BY <2>1, Zenon DEF Rec
  <2>3. /\ k.ctx = conn[c].ctx /\ k.pc \in Quiet /\ conn[c].pc \in Quiet
      /\ GoodState(k, connState[c]) /\ GoodIdle(k, idleConns[c]) /\ GoodHeld(k, Began)
      /\ GoodHijack(k) /\ GoodNet(k, net[c], Began)
    BY <1>3, Known, RecFields DEF GoodState, GoodIdle, GoodHeld, GoodHijack, GoodNet, Rec, Quiet, Between, Serving, Ending
  <2> QED
    BY <1>1, <1>3, <2>2, <2>3, SilentStep
<1> QED
  BY <1>2, <1>3 DEF WriteError, At, Broken, Goto

\* The body is denied.
LEMMA ExpectDenyStep ==
  ASSUME ServerInv, NEW c \in Conns, ExpectDeny(c)
  PROVE  ServerInv'
<1> DEFINE k == [conn[c] EXCEPT !.pc = "handle", !.cont = FALSE, !.buf = 0]
<1>1. /\ Set(c, k) /\ UNCHANGED <<net, acceptVars, counters, stateVars, shutVars, ctxVars>>
      /\ conn[c].pc = "expect"
  BY DEF ExpectDeny, At
<1>2. conn[c] \in Rec /\ "handle" \in PCs /\ FALSE \in BOOLEAN /\ 0 \in Nat
  BY <1>1, Known, RecFields DEF PCs
<1>3. k \in Rec
  BY <1>2, Zenon DEF Rec
<1>4. /\ k.ctx = conn[c].ctx /\ k.pc \in Quiet /\ conn[c].pc \in Quiet
      /\ GoodState(k, connState[c]) /\ GoodIdle(k, idleConns[c]) /\ GoodHeld(k, Began)
      /\ GoodHijack(k) /\ GoodNet(k, net[c], Began)
  BY <1>1, Known, RecFields DEF GoodState, GoodIdle, GoodHeld, GoodHijack, GoodNet, Rec, Quiet, Between, Serving, Ending
<1> QED
  BY <1>1, <1>3, <1>4, SilentStep

\* The deadline of the response cannot be set.
LEMMA RespondPanicsStep ==
  ASSUME ServerInv, NEW c \in Conns, RespondPanics(c)
  PROVE  ServerInv'
<1> DEFINE k == [conn[c] EXCEPT !.pc = "panic"]
<1>1. /\ Set(c, k) /\ UNCHANGED <<net, acceptVars, counters, stateVars, shutVars, ctxVars>>
      /\ conn[c].pc = "respond"
  BY DEF RespondPanics, At, Goto
<1>2. conn[c] \in Rec /\ "panic" \in PCs
  BY <1>1, Known, RecFields DEF PCs
<1>3. k \in Rec
  BY <1>2, Zenon DEF Rec
<1>4. /\ k.ctx = conn[c].ctx /\ k.pc \in Quiet /\ conn[c].pc \in Quiet
      /\ GoodState(k, connState[c]) /\ GoodIdle(k, idleConns[c]) /\ GoodHeld(k, Began)
      /\ GoodHijack(k) /\ GoodNet(k, net[c], Began)
  BY <1>1, Known, RecFields DEF GoodState, GoodIdle, GoodHeld, GoodHijack, GoodNet, Rec, Quiet, Between, Serving, Ending
<1> QED
  BY <1>1, <1>3, <1>4, SilentStep

\* The response cannot be written.
LEMMA RespondFailStep ==
  ASSUME ServerInv, NEW c \in Conns, RespondFail(c)
  PROVE  ServerInv'
<1> DEFINE k == [conn[c] EXCEPT !.pc = "exit"]
<1>1. /\ Set(c, k) /\ UNCHANGED <<net, acceptVars, counters, stateVars, shutVars, ctxVars>>
      /\ conn[c].pc = "respond" /\ (net[c] = "closed" \/ conn[c].eof)
  BY DEF RespondFail, At, Broken
<1>2. conn[c] \in Rec /\ "exit" \in PCs
  BY <1>1, Known, RecFields DEF PCs
<1>3. k \in Rec
  BY <1>2, Zenon DEF Rec
<1>4. /\ k.ctx = conn[c].ctx /\ k.pc \in Quiet /\ conn[c].pc \in Quiet
      /\ GoodState(k, connState[c]) /\ GoodIdle(k, idleConns[c]) /\ GoodHeld(k, Began)
      /\ GoodHijack(k) /\ GoodNet(k, net[c], Began)
  BY <1>1, Known, RecFields DEF GoodState, GoodIdle, GoodHeld, GoodHijack, GoodNet, Rec, Quiet, Between, Serving, Ending
<1> QED
  BY <1>1, <1>3, <1>4, SilentStep

\* The last response.
LEMMA RespondCloseStep ==
  ASSUME ServerInv, NEW c \in Conns, RespondClose(c)
  PROVE  ServerInv'
<1> DEFINE k == [conn[c] EXCEPT !.pc = "exit", !.held = 0]
<1>1. /\ Set(c, k) /\ UNCHANGED <<net, acceptVars, counters, stateVars, shutVars, ctxVars>>
      /\ conn[c].pc = "respond"
  BY DEF RespondClose, At
<1>2. conn[c] \in Rec /\ "exit" \in PCs /\ 0 \in Nat
  BY <1>1, Known, RecFields DEF PCs
<1>3. k \in Rec
  BY <1>2, Zenon DEF Rec
<1>4. /\ k.ctx = conn[c].ctx /\ k.pc \in Quiet /\ conn[c].pc \in Quiet
      /\ GoodState(k, connState[c]) /\ GoodIdle(k, idleConns[c]) /\ GoodHeld(k, Began)
      /\ GoodHijack(k) /\ GoodNet(k, net[c], Began)
  BY <1>1, Known, RecFields DEF GoodState, GoodIdle, GoodHeld, GoodHijack, GoodNet, Rec, Quiet, Between, Serving, Ending
<1> QED
  BY <1>1, <1>3, <1>4, SilentStep

\* The hijack handler is not called.
LEMMA HijackFailStep ==
  ASSUME ServerInv, NEW c \in Conns, HijackFail(c)
  PROVE  ServerInv'
<1> DEFINE k == [conn[c] EXCEPT !.pc = "exit", !.br = FALSE]
<1>1. /\ Set(c, k) /\ UNCHANGED <<net, acceptVars, counters, stateVars, shutVars, ctxVars>>
      /\ conn[c].pc = "respond" /\ (net[c] = "closed" \/ conn[c].eof)
  BY DEF HijackFail, At, Broken
<1>2. conn[c] \in Rec /\ "exit" \in PCs /\ FALSE \in BOOLEAN
  BY <1>1, Known, RecFields DEF PCs
<1>3. k \in Rec
  BY <1>2, Zenon DEF Rec
<1>4. /\ k.ctx = conn[c].ctx /\ k.pc \in Quiet /\ conn[c].pc \in Quiet
      /\ GoodState(k, connState[c]) /\ GoodIdle(k, idleConns[c]) /\ GoodHeld(k, Began)
      /\ GoodHijack(k) /\ GoodNet(k, net[c], Began)
  BY <1>1, Known, RecFields DEF GoodState, GoodIdle, GoodHeld, GoodHijack, GoodNet, Rec, Quiet, Between, Serving, Ending
<1> QED
  BY <1>1, <1>3, <1>4, SilentStep

\* The connection is hijacked.
LEMMA RespondHijackStep ==
  ASSUME ServerInv, NEW c \in Conns, RespondHijack(c)
  PROVE  ServerInv'
<1> DEFINE k == [conn[c] EXCEPT !.pc = "exit", !.held = 0, !.br = FALSE, !.hijack = "runs"]
<1>1. /\ Set(c, k) /\ UNCHANGED <<net, acceptVars, counters, stateVars, shutVars, ctxVars>>
      /\ conn[c].pc = "respond"
  BY DEF RespondHijack, At
<1>2. conn[c] \in Rec /\ "exit" \in PCs /\ FALSE \in BOOLEAN /\ 0 \in Nat
  BY <1>1, Known, RecFields DEF PCs
<1>3. k \in Rec
  BY <1>2, Zenon DEF Rec
<1>4. /\ k.ctx = conn[c].ctx /\ k.pc \in Quiet /\ conn[c].pc \in Quiet
      /\ GoodState(k, connState[c]) /\ GoodIdle(k, idleConns[c]) /\ GoodHeld(k, Began)
      /\ GoodHijack(k) /\ GoodNet(k, net[c], Began)
  BY <1>1, Known, RecFields DEF GoodState, GoodIdle, GoodHeld, GoodHijack, GoodNet, Rec, Quiet, Between, Serving, Ending
<1> QED
  BY <1>1, <1>3, <1>4, SilentStep

\* The response is kept in the writer while the reader has more.
LEMMA RespondKeepStep ==
  ASSUME ServerInv, NEW c \in Conns, RespondKeep(c)
  PROVE  ServerInv'
<1> DEFINE flush == ~conn[c].br \/ conn[c].buf = 0 \/ ReduceMemoryUsage
           h == IF flush THEN 0 ELSE conn[c].held + 1
           k == [conn[c] EXCEPT !.pc = "idle", !.held = h]
<1>1. /\ Set(c, k) /\ UNCHANGED <<net, acceptVars, counters, stateVars, shutVars, ctxVars>>
      /\ conn[c].pc = "respond" /\ conn[c].hijack = "no"
  BY DEF RespondKeep, At
<1>2. conn[c] \in Rec /\ "idle" \in PCs /\ h \in Nat
  BY Known, RecFields DEF PCs
<1>3. k \in Rec
  <2> HIDE DEF h
  <2> QED
    BY <1>2, Zenon DEF Rec
<1>4. /\ k.ctx = conn[c].ctx /\ k.pc \in Quiet /\ conn[c].pc \in Quiet
      /\ GoodState(k, connState[c]) /\ GoodIdle(k, idleConns[c]) /\ GoodHeld(k, Began)
      /\ GoodHijack(k) /\ GoodNet(k, net[c], Began)
  BY <1>1, Known, RecFields DEF GoodState, GoodIdle, GoodHeld, GoodHijack, GoodNet, Rec,
         Quiet, Between, Serving, Ending
<1> QED
  BY <1>1, <1>3, <1>4, SilentStep

\* The header has been read.
LEMMA HeaderReadStep ==
  ASSUME ServerInv, NEW c \in Conns, HeaderRead(c)
  PROVE  ServerInv'
<1> DEFINE m == [conn[c] EXCEPT !.buf = @ - 1]
<1>1. PICK e \in BOOLEAN :
        Set(c, [m EXCEPT !.pc = IF e THEN "expect" ELSE "body",
                         !.br = ~(e /\ ReduceMemoryUsage /\ m.buf = 0)])
  BY DEF HeaderRead
<1> DEFINE p == IF e THEN "expect" ELSE "body"
           b == ~(e /\ ReduceMemoryUsage /\ m.buf = 0)
           k == [m EXCEPT !.pc = p, !.br = b]
<1>2. /\ UNCHANGED <<net, acceptVars, counters, stateVars, shutVars, ctxVars>>
      /\ conn[c].pc \in {"header", "more"} /\ conn[c].buf >= 1
  BY Known, RecFields DEF HeaderRead, At
<1>3. conn[c] \in Rec /\ conn[c].buf - 1 \in Nat /\ p \in PCs /\ b \in BOOLEAN
  BY <1>2, Known, RecFields DEF PCs
<1>4. m \in Rec
  BY <1>3, Zenon DEF Rec
<1>5. k \in Rec
  <2> HIDE DEF m, p, b
  <2> QED
    BY <1>3, <1>4, Zenon DEF Rec
<1>6. /\ k.ctx = conn[c].ctx /\ k.pc \in Quiet /\ conn[c].pc \in Quiet
      /\ GoodState(k, connState[c]) /\ GoodIdle(k, idleConns[c]) /\ GoodHeld(k, Began)
      /\ GoodHijack(k) /\ GoodNet(k, net[c], Began)
  BY <1>2, Known, RecFields DEF GoodState, GoodIdle, GoodHeld, GoodHijack, GoodNet, Rec,
         Quiet, Between, Serving, Ending
<1> QED
  BY <1>1, <1>2, <1>5, <1>6, SilentStep

\* The body has been read.
LEMMA BodyReadStep ==
  ASSUME ServerInv, NEW c \in Conns, BodyRead(c)
  PROVE  ServerInv'
<1> DEFINE m == [conn[c] EXCEPT !.buf = @ - 1]
           b == ~(ReduceMemoryUsage /\ m.buf = 0)
           k == [m EXCEPT !.pc = "handle", !.br = b]
<1>1. /\ Set(c, k) /\ UNCHANGED <<net, acceptVars, counters, stateVars, shutVars, ctxVars>>
      /\ conn[c].pc \in {"body", "100body"} /\ conn[c].buf > 0
  BY DEF BodyRead
<1>2. conn[c] \in Rec /\ conn[c].buf - 1 \in Nat /\ "handle" \in PCs /\ b \in BOOLEAN
  BY <1>1, Known, RecFields DEF PCs
<1>3. m \in Rec
  BY <1>2, Zenon DEF Rec
<1>4. k \in Rec
  <2> HIDE DEF m, b
  <2> QED
    BY <1>2, <1>3, Zenon DEF Rec
<1>5. /\ k.ctx = conn[c].ctx /\ k.pc \in Quiet /\ conn[c].pc \in Quiet
      /\ GoodState(k, connState[c]) /\ GoodIdle(k, idleConns[c]) /\ GoodHeld(k, Began)
      /\ GoodHijack(k) /\ GoodNet(k, net[c], Began)
  BY <1>1, Known, RecFields DEF GoodState, GoodIdle, GoodHeld, GoodHijack, GoodNet, Rec,
         Quiet, Between, Serving, Ending
<1> QED
  BY <1>1, <1>4, <1>5, SilentStep

\* 100 Continue is written, or cannot be.
LEMMA ExpectContinueStep ==
  ASSUME ServerInv, NEW c \in Conns, ExpectContinue(c)
  PROVE  ServerInv'
<1> DEFINE m == [conn[c] EXCEPT !.cont = TRUE]
           k1 == [m EXCEPT !.pc = "100body", !.held = 0, !.br = TRUE]
           k2 == [m EXCEPT !.pc = "exit"]
<1>1. /\ UNCHANGED <<net, acceptVars, counters, stateVars, shutVars, ctxVars>>
      /\ conn[c].pc = "expect"
      /\ \/ Set(c, k1)
         \/ (net[c] = "closed" \/ conn[c].eof) /\ Set(c, k2)
  BY DEF ExpectContinue, At, Broken
<1>2. conn[c] \in Rec /\ "100body" \in PCs /\ "exit" \in PCs /\ TRUE \in BOOLEAN /\ 0 \in Nat
  BY Known DEF PCs
<1>3. m \in Rec
  BY <1>2, Zenon DEF Rec
<1>4. k1 \in Rec /\ k2 \in Rec
  <2> HIDE DEF m
  <2> QED
    BY <1>2, <1>3, Zenon DEF Rec
<1>5. /\ k1.ctx = conn[c].ctx /\ k1.pc \in Quiet /\ conn[c].pc \in Quiet
      /\ GoodState(k1, connState[c]) /\ GoodIdle(k1, idleConns[c]) /\ GoodHeld(k1, Began)
      /\ GoodHijack(k1) /\ GoodNet(k1, net[c], Began)
  BY <1>1, Known, RecFields DEF GoodState, GoodIdle, GoodHeld, GoodHijack, GoodNet, Rec,
         Quiet, Between, Serving, Ending
<1>6. ASSUME net[c] = "closed" \/ conn[c].eof
      PROVE  /\ k2.ctx = conn[c].ctx /\ k2.pc \in Quiet /\ conn[c].pc \in Quiet
             /\ GoodState(k2, connState[c]) /\ GoodIdle(k2, idleConns[c]) /\ GoodHeld(k2, Began)
             /\ GoodHijack(k2) /\ GoodNet(k2, net[c], Began)
  BY <1>1, <1>6, Known, RecFields DEF GoodState, GoodIdle, GoodHeld, GoodHijack, GoodNet, Rec,
         Quiet, Between, Serving, Ending
<1> HIDE DEF k1, k2
<1> QED
  BY <1>1, <1>4, <1>5, <1>6, SilentStep

\* The handler returns, in the connection's goroutine.
LEMMA HandleStep ==
  ASSUME ServerInv, NEW c \in Conns, Handle(c)
  PROVE  ServerInv'
<1>1. PICK h \in {"no", "set", "silent"} : Set(c, [conn[c] EXCEPT !.pc = "respond", !.hijack = h])
  BY DEF Handle
<1> DEFINE k == [conn[c] EXCEPT !.pc = "respond", !.hijack = h]
<1>2. /\ UNCHANGED <<net, acceptVars, counters, stateVars, shutVars, ctxVars>>
      /\ conn[c].pc = "handle"
  BY DEF Handle, At
<1>3. /\ conn[c] \in Rec /\ "respond" \in PCs
      /\ h \in {"no", "set", "silent", "runs", "done"}
  BY Known DEF PCs
<1>4. k \in Rec
  BY <1>3, Zenon DEF Rec
<1>5. /\ k.ctx = conn[c].ctx /\ k.pc \in Quiet /\ conn[c].pc \in Quiet
      /\ GoodState(k, connState[c]) /\ GoodIdle(k, idleConns[c]) /\ GoodHeld(k, Began)
      /\ GoodHijack(k) /\ GoodNet(k, net[c], Began)
  BY <1>2, Known, RecFields DEF GoodState, GoodIdle, GoodHeld, GoodHijack, GoodNet, Rec,
         Quiet, Between, Serving, Ending
<1> QED
  BY <1>1, <1>2, <1>4, <1>5, SilentStep

\* After a request: the loop ends if Shutdown was called.
LEMMA CheckStopStep ==
  ASSUME ServerInv, NEW c \in Conns, CheckStop(c)
  PROVE  ServerInv'
<1> DEFINE p == IF stop THEN "exit" ELSE "loop"
           k == [conn[c] EXCEPT !.pc = p]
<1>1. /\ Set(c, k) /\ UNCHANGED <<net, acceptVars, counters, stateVars, shutVars, ctxVars>>
      /\ conn[c].pc = "checkStop" /\ (p = "loop" \/ (p = "exit" /\ Began))
  BY DEF CheckStop, At, Goto, ServerInv, AcceptInv
<1>2. conn[c] \in Rec /\ p \in PCs
  BY Known DEF PCs
<1> HIDE DEF p
<1>3. k \in Rec
  BY <1>2, Zenon DEF Rec
<1>4. /\ k.ctx = conn[c].ctx /\ k.pc \in Quiet /\ conn[c].pc \in Quiet
      /\ GoodState(k, connState[c]) /\ GoodIdle(k, idleConns[c]) /\ GoodHeld(k, Began)
      /\ GoodHijack(k) /\ GoodNet(k, net[c], Began)
  BY <1>1, Known, RecFields DEF GoodState, GoodIdle, GoodHeld, GoodHijack, GoodNet, Rec,
         Quiet, Between, Serving, Ending
<1> QED
  BY <1>1, <1>3, <1>4, SilentStep

\* The last state of a connection is reported and it enters or leaves s.idleConns.
LEMMA SetStateTypes ==
  ASSUME TypeOK, NEW c \in Conns, NEW s \in ConnStates, SetState(c, s)
  PROVE  /\ idleConns' \in [Conns -> {"no", "new", "idle"}] /\ connState' \in [Conns -> ConnStates]
         /\ connState'[c] = s /\ idleConns'[c] = (IF s \in {"new", "idle"} THEN s ELSE "no")
         /\ \A d \in Conns : d # c => idleConns'[d] = idleConns[d] /\ connState'[d] = connState[d]
  BY DEF TypeOK, SetState, ConnStates

\* The connection becomes active.
LEMMA ActiveStep ==
  ASSUME ServerInv, NEW c \in Conns, Active(c)
  PROVE  ServerInv'
<1>1. PICK p \in {"exit", "header"} :
        /\ Set(c, [conn[c] EXCEPT !.pc = p]) /\ (p = "exit" => net[c] = "closed")
  BY DEF Active, Goto
<1> DEFINE k == [conn[c] EXCEPT !.pc = p]
<1>2. /\ UNCHANGED <<net, acceptVars, counters, shutVars, ctxVars>>
      /\ conn[c].pc = "active" /\ SetState(c, "active") /\ "active" \in ConnStates
  BY DEF Active, At, ConnStates
<1>3. conn[c] \in Rec /\ p \in PCs
  BY Known DEF PCs
<1>4. k \in Rec
  BY <1>3, Zenon DEF Rec
<1>5. /\ idleConns' \in [Conns -> {"no", "new", "idle"}] /\ connState' \in [Conns -> ConnStates]
      /\ connState'[c] = "active" /\ idleConns'[c] = "no"
      /\ \A d \in Conns : d # c => idleConns'[d] = idleConns[d] /\ connState'[d] = connState[d]
  BY <1>2, SetStateTypes DEF ServerInv
<1>6. /\ k.ctx = conn[c].ctx /\ k.pc \in Quiet /\ conn[c].pc \in Quiet
      /\ GoodState(k, "active") /\ GoodIdle(k, "no") /\ GoodHeld(k, Began)
      /\ GoodHijack(k) /\ GoodNet(k, net[c], Began)
  BY <1>1, <1>2, Known, RecFields DEF GoodState, GoodIdle, GoodHeld, GoodHijack, GoodNet, Rec,
         Quiet, Between, Serving, Ending
<1>7. GoodConn(k, net[c], idleConns'[c], connState'[c], Began)
  BY <1>4, <1>5, <1>6 DEF GoodConn
<1> QED
  BY <1>1, <1>2, <1>5, <1>6, <1>7, LocalStep

\* The connection becomes idle.
LEMMA IdleStep ==
  ASSUME ServerInv, NEW c \in Conns, Idle(c)
  PROVE  ServerInv'
<1> DEFINE k == [conn[c] EXCEPT !.pc = "checkStop"]
<1>1. /\ Set(c, k) /\ UNCHANGED <<net, acceptVars, counters, shutVars, ctxVars>>
      /\ conn[c].pc = "idle" /\ SetState(c, "idle") /\ "idle" \in ConnStates
  BY DEF Idle, At, Goto, ConnStates
<1>2. conn[c] \in Rec /\ "checkStop" \in PCs
  BY Known DEF PCs
<1>3. k \in Rec
  BY <1>2, Zenon DEF Rec
<1>4. /\ idleConns' \in [Conns -> {"no", "new", "idle"}] /\ connState' \in [Conns -> ConnStates]
      /\ connState'[c] = "idle" /\ idleConns'[c] = "idle"
      /\ \A d \in Conns : d # c => idleConns'[d] = idleConns[d] /\ connState'[d] = connState[d]
  BY <1>1, SetStateTypes DEF ServerInv
<1>5. /\ k.ctx = conn[c].ctx /\ k.pc \in Quiet /\ conn[c].pc \in Quiet
      /\ GoodState(k, "idle") /\ GoodIdle(k, "idle") /\ GoodHeld(k, Began)
      /\ GoodHijack(k) /\ GoodNet(k, net[c], Began)
  BY <1>1, Known, RecFields DEF GoodState, GoodIdle, GoodHeld, GoodHijack, GoodNet, Rec,
         Quiet, Between, Serving, Ending
<1>6. GoodConn(k, net[c], idleConns'[c], connState'[c], Began)
  BY <1>3, <1>4, <1>5 DEF GoodConn
<1> QED
  BY <1>1, <1>4, <1>5, <1>6, LocalStep

-----------------------------------------------------------------------------
(* Steps that change the counters, the RequestCtxs or the network as well. *)

\* Shutdown, once it has been called, has been called for good.
LEMMA GoodMonotone ==
  ASSUME NEW k, NEW n, NEW i, NEW s, NEW b \in BOOLEAN, NEW b2 \in BOOLEAN, b => b2,
         GoodConn(k, n, i, s, b)
  PROVE  GoodConn(k, n, i, s, b2)
  BY DEF GoodConn, GoodHeld, GoodNet

\* Connection c, its network and its states change, the other connections' do not.
LEMMA OneConn ==
  ASSUME ServerInv, NEW c \in Conns, NEW k, Set(c, k), Began => Began',
         GoodConn(k, net'[c], idleConns'[c], connState'[c], Began'),
         \A d \in Conns : d # c => /\ net'[d] = net[d]
                                   /\ idleConns'[d] = idleConns[d]
                                   /\ connState'[d] = connState[d]
  PROVE  /\ conn' \in [Conns -> Rec] /\ conn'[c] = k
         /\ \A d \in Conns : d # c => conn'[d] = conn[d]
         /\ ConnsGood'
<1>1. conn \in [Conns -> Rec] /\ k \in Rec /\ Began \in BOOLEAN /\ Began' \in BOOLEAN
  BY DEF ServerInv, TypeOK, GoodConn, Rec, Began
<1>2. conn' \in [Conns -> Rec] /\ conn'[c] = k /\ \A d \in Conns : d # c => conn'[d] = conn[d]
  BY <1>1 DEF Set
<1>3. ASSUME NEW d \in Conns
      PROVE  GoodConn(conn'[d], net'[d], idleConns'[d], connState'[d], Began')
  <2>1. CASE d = c
    BY <2>1, <1>2
  <2>2. CASE d # c
    <3>1. GoodConn(conn[d], net[d], idleConns[d], connState[d], Began)
      BY DEF ServerInv, ConnsGood
    <3>2. GoodConn(conn[d], net[d], idleConns[d], connState[d], Began')
      BY <3>1, <1>1, GoodMonotone
    <3> QED
      BY <2>2, <3>2, <1>2
  <2> QED
    BY <2>1, <2>2
<1> QED
  BY <1>2, <1>3 DEF ConnsGood

\* A finite set changes by one element at most.
LEMMA OneElement ==
  ASSUME NEW S, NEW T, NEW c, IsFiniteSet(S), \A d : d # c => (d \in S <=> d \in T)
  PROVE  /\ Cardinality(S) \in Nat /\ Cardinality(T) \in Nat
         /\ Cardinality(T) = Cardinality(S) + (IF c \in T THEN 1 ELSE 0)
                                            - (IF c \in S THEN 1 ELSE 0)
<1>1. S \ {c} = T \ {c}
  OBVIOUS
<1>2. IsFiniteSet(S \ {c}) /\ Cardinality(S \ {c}) = Cardinality(S) - (IF c \in S THEN 1 ELSE 0)
      /\ Cardinality(S) \in Nat
  <2>1. Cardinality(S) \in Nat
    BY FS_CardinalityType
  <2> QED
    BY <2>1, FS_RemoveElement
<1>3. CASE c \notin T
  <2>1. T = S \ {c}
    BY <1>1, <1>3
  <2> QED
    BY <1>2, <1>3, <2>1, FS_CardinalityType
<1>4. CASE c \in T
  <2>1. T = (S \ {c}) \cup {c} /\ c \notin S \ {c}
    BY <1>1, <1>4
  <2>2. IsFiniteSet(T) /\ Cardinality(T) = Cardinality(S \ {c}) + 1
    BY <1>2, <2>1, FS_AddElement
  <2>3. Cardinality(S \ {c}) \in Nat
    BY <1>2, FS_CardinalityType
  <2> QED
    BY <1>2, <1>4, <2>2, <2>3
<1> QED
  BY <1>3, <1>4

\* Whether a connection at l is in Served, Started and Passed.
Open(l) == IF l \in Unserved THEN 0 ELSE 1
Counted(l) == IF l \in (Unserved \ {"uncount"}) \cup {"start"} THEN 0 ELSE 1
Counted2(c, l) ==
  IF c \in Direct /\ l \notin Unserved \ {"over", "counted", "uncount", "close"} THEN 1 ELSE 0

\* The counted sets are finite.
LEMMA FiniteCounts ==
  /\ IsFiniteSet(Served) /\ IsFiniteSet(Started) /\ IsFiniteSet(Passed)
<1>1. Served \in SUBSET Conns /\ Started \in SUBSET Conns /\ Passed \in SUBSET Conns
  BY ServerAssumption DEF Served, Started, Passed
<1> QED
  BY <1>1, FS_Subset, ServerAssumption

\* How the place of one connection changes what is counted.
LEMMA OneCount ==
  ASSUME NEW c \in Conns, \A d \in Conns : d # c => conn'[d] = conn[d]
  PROVE  /\ Cardinality(Served) \in Nat /\ Cardinality(Started) \in Nat
         /\ Cardinality(Passed) \in Nat
         /\ Cardinality(Served)' = Cardinality(Served) + Open(conn'[c].pc) - Open(conn[c].pc)
         /\ Cardinality(Started)' =
              Cardinality(Started) + Counted(conn'[c].pc) - Counted(conn[c].pc)
         /\ Cardinality(Passed)' =
              Cardinality(Passed) + Counted2(c, conn'[c].pc) - Counted2(c, conn[c].pc)
<1>0. IsFiniteSet(Served) /\ IsFiniteSet(Started) /\ IsFiniteSet(Passed)
  BY FiniteCounts
<1>1. /\ \A d : d # c => (d \in Served <=> d \in Served')
      /\ Open(conn[c].pc) = (IF c \in Served THEN 1 ELSE 0)
      /\ Open(conn'[c].pc) = (IF c \in Served' THEN 1 ELSE 0)
  BY DEF Served, Open
<1>2. /\ \A d : d # c => (d \in Started <=> d \in Started')
      /\ Counted(conn[c].pc) = (IF c \in Started THEN 1 ELSE 0)
      /\ Counted(conn'[c].pc) = (IF c \in Started' THEN 1 ELSE 0)
  BY DEF Started, Counted
<1>3. /\ \A d : d # c => (d \in Passed <=> d \in Passed')
      /\ Counted2(c, conn[c].pc) = (IF c \in Passed THEN 1 ELSE 0)
      /\ Counted2(c, conn'[c].pc) = (IF c \in Passed' THEN 1 ELSE 0)
  BY ServerAssumption DEF Passed, Counted2, Unserved
<1>4. /\ Cardinality(Served) \in Nat
      /\ Cardinality(Served') = Cardinality(Served) + (IF c \in Served' THEN 1 ELSE 0)
                                                    - (IF c \in Served THEN 1 ELSE 0)
  BY <1>0, <1>1, OneElement
<1>5. /\ Cardinality(Started) \in Nat
      /\ Cardinality(Started') = Cardinality(Started) + (IF c \in Started' THEN 1 ELSE 0)
                                                      - (IF c \in Started THEN 1 ELSE 0)
  BY <1>0, <1>2, OneElement
<1>6. /\ Cardinality(Passed) \in Nat
      /\ Cardinality(Passed') = Cardinality(Passed) + (IF c \in Passed' THEN 1 ELSE 0)
                                                    - (IF c \in Passed THEN 1 ELSE 0)
  BY <1>0, <1>3, OneElement
<1> QED
  BY <1>1, <1>2, <1>3, <1>4, <1>5, <1>6

\* The counters stay exact when they follow the place of one connection.
LEMMA CountStep ==
  ASSUME CountersAre, TypeOK, NEW c \in Conns, \A d \in Conns : d # c => conn'[d] = conn[d],
         open' = open + Open(conn'[c].pc) - Open(conn[c].pc) + LoopOpen' - LoopOpen,
         concurrency' = concurrency + Counted(conn'[c].pc) - Counted(conn[c].pc)
                                    + Counted2(c, conn'[c].pc) - Counted2(c, conn[c].pc)
  PROVE  CountersAre' /\ open' \in Nat /\ concurrency' \in Nat
<1>1. /\ Cardinality(Served) \in Nat /\ Cardinality(Started) \in Nat
      /\ Cardinality(Passed) \in Nat
      /\ Cardinality(Served)' = Cardinality(Served) + Open(conn'[c].pc) - Open(conn[c].pc)
      /\ Cardinality(Started)' =
           Cardinality(Started) + Counted(conn'[c].pc) - Counted(conn[c].pc)
      /\ Cardinality(Passed)' =
           Cardinality(Passed) + Counted2(c, conn'[c].pc) - Counted2(c, conn[c].pc)
  BY OneCount
<1>2. /\ Open(conn'[c].pc) \in {0, 1} /\ Open(conn[c].pc) \in {0, 1}
      /\ Counted(conn'[c].pc) \in {0, 1} /\ Counted(conn[c].pc) \in {0, 1}
      /\ Counted2(c, conn'[c].pc) \in {0, 1} /\ Counted2(c, conn[c].pc) \in {0, 1}
      /\ LoopOpen \in {0, 1, 2} /\ LoopOpen' \in {0, 1, 2}
  BY DEF Open, Counted, Counted2, LoopOpen
<1>3. /\ open' = Cardinality(Served)' + LoopOpen'
      /\ concurrency' = Cardinality(Started)' + Cardinality(Passed)'
  BY <1>1, <1>2 DEF CountersAre
<1>4. Cardinality(Served)' \in Nat /\ Cardinality(Started)' \in Nat /\ Cardinality(Passed)' \in Nat
  <2>1. IsFiniteSet(Served)' /\ IsFiniteSet(Started)' /\ IsFiniteSet(Passed)'
    BY FiniteCounts, PTL
  <2> QED
    BY <2>1, FS_CardinalityType
<1> QED
  BY <1>2, <1>3, <1>4 DEF CountersAre

\* A step of c that may change the counters, the RequestCtxs, the network and
\* the last state, but not the accept loop or Shutdown.
LEMMA WideStep ==
  ASSUME ServerInv, NEW c \in Conns, NEW k, Set(c, k),
         GoodConn(k, net'[c], idleConns'[c], connState'[c], Began),
         net' \in [Conns -> {"open", "closed"}],
         idleConns' \in [Conns -> {"no", "new", "idle"}], connState' \in [Conns -> ConnStates],
         \A d \in Conns : d # c => /\ net'[d] = net[d]
                                   /\ idleConns'[d] = idleConns[d]
                                   /\ connState'[d] = connState[d],
         conn[c].pc # "accepted", k.pc # "accepted",
         k.pc \in {"over", "counted"} => c \in Direct,
         open' = open + Open(k.pc) - Open(conn[c].pc),
         concurrency' = concurrency + Counted(k.pc) - Counted(conn[c].pc)
                                    + Counted2(c, k.pc) - Counted2(c, conn[c].pc),
         UNCHANGED <<acceptVars, shutVars>>,
         CtxInv', pool' \subseteq Ctxs, running' \subseteq Ctxs,
         timeoutCh' \in [Ctxs -> BOOLEAN], leaving' \in Nat
  PROVE  ServerInv'
<1>1. Began' = Began
  BY DEF Began, shutVars
<1>2. /\ conn' \in [Conns -> Rec] /\ conn'[c] = k
      /\ \A d \in Conns : d # c => conn'[d] = conn[d]
      /\ ConnsGood'
  BY <1>1, OneConn
<1>3. CountersAre' /\ open' \in Nat /\ concurrency' \in Nat
  <2>1. LoopOpen' = LoopOpen /\ LoopOpen \in {0, 1, 2}
    BY DEF LoopOpen, acceptVars
  <2>2. /\ open \in Nat /\ Open(k.pc) \in {0, 1} /\ Open(conn[c].pc) \in {0, 1}
    BY DEF ServerInv, TypeOK, Open
  <2>3. open' = open + Open(conn'[c].pc) - Open(conn[c].pc) + LoopOpen' - LoopOpen
    BY <1>2, <2>1, <2>2
  <2> QED
    BY <1>2, <2>3, CountStep DEF ServerInv
<1>4. TypeOK'
  BY <1>2, <1>3 DEF ServerInv, TypeOK, Rec, acceptVars, shutVars
<1>5. AcceptInv'
  <2>1. /\ spc' = spc /\ acc' = acc /\ stop' = stop
        /\ \A d \in Conns : /\ At(d, "accepted")' <=> At(d, "accepted")
                            /\ conn'[d].pc \in {"over", "counted"} => d \in Direct
    BY <1>2 DEF acceptVars, shutVars, At, ServerInv, AcceptInv
  <2>2. spc \in Holding => acc \in Conns \ Direct /\ acc # c
    BY DEF ServerInv, AcceptInv, At
  <2>3. spc \in Holding => At(acc, "accepted")' /\ net'[acc] = net[acc]
    BY <1>2, <2>1, <2>2 DEF ServerInv, AcceptInv, At
  <2> QED
    BY <1>1, <2>1, <2>2, <2>3 DEF ServerInv, AcceptInv, At, Holding
<1> QED
  BY <1>2, <1>3, <1>4, <1>5 DEF ServerInv

\* c keeps its RequestCtx or forgets it.
LEMMA CtxKept ==
  ASSUME CtxInv, NEW c \in Conns, NEW k, conn'[c] = k, \A d \in Conns : d # c => conn'[d] = conn[d],
         k.ctx \in {conn[c].ctx, NoCtx},
         k.pc = conn[c].pc \/ (k.pc # "await" /\ conn[c].pc # "await"),
         UNCHANGED <<pool, running, timeoutCh>>
  PROVE  CtxInv'
<1>1. \A d \in Conns : conn'[d].ctx \in {conn[d].ctx, NoCtx} /\ (At(d, "await")' <=> At(d, "await"))
  BY DEF At
<1>2. \A x \in Ctxs : x # NoCtx
  BY ServerAssumption
<1> QED
  BY <1>1, <1>2 DEF CtxInv

\* c acquires a RequestCtx that nobody else has.
LEMMA CtxAcquired ==
  ASSUME TypeOK, CtxInv, NEW c \in Conns, NEW k, conn'[c] = k,
         \A d \in Conns : d # c => conn'[d] = conn[d],
         NEW x \in Ctxs, AcquireCtx(x), k.ctx = x, k.pc # "await", running' = running
  PROVE  CtxInv' /\ pool' \subseteq Ctxs /\ timeoutCh' \in [Ctxs -> BOOLEAN]
<1>1. /\ pool' \subseteq Ctxs /\ timeoutCh' \in [Ctxs -> BOOLEAN]
      /\ ~timeoutCh'[x] /\ \A y \in Ctxs : y # x => timeoutCh'[y] = timeoutCh[y]
      /\ x \notin pool' /\ pool' \subseteq pool
      /\ x \notin running /\ \A d \in Conns : conn[d].ctx # x
  <2>1. CASE x \in pool /\ pool' = pool \ {x} /\ UNCHANGED timeoutCh
    <3>1. ~timeoutCh[x] /\ x \notin running
      BY <2>1 DEF CtxInv
    <3>2. \A d \in Conns : conn[d].ctx # x
      BY <2>1, ServerAssumption DEF CtxInv
    <3> QED
      BY <2>1, <3>1, <3>2 DEF TypeOK
  <2>2. CASE Unused(x) /\ timeoutCh' = [timeoutCh EXCEPT ![x] = FALSE] /\ UNCHANGED pool
    <3>1. timeoutCh' \in [Ctxs -> BOOLEAN]
      BY <2>2, Zenon DEF TypeOK
    <3>2. ~timeoutCh'[x] /\ \A y \in Ctxs : y # x => timeoutCh'[y] = timeoutCh[y]
      BY <2>2 DEF TypeOK
    <3> QED
      BY <2>2, <3>1, <3>2 DEF TypeOK, Unused
  <2> QED
    BY <2>1, <2>2 DEF AcquireCtx
<1>2. x # NoCtx
  BY ServerAssumption
<1> QED
  BY <1>1, <1>2 DEF CtxInv, At

\* c gives its RequestCtx back to the pool.
LEMMA CtxReleased ==
  ASSUME TypeOK, CtxInv, NEW c \in Conns, NEW k, conn'[c] = k,
         \A d \in Conns : d # c => conn'[d] = conn[d],
         conn[c].ctx \in Ctxs, conn[c].pc # "await", k.ctx = NoCtx, k.pc # "await",
         pool' = pool \cup {conn[c].ctx}, UNCHANGED <<running, timeoutCh>>
  PROVE  CtxInv' /\ pool' \subseteq Ctxs
<1>1. conn[c].ctx # NoCtx /\ \A x \in Ctxs : x # NoCtx
  BY ServerAssumption
<1>2. /\ conn[c].ctx \notin running /\ ~timeoutCh[conn[c].ctx]
      /\ \A d \in Conns : d # c => conn[d].ctx # conn[c].ctx
  BY <1>1 DEF CtxInv, At
<1>3. pool' \subseteq Ctxs /\ pool' \cap running' = {}
  BY <1>2 DEF CtxInv, TypeOK
<1>4. ASSUME NEW d \in Conns, conn'[d].ctx # NoCtx
      PROVE  /\ conn'[d].ctx \notin pool'
             /\ \A e \in Conns : conn'[e].ctx = conn'[d].ctx => e = d
             /\ conn'[d].ctx \in running' => At(d, "await")'
  BY <1>2, <1>4 DEF CtxInv, At
<1>5. ASSUME NEW x \in Ctxs, timeoutCh'[x]
      PROVE  /\ x \notin pool' \cup running'
             /\ \A d \in Conns : conn'[d].ctx = x => At(d, "await")'
  BY <1>1, <1>2, <1>5 DEF CtxInv, At
<1> QED
  BY <1>3, <1>4, <1>5 DEF CtxInv

\* A step within serveConn that changes the RequestCtxs only.
LEMMA CtxStep ==
  ASSUME ServerInv, NEW c \in Conns, NEW k \in Rec, Set(c, k),
         conn[c].pc \in Quiet \cup {"await"}, k.pc \in Quiet \cup {"await"},
         GoodState(k, connState[c]), GoodIdle(k, idleConns[c]), GoodHeld(k, Began),
         GoodHijack(k), GoodNet(k, net[c], Began),
         UNCHANGED <<net, acceptVars, counters, stateVars, shutVars>>,
         CtxInv', pool' \subseteq Ctxs, running' \subseteq Ctxs,
         timeoutCh' \in [Ctxs -> BOOLEAN], leaving' \in Nat
  PROVE  ServerInv'
<1>1. GoodConn(k, net'[c], idleConns'[c], connState'[c], Began)
  BY DEF GoodConn, stateVars
<1>2. /\ net' \in [Conns -> {"open", "closed"}]
      /\ idleConns' \in [Conns -> {"no", "new", "idle"}] /\ connState' \in [Conns -> ConnStates]
      /\ \A d \in Conns : d # c => /\ net'[d] = net[d]
                                   /\ idleConns'[d] = idleConns[d]
                                   /\ connState'[d] = connState[d]
  BY DEF ServerInv, TypeOK, stateVars
<1>3. /\ conn[c].pc # "accepted" /\ k.pc # "accepted" /\ k.pc \notin {"over", "counted"}
      /\ Open(k.pc) = 1 /\ Open(conn[c].pc) = 1
      /\ Counted(k.pc) = 1 /\ Counted(conn[c].pc) = 1 /\ Counted2(c, k.pc) = Counted2(c, conn[c].pc)
      /\ Counted2(c, k.pc) \in {0, 1}
  BY DEF Quiet, Between, Serving, Open, Counted, Counted2, Unserved
<1>4. /\ open' = open + Open(k.pc) - Open(conn[c].pc)
      /\ concurrency' = concurrency + Counted(k.pc) - Counted(conn[c].pc)
                                    + Counted2(c, k.pc) - Counted2(c, conn[c].pc)
  BY <1>3 DEF ServerInv, TypeOK, counters
<1> QED
  BY <1>1, <1>2, <1>3, <1>4, WideStep

\* Set changes one connection.
LEMMA SetOne ==
  ASSUME ServerInv, NEW c \in Conns, NEW k, Set(c, k)
  PROVE  conn'[c] = k /\ \A d \in Conns : d # c => conn'[d] = conn[d]
  BY DEF ServerInv, TypeOK, Set

\* The RequestCtx of a connection that is being served.
LEMMA CtxOf ==
  ASSUME ServerInv, NEW c \in Conns, conn[c].ctx # NoCtx
  PROVE  conn[c].ctx \in Ctxs
  BY Known, RecFields

\* The top of the loop.
LEMMA LoopStep ==
  ASSUME ServerInv, NEW c \in Conns, Loop(c)
  PROVE  ServerInv'
<1> DEFINE n == IF conn[c].num = 2 THEN 2 ELSE conn[c].num + 1
           m == [conn[c] EXCEPT !.num = n]
           k1 == [m EXCEPT !.pc = "exit"]
           k2 == [m EXCEPT !.pc = "byte", !.ctx = NoCtx]
           k3 == [m EXCEPT !.pc = IF m.num > 1 THEN "peek" ELSE "active", !.br = TRUE]
<1>1. /\ UNCHANGED <<net, acceptVars, counters, stateVars, shutVars>> /\ conn[c].pc = "loop"
      /\ \/ net[c] = "closed" /\ Set(c, k1) /\ UNCHANGED ctxVars
         \/ /\ ReduceMemoryUsage /\ Set(c, k2)
            /\ pool' = pool \cup {conn[c].ctx} /\ UNCHANGED <<running, timeoutCh, leaving>>
         \/ Set(c, k3) /\ UNCHANGED ctxVars
  <2>1. m.ctx = conn[c].ctx
    BY Known DEF Rec
  <2> QED
    BY <2>1 DEF Loop, At
<1>2. /\ conn[c] \in Rec /\ n \in 0..2 /\ {"exit", "byte", "peek", "active"} \subseteq PCs
      /\ TRUE \in BOOLEAN /\ NoCtx \in Ctxs \cup {NoCtx} /\ conn[c].ctx \in Ctxs
  BY <1>1, Known, RecFields, CtxOf DEF PCs, GoodHijack, Between
<1>3. m \in Rec /\ m.pc = "loop" /\ m.ctx = conn[c].ctx /\ m.held = conn[c].held
      /\ m.hijack = conn[c].hijack /\ m.buf = conn[c].buf /\ m.eof = conn[c].eof
  <2> HIDE DEF n
  <2>1. m \in Rec
    BY <1>2, Zenon DEF Rec
  <2> QED
    BY <1>1, <1>2, <2>1 DEF Rec
<1> HIDE DEF m, n
<1>4. k1 \in Rec /\ k2 \in Rec /\ k3 \in Rec
  <2>1. k1 \in Rec /\ k2 \in Rec
    BY <1>2, <1>3, Zenon DEF Rec
  <2>2. CASE m.num > 1
    <3>1. [m EXCEPT !.pc = "peek", !.br = TRUE] \in Rec
      BY <1>2, <1>3, Zenon DEF Rec
    <3> QED
      BY <2>1, <2>2, <3>1
  <2>3. CASE ~(m.num > 1)
    <3>1. [m EXCEPT !.pc = "active", !.br = TRUE] \in Rec
      BY <1>2, <1>3, Zenon DEF Rec
    <3> QED
      BY <2>1, <2>3, <3>1
  <2> QED
    BY <2>2, <2>3
<1>5. CASE net[c] = "closed" /\ Set(c, k1) /\ UNCHANGED ctxVars
  <2>1. /\ k1.ctx = conn[c].ctx /\ k1.pc \in Quiet /\ conn[c].pc \in Quiet
        /\ GoodState(k1, connState[c]) /\ GoodIdle(k1, idleConns[c]) /\ GoodHeld(k1, Began)
        /\ GoodHijack(k1) /\ GoodNet(k1, net[c], Began)
    BY <1>1, <1>3, <1>5, Known, RecFields DEF GoodState, GoodIdle, GoodHeld, GoodHijack, GoodNet,
         Rec, Quiet, Between, Serving, Ending
  <2> QED
    BY <1>1, <1>4, <1>5, <2>1, SilentStep
<1>6. CASE /\ ReduceMemoryUsage /\ Set(c, k2)
           /\ pool' = pool \cup {conn[c].ctx} /\ UNCHANGED <<running, timeoutCh, leaving>>
  <2>1. /\ k2.ctx = NoCtx /\ k2.pc = "byte" /\ k2.pc \in Quiet /\ conn[c].pc \in Quiet
        /\ GoodState(k2, connState[c]) /\ GoodIdle(k2, idleConns[c]) /\ GoodHeld(k2, Began)
        /\ GoodHijack(k2) /\ GoodNet(k2, net[c], Began)
    BY <1>1, <1>3, <1>6, Known, RecFields DEF GoodState, GoodIdle, GoodHeld, GoodHijack, GoodNet,
         Rec, Quiet, Between, Serving, Ending
  <2>2. CtxInv' /\ pool' \subseteq Ctxs
    BY <1>1, <1>2, <1>6, <2>1, SetOne, CtxReleased DEF ServerInv
  <2>3. running' \subseteq Ctxs /\ timeoutCh' \in [Ctxs -> BOOLEAN] /\ leaving' \in Nat
    BY <1>6 DEF ServerInv, TypeOK
  <2> QED
    BY <1>1, <1>4, <1>6, <2>1, <2>2, <2>3, CtxStep
<1>7. CASE Set(c, k3) /\ UNCHANGED ctxVars
  <2>1. /\ k3.ctx = conn[c].ctx /\ k3.pc \in {"peek", "active"}
        /\ k3.held = conn[c].held /\ k3.buf = conn[c].buf /\ k3.hijack = conn[c].hijack
    BY <1>3 DEF Rec
  <2>2. /\ k3.pc \in Quiet /\ conn[c].pc \in Quiet
        /\ GoodState(k3, connState[c]) /\ GoodIdle(k3, idleConns[c]) /\ GoodHeld(k3, Began)
        /\ GoodHijack(k3) /\ GoodNet(k3, net[c], Began)
    <3> HIDE DEF k3
    <3> QED
      BY <1>1, <2>1, Known, RecFields DEF GoodState, GoodIdle, GoodHeld, GoodHijack, GoodNet,
         Quiet, Between, Serving, Ending
  <2> QED
    BY <1>1, <1>4, <1>7, <2>1, <2>2, SilentStep
<1> QED
  BY <1>1, <1>5, <1>6, <1>7

\* TimeoutHandler starts the handler, or answers that there are too many.
LEMMA TimeoutStartStep ==
  ASSUME ServerInv, NEW c \in Conns, TimeoutStart(c)
  PROVE  ServerInv'
<1> DEFINE k1 == [conn[c] EXCEPT !.pc = "await"]
           k2 == [conn[c] EXCEPT !.pc = "respond"]
<1>1. /\ UNCHANGED <<net, acceptVars, counters, stateVars, shutVars, pool, timeoutCh, leaving>>
      /\ conn[c].pc = "handle"
      /\ \/ running' = running \cup {conn[c].ctx} /\ Set(c, k1)
         \/ Set(c, k2) /\ UNCHANGED running
  BY DEF TimeoutStart, At, Goto
<1>2. /\ conn[c] \in Rec /\ "await" \in PCs /\ "respond" \in PCs
      /\ conn[c].ctx \in Ctxs /\ conn[c].ctx # NoCtx
  BY <1>1, Known, CtxOf DEF PCs, GoodHijack, Between, Serving
<1>3. k1 \in Rec /\ k2 \in Rec
  BY <1>2, Zenon DEF Rec
<1>4. /\ k1.ctx = conn[c].ctx /\ k1.pc = "await" /\ conn[c].pc \in Quiet
      /\ GoodState(k1, connState[c]) /\ GoodIdle(k1, idleConns[c]) /\ GoodHeld(k1, Began)
      /\ GoodHijack(k1) /\ GoodNet(k1, net[c], Began)
  BY <1>1, Known, RecFields DEF GoodState, GoodIdle, GoodHeld, GoodHijack, GoodNet,
     Rec, Quiet, Between, Serving, Ending
<1>5. /\ k2.ctx = conn[c].ctx /\ k2.pc \in Quiet /\ conn[c].pc \in Quiet
      /\ GoodState(k2, connState[c]) /\ GoodIdle(k2, idleConns[c]) /\ GoodHeld(k2, Began)
      /\ GoodHijack(k2) /\ GoodNet(k2, net[c], Began)
  BY <1>1, Known, RecFields DEF GoodState, GoodIdle, GoodHeld, GoodHijack, GoodNet,
     Rec, Quiet, Between, Serving, Ending
<1>6. CASE running' = running \cup {conn[c].ctx} /\ Set(c, k1)
  <2>1. conn'[c] = k1 /\ \A d \in Conns : d # c => conn'[d] = conn[d]
    BY <1>6, SetOne
  <2>2. ~timeoutCh[conn[c].ctx] /\ conn[c].ctx \notin pool
        /\ \A d \in Conns : d # c => conn[d].ctx # conn[c].ctx
    BY <1>1, <1>2 DEF ServerInv, CtxInv, At
  <2>3. /\ \A d \in Conns : conn'[d].ctx = conn[d].ctx
        /\ \A d \in Conns : d # c => (At(d, "await")' <=> At(d, "await"))
        /\ At(c, "await")'
    BY <1>4, <2>1 DEF At
  <2>4. CtxInv'
    <3>1. pool \cap running' = {}
      BY <1>6, <2>2 DEF ServerInv, CtxInv
    <3>2. ASSUME NEW d \in Conns, conn[d].ctx # NoCtx
          PROVE  /\ conn[d].ctx \notin pool
                 /\ \A e \in Conns : conn[e].ctx = conn[d].ctx => e = d
                 /\ conn[d].ctx \in running' => At(d, "await")'
      BY <1>6, <2>2, <2>3, <3>2 DEF ServerInv, CtxInv
    <3>3. ASSUME NEW x \in Ctxs, timeoutCh[x]
          PROVE  x \notin pool \cup running' /\ \A d \in Conns : conn[d].ctx = x => At(d, "await")'
      BY <1>6, <2>2, <2>3, <3>3 DEF ServerInv, CtxInv
    <3> QED
      BY <1>1, <2>3, <3>1, <3>2, <3>3 DEF CtxInv
  <2>5. /\ pool' \subseteq Ctxs /\ running' \subseteq Ctxs
        /\ timeoutCh' \in [Ctxs -> BOOLEAN] /\ leaving' \in Nat
    BY <1>1, <1>2, <1>6 DEF ServerInv, TypeOK
  <2> QED
    BY <1>1, <1>3, <1>4, <1>6, <2>4, <2>5, CtxStep
<1>7. CASE Set(c, k2) /\ UNCHANGED running
  BY <1>1, <1>3, <1>5, <1>7, SilentStep DEF ctxVars
<1> QED
  BY <1>1, <1>6, <1>7

\* The handler answers in time.
LEMMA TimeoutDoneStep ==
  ASSUME ServerInv, NEW c \in Conns, TimeoutDone(c)
  PROVE  ServerInv'
<1>1. PICK h \in {"no", "set", "silent"} : Set(c, [conn[c] EXCEPT !.pc = "respond", !.hijack = h])
  BY DEF TimeoutDone
<1> DEFINE k == [conn[c] EXCEPT !.pc = "respond", !.hijack = h]
<1>2. /\ UNCHANGED <<net, acceptVars, counters, stateVars, shutVars, pool, running, leaving>>
      /\ conn[c].pc = "await" /\ timeoutCh[conn[c].ctx]
      /\ timeoutCh' = [timeoutCh EXCEPT ![conn[c].ctx] = FALSE]
  BY DEF TimeoutDone, At
<1>3. /\ conn[c] \in Rec /\ "respond" \in PCs
      /\ h \in {"no", "set", "silent", "runs", "done"}
      /\ conn[c].ctx \in Ctxs /\ conn[c].ctx # NoCtx
  BY <1>2, Known, CtxOf DEF PCs, GoodHijack, Between, Serving
<1>4. k \in Rec
  BY <1>3, Zenon DEF Rec
<1>5. /\ k.ctx = conn[c].ctx /\ k.pc \in Quiet /\ k.pc # "await"
      /\ GoodState(k, connState[c]) /\ GoodIdle(k, idleConns[c]) /\ GoodHeld(k, Began)
      /\ GoodHijack(k) /\ GoodNet(k, net[c], Began)
  BY <1>2, Known, RecFields DEF GoodState, GoodIdle, GoodHeld, GoodHijack, GoodNet,
     Rec, Quiet, Between, Serving, Ending
<1>6. conn'[c] = k /\ \A d \in Conns : d # c => conn'[d] = conn[d]
  BY <1>1, SetOne
<1>7. timeoutCh' \in [Ctxs -> BOOLEAN]
  BY <1>2, Zenon DEF ServerInv, TypeOK
<1>8. CtxInv'
  <2>1. conn[c].ctx \notin running
    BY <1>2, <1>3 DEF ServerInv, CtxInv
  <2>2. ~timeoutCh'[conn[c].ctx] /\ \A x \in Ctxs : x # conn[c].ctx => timeoutCh'[x] = timeoutCh[x]
    BY <1>2, <1>3 DEF ServerInv, TypeOK
  <2>3. /\ \A d \in Conns : conn'[d].ctx = conn[d].ctx
        /\ \A d \in Conns : d # c => (At(d, "await")' <=> At(d, "await"))
    BY <1>5, <1>6 DEF At
  <2> QED
    BY <1>2, <2>1, <2>2, <2>3 DEF ServerInv, CtxInv
<1>9. pool' \subseteq Ctxs /\ running' \subseteq Ctxs /\ leaving' \in Nat
  BY <1>2 DEF ServerInv, TypeOK
<1> QED
  BY <1>1, <1>2, <1>4, <1>5, <1>7, <1>8, <1>9, CtxStep

\* The timer fires first: another RequestCtx takes the place of the handler's.
LEMMA TimeoutFiresStep ==
  ASSUME ServerInv, NEW c \in Conns, TimeoutFires(c)
  PROVE  ServerInv'
<1>1. PICK x \in Ctxs : AcquireCtx(x) /\ Set(c, [conn[c] EXCEPT !.pc = "respond", !.ctx = x])
  BY DEF TimeoutFires
<1> DEFINE k == [conn[c] EXCEPT !.pc = "respond", !.ctx = x]
<1>2. /\ UNCHANGED <<net, acceptVars, counters, stateVars, shutVars, running, leaving>>
      /\ conn[c].pc = "await"
  BY DEF TimeoutFires, At
<1>3. conn[c] \in Rec /\ "respond" \in PCs /\ x \in Ctxs \cup {NoCtx} /\ x # NoCtx
  BY Known, ServerAssumption DEF PCs
<1>4. k \in Rec
  BY <1>3, Zenon DEF Rec
<1>5. /\ k.ctx = x /\ k.pc \in Quiet /\ k.pc # "await"
      /\ GoodState(k, connState[c]) /\ GoodIdle(k, idleConns[c]) /\ GoodHeld(k, Began)
      /\ GoodHijack(k) /\ GoodNet(k, net[c], Began)
  BY <1>2, <1>3, Known, RecFields DEF GoodState, GoodIdle, GoodHeld, GoodHijack, GoodNet,
     Rec, Quiet, Between, Serving, Ending
<1>6. CtxInv' /\ pool' \subseteq Ctxs /\ timeoutCh' \in [Ctxs -> BOOLEAN]
  BY <1>1, <1>2, <1>5, SetOne, CtxAcquired DEF ServerInv
<1>7. running' \subseteq Ctxs /\ leaving' \in Nat
  BY <1>2 DEF ServerInv, TypeOK
<1> QED
  BY <1>1, <1>2, <1>4, <1>5, <1>6, <1>7, CtxStep

\* The first byte is read, or never comes, and a RequestCtx acquired again.
LEMMA ByteReaderStep ==
  ASSUME ServerInv, NEW c \in Conns, ByteReader(c)
  PROVE  ServerInv'
<1>1. PICK x \in Ctxs :
        /\ AcquireCtx(x)
        /\ \/ \E n \in 1..conn[c].sock :
                Set(c, [conn[c] EXCEPT !.pc = "active", !.ctx = x, !.br = TRUE,
                                       !.buf = @ + n, !.sock = @ - n])
           \/ Set(c, [conn[c] EXCEPT !.pc = "exit", !.ctx = x])
  BY DEF ByteReader
<1>2. /\ UNCHANGED <<net, acceptVars, counters, stateVars, shutVars, running, leaving>>
      /\ conn[c].pc = "byte"
  BY DEF ByteReader, At
<1>3. /\ conn[c] \in Rec /\ "active" \in PCs /\ "exit" \in PCs /\ TRUE \in BOOLEAN
      /\ x \in Ctxs \cup {NoCtx} /\ x # NoCtx
  BY Known, ServerAssumption DEF PCs
<1>4. running' \subseteq Ctxs /\ leaving' \in Nat
  BY <1>2 DEF ServerInv, TypeOK
<1>5. CASE \E n \in 1..conn[c].sock :
                Set(c, [conn[c] EXCEPT !.pc = "active", !.ctx = x, !.br = TRUE,
                                       !.buf = @ + n, !.sock = @ - n])
  <2>1. PICK n \in 1..conn[c].sock :
                Set(c, [conn[c] EXCEPT !.pc = "active", !.ctx = x, !.br = TRUE,
                                       !.buf = @ + n, !.sock = @ - n])
    BY <1>5
  <2> DEFINE k == [conn[c] EXCEPT !.pc = "active", !.ctx = x, !.br = TRUE,
                                  !.buf = @ + n, !.sock = @ - n]
  <2>2. conn[c].buf + n \in Nat /\ conn[c].sock - n \in Nat
    BY Known, RecFields
  <2>3. k \in Rec
    BY <1>3, <2>2, Zenon DEF Rec
  <2>4. /\ k.ctx = x /\ k.pc \in Quiet /\ k.pc # "await" /\ conn[c].pc \in Quiet
        /\ GoodState(k, connState[c]) /\ GoodIdle(k, idleConns[c]) /\ GoodHeld(k, Began)
        /\ GoodHijack(k) /\ GoodNet(k, net[c], Began)
    BY <1>2, <1>3, Known, RecFields DEF GoodState, GoodIdle, GoodHeld, GoodHijack, GoodNet,
       Rec, Quiet, Between, Serving, Ending
  <2>5. CtxInv' /\ pool' \subseteq Ctxs /\ timeoutCh' \in [Ctxs -> BOOLEAN]
    BY <1>1, <1>2, <2>1, <2>4, SetOne, CtxAcquired DEF ServerInv
  <2> QED
    BY <1>2, <1>4, <2>1, <2>3, <2>4, <2>5, CtxStep
<1>6. CASE Set(c, [conn[c] EXCEPT !.pc = "exit", !.ctx = x])
  <2> DEFINE k == [conn[c] EXCEPT !.pc = "exit", !.ctx = x]
  <2>3. k \in Rec
    BY <1>3, Zenon DEF Rec
  <2>4. /\ k.ctx = x /\ k.pc \in Quiet /\ k.pc # "await" /\ conn[c].pc \in Quiet
        /\ GoodState(k, connState[c]) /\ GoodIdle(k, idleConns[c]) /\ GoodHeld(k, Began)
        /\ GoodHijack(k) /\ GoodNet(k, net[c], Began)
    BY <1>2, <1>3, Known, RecFields DEF GoodState, GoodIdle, GoodHeld, GoodHijack, GoodNet,
       Rec, Quiet, Between, Serving, Ending
  <2>5. CtxInv' /\ pool' \subseteq Ctxs /\ timeoutCh' \in [Ctxs -> BOOLEAN]
    BY <1>1, <1>2, <1>6, <2>4, SetOne, CtxAcquired DEF ServerInv
  <2> QED
    BY <1>2, <1>4, <1>6, <2>3, <2>4, <2>5, CtxStep
<1> QED
  BY <1>1, <1>5, <1>6

\* A step that leaves the network and the last states alone.
LEMMA CountedStep ==
  ASSUME ServerInv, NEW c \in Conns, NEW k \in Rec, Set(c, k),
         GoodState(k, connState[c]), GoodIdle(k, idleConns[c]), GoodHeld(k, Began),
         GoodHijack(k), GoodNet(k, net[c], Began),
         conn[c].pc # "accepted", k.pc # "accepted",
         k.pc \in {"over", "counted"} => c \in Direct,
         open' = open + Open(k.pc) - Open(conn[c].pc),
         concurrency' = concurrency + Counted(k.pc) - Counted(conn[c].pc)
                                    + Counted2(c, k.pc) - Counted2(c, conn[c].pc),
         UNCHANGED <<net, stateVars, acceptVars, shutVars>>,
         CtxInv', pool' \subseteq Ctxs, running' \subseteq Ctxs,
         timeoutCh' \in [Ctxs -> BOOLEAN], leaving' \in Nat
  PROVE  ServerInv'
<1>1. GoodConn(k, net'[c], idleConns'[c], connState'[c], Began)
  BY DEF GoodConn, stateVars
<1>2. /\ net' \in [Conns -> {"open", "closed"}]
      /\ idleConns' \in [Conns -> {"no", "new", "idle"}] /\ connState' \in [Conns -> ConnStates]
      /\ \A d \in Conns : d # c => /\ net'[d] = net[d]
                                   /\ idleConns'[d] = idleConns[d]
                                   /\ connState'[d] = connState[d]
  BY DEF ServerInv, TypeOK, stateVars
<1> QED
  BY <1>1, <1>2, WideStep

\* serveConn starts, with a RequestCtx, or returns at once.
LEMMA StartStep ==
  ASSUME ServerInv, NEW c \in Conns, Start(c)
  PROVE  ServerInv'
<1>1. /\ UNCHANGED <<net, open, acceptVars, stateVars, shutVars>>
      /\ conn[c].pc = "start" /\ concurrency' = concurrency + 1
      /\ \/ \E x \in Ctxs : /\ AcquireCtx(x)
                            /\ Set(c, [conn[c] EXCEPT !.pc = "loop", !.ctx = x])
                            /\ UNCHANGED <<running, leaving>>
         \/ Set(c, [conn[c] EXCEPT !.pc = "exit"]) /\ UNCHANGED ctxVars
  BY DEF Start, At, Goto
<1>2. conn[c] \in Rec /\ "loop" \in PCs /\ "exit" \in PCs
  BY Known DEF PCs
<1>3. ASSUME NEW l \in {"loop", "exit"}
      PROVE  /\ open' = open + Open(l) - Open(conn[c].pc)
             /\ concurrency' = concurrency + Counted(l) - Counted(conn[c].pc)
                                           + Counted2(c, l) - Counted2(c, conn[c].pc)
             /\ l # "accepted" /\ l \notin {"over", "counted"}
  <2>1. /\ Open(l) = 1 /\ Open(conn[c].pc) = 1 /\ Counted(l) = 1 /\ Counted(conn[c].pc) = 0
        /\ Counted2(c, l) = Counted2(c, conn[c].pc) /\ Counted2(c, l) \in {0, 1}
    BY <1>1 DEF Open, Counted, Counted2, Unserved
  <2>2. open \in Nat /\ concurrency \in Nat /\ open' = open /\ concurrency' = concurrency + 1
    BY <1>1 DEF ServerInv, TypeOK
  <2> QED
    BY <2>1, <2>2
<1>4. CASE \E x \in Ctxs : /\ AcquireCtx(x)
                           /\ Set(c, [conn[c] EXCEPT !.pc = "loop", !.ctx = x])
                           /\ UNCHANGED <<running, leaving>>
  <2>1. PICK x \in Ctxs : /\ AcquireCtx(x)
                          /\ Set(c, [conn[c] EXCEPT !.pc = "loop", !.ctx = x])
                          /\ UNCHANGED <<running, leaving>>
    BY <1>4
  <2> DEFINE k == [conn[c] EXCEPT !.pc = "loop", !.ctx = x]
  <2>2. x \in Ctxs \cup {NoCtx} /\ x # NoCtx
    BY ServerAssumption
  <2>3. k \in Rec
    BY <1>2, <2>2, Zenon DEF Rec
  <2>4. /\ k.ctx = x /\ k.pc = "loop"
        /\ GoodState(k, connState[c]) /\ GoodIdle(k, idleConns[c]) /\ GoodHeld(k, Began)
        /\ GoodHijack(k) /\ GoodNet(k, net[c], Began)
    BY <1>1, <2>2, Known, RecFields, ZenonT(40) DEF GoodState, GoodIdle, GoodHeld, GoodHijack, GoodNet,
       Rec, Quiet, Between, Serving, Ending
  <2>5. CtxInv' /\ pool' \subseteq Ctxs /\ timeoutCh' \in [Ctxs -> BOOLEAN]
    BY <1>1, <2>1, <2>4, SetOne, CtxAcquired DEF ServerInv
  <2>6. running' \subseteq Ctxs /\ leaving' \in Nat
    BY <2>1 DEF ServerInv, TypeOK
  <2> HIDE DEF k
  <2> QED
    BY <1>1, <1>3, <2>1, <2>3, <2>4, <2>5, <2>6, CountedStep DEF k
<1>5. CASE Set(c, [conn[c] EXCEPT !.pc = "exit"]) /\ UNCHANGED ctxVars
  <2> DEFINE k == [conn[c] EXCEPT !.pc = "exit"]
  <2>3. k \in Rec
    BY <1>2, Zenon DEF Rec
  <2>4. /\ k.ctx = conn[c].ctx /\ k.pc = "exit"
        /\ GoodState(k, connState[c]) /\ GoodIdle(k, idleConns[c]) /\ GoodHeld(k, Began)
        /\ GoodHijack(k) /\ GoodNet(k, net[c], Began)
    BY <1>1, Known, RecFields, ZenonT(40) DEF GoodState, GoodIdle, GoodHeld, GoodHijack, GoodNet,
       Rec, Quiet, Between, Serving, Ending
  <2>5. CtxInv'
    BY <1>1, <1>5, <2>4, SetOne, CtxKept DEF ServerInv, ctxVars
  <2>6. /\ pool' \subseteq Ctxs /\ running' \subseteq Ctxs
        /\ timeoutCh' \in [Ctxs -> BOOLEAN] /\ leaving' \in Nat
    BY <1>5 DEF ServerInv, TypeOK, ctxVars
  <2> QED
    BY <1>1, <1>3, <1>5, <2>3, <2>4, <2>5, <2>6, CountedStep
<1> QED
  BY <1>1, <1>4, <1>5

\* serveConn returns.
LEMMA ExitStep ==
  ASSUME ServerInv, NEW c \in Conns, Exit(c)
  PROVE  ServerInv'
<1> DEFINE x == IF conn[c].hijack = "runs" THEN conn[c].ctx ELSE NoCtx
           k == [conn[c] EXCEPT !.pc = "cleanup", !.br = FALSE, !.ctx = x]
<1>1. /\ UNCHANGED <<net, acceptVars, counters, stateVars, shutVars, running, timeoutCh, leaving>>
      /\ conn[c].pc = "exit" /\ Set(c, k)
      /\ pool' = IF conn[c].hijack = "no" THEN pool \cup ({conn[c].ctx} \ {NoCtx}) ELSE pool
  BY DEF Exit, At
<1>2. conn[c] \in Rec /\ "cleanup" \in PCs /\ FALSE \in BOOLEAN /\ x \in Ctxs \cup {NoCtx}
  BY Known, RecFields DEF PCs
<1>3. k \in Rec
  <2> HIDE DEF x
  <2> QED
    BY <1>2, Zenon DEF Rec
<1>4. /\ k.ctx = x /\ k.pc = "cleanup"
      /\ GoodState(k, connState[c]) /\ GoodIdle(k, idleConns[c]) /\ GoodHeld(k, Began)
      /\ GoodHijack(k) /\ GoodNet(k, net[c], Began)
  BY <1>1, Known, RecFields DEF GoodState, GoodIdle, GoodHeld, GoodHijack, GoodNet,
     Rec, Quiet, Between, Serving, Ending
<1>5. /\ open' = open + Open("cleanup") - Open(conn[c].pc)
      /\ concurrency' = concurrency + Counted("cleanup") - Counted(conn[c].pc)
                                    + Counted2(c, "cleanup") - Counted2(c, conn[c].pc)
  <2>1. /\ Open("cleanup") = 1 /\ Open(conn[c].pc) = 1
        /\ Counted("cleanup") = 1 /\ Counted(conn[c].pc) = 1
        /\ Counted2(c, "cleanup") = Counted2(c, conn[c].pc) /\ Counted2(c, "cleanup") \in {0, 1}
    BY <1>1 DEF Open, Counted, Counted2, Unserved
  <2> QED
    BY <1>1, <2>1 DEF ServerInv, TypeOK, counters
<1>6. conn'[c] = k /\ \A d \in Conns : d # c => conn'[d] = conn[d]
  BY <1>1, SetOne
<1>7. CtxInv' /\ pool' \subseteq Ctxs
  <2>1. CASE conn[c].hijack = "no" /\ conn[c].ctx # NoCtx
    <3>1. pool' = pool \cup {conn[c].ctx} /\ conn[c].ctx \in Ctxs /\ x = NoCtx
      BY <1>1, <2>1, CtxOf
    <3> QED
      BY <1>1, <1>4, <1>6, <3>1, CtxReleased DEF ServerInv
  <2>2. CASE ~(conn[c].hijack = "no" /\ conn[c].ctx # NoCtx)
    <3>1. pool' = pool /\ x \in {conn[c].ctx, NoCtx}
      BY <1>1, <2>2
    <3>2. CtxInv'
      <4>1. /\ k.ctx \in {conn[c].ctx, NoCtx} /\ k.pc # "await" /\ conn[c].pc # "await"
            /\ UNCHANGED <<pool, running, timeoutCh>>
        BY <1>1, <1>4, <3>1
      <4> HIDE DEF k
      <4> QED
        BY <1>6, <4>1, CtxKept DEF ServerInv
    <3> QED
      BY <3>1, <3>2 DEF ServerInv, TypeOK
  <2> QED
    BY <2>1, <2>2
<1>8. running' \subseteq Ctxs /\ timeoutCh' \in [Ctxs -> BOOLEAN] /\ leaving' \in Nat
  BY <1>1 DEF ServerInv, TypeOK
<1> QED
  BY <1>1, <1>3, <1>4, <1>5, <1>7, <1>8, CountedStep

\* serveConnCleanup gives up the count of s.open ...
LEMMA CleanupOpenStep ==
  ASSUME ServerInv, NEW c \in Conns, CleanupOpen(c)
  PROVE  ServerInv'
<1> DEFINE k == [conn[c] EXCEPT !.pc = "uncount"]
<1>1. /\ UNCHANGED <<net, concurrency, acceptVars, stateVars, shutVars, ctxVars>>
      /\ conn[c].pc = "cleanup" /\ Set(c, k)
      /\ open' = open - 1
  BY DEF CleanupOpen, At, Goto
<1>2. conn[c] \in Rec /\ "uncount" \in PCs
  BY Known DEF PCs
<1>3. k \in Rec
  BY <1>2, Zenon DEF Rec
<1>4. (conn[c].pc = "counted" => c \in Direct) /\ (c \in Direct => ~NoDirect)
  BY DEF ServerInv, AcceptInv, NoDirect
<1>5. /\ k.ctx = conn[c].ctx /\ k.pc = "uncount"
      /\ GoodState(k, connState[c]) /\ GoodIdle(k, idleConns[c]) /\ GoodHeld(k, Began)
      /\ GoodHijack(k) /\ GoodNet(k, net[c], Began)
  BY <1>1, <1>4, Known, RecFields DEF GoodState, GoodIdle, GoodHeld, GoodHijack, GoodNet,
     Rec, Quiet, Between, Serving, Ending
<1>6. /\ open' = open + Open("uncount") - Open(conn[c].pc)
      /\ concurrency' = concurrency + Counted("uncount") - Counted(conn[c].pc)
                                    + Counted2(c, "uncount") - Counted2(c, conn[c].pc)
  <2>1. /\ Open("uncount") = 0 /\ Open(conn[c].pc) = 1
        /\ Counted("uncount") = 1 /\ Counted(conn[c].pc) = 1
        /\ Counted2(c, "uncount") = Counted2(c, conn[c].pc) /\ Counted2(c, "uncount") \in {0, 1}
    BY <1>1 DEF Open, Counted, Counted2, Unserved
  <2>2. open \in Nat /\ concurrency \in Nat
    BY DEF ServerInv, TypeOK
  <2> QED
    BY <1>1, <2>1, <2>2
<1>7. CtxInv'
  BY <1>1, <1>5, SetOne, CtxKept DEF ServerInv, ctxVars
<1>8. /\ pool' \subseteq Ctxs /\ running' \subseteq Ctxs
      /\ timeoutCh' \in [Ctxs -> BOOLEAN] /\ leaving' \in Nat
  BY <1>1 DEF ServerInv, TypeOK, ctxVars
<1>9. k.pc # "accepted" /\ k.pc \notin {"over", "counted"} /\ conn[c].pc # "accepted"
  BY <1>1, <1>5
<1> HIDE DEF k
<1> QED
  BY <1>1, <1>3, <1>5, <1>6, <1>7, <1>8, <1>9, CountedStep

\* ... and that of s.concurrency.
LEMMA CleanupConcurrencyStep ==
  ASSUME ServerInv, NEW c \in Conns, CleanupConcurrency(c)
  PROVE  ServerInv'
<1> DEFINE k == [conn[c] EXCEPT !.pc = "close"]
<1>1. /\ UNCHANGED <<net, open, acceptVars, stateVars, shutVars, ctxVars>>
      /\ conn[c].pc = "uncount" /\ Set(c, k)
      /\ concurrency' = concurrency - 1
  BY DEF CleanupConcurrency, At, Goto
<1>2. conn[c] \in Rec /\ "close" \in PCs
  BY Known DEF PCs
<1>3. k \in Rec
  BY <1>2, Zenon DEF Rec
<1>4. (conn[c].pc = "counted" => c \in Direct) /\ (c \in Direct => ~NoDirect)
  BY DEF ServerInv, AcceptInv, NoDirect
<1>5. /\ k.ctx = conn[c].ctx /\ k.pc = "close"
      /\ GoodState(k, connState[c]) /\ GoodIdle(k, idleConns[c]) /\ GoodHeld(k, Began)
      /\ GoodHijack(k) /\ GoodNet(k, net[c], Began)
  BY <1>1, <1>4, Known, RecFields DEF GoodState, GoodIdle, GoodHeld, GoodHijack, GoodNet,
     Rec, Quiet, Between, Serving, Ending
<1>6. /\ open' = open + Open("close") - Open(conn[c].pc)
      /\ concurrency' = concurrency + Counted("close") - Counted(conn[c].pc)
                                    + Counted2(c, "close") - Counted2(c, conn[c].pc)
  <2>1. /\ Open("close") = 0 /\ Open(conn[c].pc) = 0
        /\ Counted("close") = 0 /\ Counted(conn[c].pc) = 1
        /\ Counted2(c, "close") = Counted2(c, conn[c].pc) /\ Counted2(c, "close") \in {0, 1}
    BY <1>1 DEF Open, Counted, Counted2, Unserved
  <2>2. open \in Nat /\ concurrency \in Nat
    BY DEF ServerInv, TypeOK
  <2> QED
    BY <1>1, <2>1, <2>2
<1>7. CtxInv'
  BY <1>1, <1>5, SetOne, CtxKept DEF ServerInv, ctxVars
<1>8. /\ pool' \subseteq Ctxs /\ running' \subseteq Ctxs
      /\ timeoutCh' \in [Ctxs -> BOOLEAN] /\ leaving' \in Nat
  BY <1>1 DEF ServerInv, TypeOK, ctxVars
<1>9. k.pc # "accepted" /\ k.pc \notin {"over", "counted"} /\ conn[c].pc # "accepted"
  BY <1>1, <1>5
<1> HIDE DEF k
<1> QED
  BY <1>1, <1>3, <1>5, <1>6, <1>7, <1>8, <1>9, CountedStep

\* What is left of a connection whose goroutine is done with it.
LEMMA GoneRec ==
  ASSUME ServerInv, NEW c \in Conns, Gone(c)
  PROVE  \E k \in Rec : /\ Set(c, k) /\ k.pc = "gone" /\ k.held = 0
                        /\ k.ctx = conn[c].ctx /\ k.hijack = conn[c].hijack
<1> DEFINE k == [Blank("gone") EXCEPT !.ctx = conn[c].ctx, !.hijack = conn[c].hijack]
<1>1. /\ conn[c].ctx \in Ctxs \cup {NoCtx}
      /\ conn[c].hijack \in {"no", "set", "silent", "runs", "done"} /\ "gone" \in PCs
  BY Known, RecFields DEF PCs
<1>2. Blank("gone") \in Rec
  BY <1>1 DEF Blank, Rec
<1>3. k \in Rec
  BY <1>1, <1>2, Zenon DEF Rec
<1>4. /\ Set(c, k) /\ k.pc = "gone" /\ k.held = 0
      /\ k.ctx = conn[c].ctx /\ k.hijack = conn[c].hijack
  BY <1>2 DEF Gone, Blank
<1> QED
  BY <1>3, <1>4

\* The connection is closed unless it was hijacked.
LEMMA CloseConnStep ==
  ASSUME ServerInv, NEW c \in Conns, CloseConn(c)
  PROVE  ServerInv'
<1> DEFINE k == [conn[c] EXCEPT !.pc = "report"]
<1>1. /\ UNCHANGED <<open, acceptVars, stateVars, shutVars, ctxVars>>
      /\ conn[c].pc = "close" /\ Set(c, k)
      /\ concurrency' = IF c \in Direct THEN concurrency - 1 ELSE concurrency
  BY DEF CloseConn, At, Goto
<1>2. conn[c] \in Rec /\ "report" \in PCs
  BY Known DEF PCs
<1>3. k \in Rec
  BY <1>2, Zenon DEF Rec
<1>4. /\ net' \in [Conns -> {"open", "closed"}] /\ \A d \in Conns : d # c => net'[d] = net[d]
  <2>1. net \in [Conns -> {"open", "closed"}]
    BY DEF ServerInv, TypeOK
  <2> QED
    BY <2>1 DEF CloseConn
<1>5. /\ k.ctx = conn[c].ctx /\ k.pc = "report"
      /\ GoodState(k, connState[c]) /\ GoodIdle(k, idleConns[c]) /\ GoodHeld(k, Began)
      /\ GoodHijack(k) /\ GoodNet(k, net'[c], Began)
  BY <1>1, Known, RecFields DEF GoodState, GoodIdle, GoodHeld, GoodHijack, GoodNet,
     Rec, Quiet, Between, Serving, Ending
<1>6. /\ open' = open + Open("report") - Open(conn[c].pc)
      /\ concurrency' = concurrency + Counted("report") - Counted(conn[c].pc)
                                    + Counted2(c, "report") - Counted2(c, conn[c].pc)
  <2>1. /\ Open("report") = 0 /\ Open(conn[c].pc) = 0
        /\ Counted("report") = 0 /\ Counted(conn[c].pc) = 0 /\ Counted2(c, "report") = 0
        /\ Counted2(c, conn[c].pc) = IF c \in Direct THEN 1 ELSE 0
    BY <1>1 DEF Open, Counted, Counted2, Unserved
  <2>2. open \in Nat /\ concurrency \in Nat
    BY DEF ServerInv, TypeOK
  <2> QED
    BY <1>1, <2>1, <2>2
<1>7. CtxInv'
  BY <1>1, <1>5, SetOne, CtxKept DEF ServerInv, ctxVars
<1>8. /\ pool' \subseteq Ctxs /\ running' \subseteq Ctxs
      /\ timeoutCh' \in [Ctxs -> BOOLEAN] /\ leaving' \in Nat
      /\ idleConns' \in [Conns -> {"no", "new", "idle"}] /\ connState' \in [Conns -> ConnStates]
      /\ idleConns' = idleConns /\ connState' = connState
  BY <1>1 DEF ServerInv, TypeOK, ctxVars, stateVars
<1>9. GoodConn(k, net'[c], idleConns'[c], connState'[c], Began)
  BY <1>3, <1>5, <1>8 DEF GoodConn
<1> HIDE DEF k
<1> QED
  BY <1>1, <1>4, <1>5, <1>6, <1>7, <1>8, <1>9, WideStep

\* The last state is reported.
LEMMA ReportStep ==
  ASSUME ServerInv, NEW c \in Conns, Report(c)
  PROVE  ServerInv'
<1>1. /\ UNCHANGED <<net, acceptVars, counters, shutVars, ctxVars>> /\ conn[c].pc = "report"
      /\ Gone(c) \/ Set(c, [conn[c] EXCEPT !.pc = "worker"])
  BY DEF Report, At, Goto
<1>2. PICK s \in {"hijacked", "closed"} : SetState(c, s)
  BY DEF Report
<1>3. /\ idleConns' \in [Conns -> {"no", "new", "idle"}] /\ connState' \in [Conns -> ConnStates]
      /\ idleConns'[c] = "no" /\ connState'[c] # "none"
      /\ \A d \in Conns : d # c => idleConns'[d] = idleConns[d] /\ connState'[d] = connState[d]
  <2>1. s \in ConnStates /\ s \notin {"new", "idle"}
    BY DEF ConnStates
  <2> QED
    BY <1>2, <2>1, SetStateTypes DEF ServerInv
<1>4. PICK k \in Rec : /\ Set(c, k) /\ k.pc \in {"gone", "worker"}
                       /\ k.pc = "gone" => k.held = 0
                       /\ k.pc = "worker" => k.held = conn[c].held /\ k.eof = conn[c].eof
                       /\ k.ctx = conn[c].ctx /\ k.hijack = conn[c].hijack
  <2>1. CASE Gone(c)
    BY <2>1, GoneRec
  <2>2. CASE Set(c, [conn[c] EXCEPT !.pc = "worker"])
    <3>1. conn[c] \in Rec /\ "worker" \in PCs
      BY Known DEF PCs
    <3> DEFINE w == [conn[c] EXCEPT !.pc = "worker"]
    <3>2. w \in Rec
      BY <3>1, Zenon DEF Rec
    <3>3. /\ Set(c, w) /\ w.pc = "worker" /\ w.held = conn[c].held /\ w.eof = conn[c].eof
          /\ w.ctx = conn[c].ctx /\ w.hijack = conn[c].hijack
      BY <2>2, <3>1 DEF Rec
    <3> HIDE DEF w
    <3> QED
      BY <3>2, <3>3
  <2> QED
    BY <1>1, <2>1, <2>2
<1>5. GoodConn(k, net[c], idleConns'[c], connState'[c], Began)
  BY <1>1, <1>3, <1>4, Known, RecFields DEF GoodConn, GoodState, GoodIdle, GoodHeld, GoodHijack,
     GoodNet, Between, Serving, Ending
<1>6. /\ open' = open + Open(k.pc) - Open(conn[c].pc)
      /\ concurrency' = concurrency + Counted(k.pc) - Counted(conn[c].pc)
                                    + Counted2(c, k.pc) - Counted2(c, conn[c].pc)
  <2>1. /\ Open(k.pc) = 0 /\ Open(conn[c].pc) = 0 /\ Counted(k.pc) = 0 /\ Counted(conn[c].pc) = 0
        /\ Counted2(c, k.pc) = 0 /\ Counted2(c, conn[c].pc) = 0
    BY <1>1, <1>4 DEF Open, Counted, Counted2, Unserved
  <2>2. open \in Nat /\ concurrency \in Nat /\ open' = open /\ concurrency' = concurrency
    BY <1>1 DEF ServerInv, TypeOK, counters
  <2> QED
    BY <2>1, <2>2
<1>7. CtxInv'
  BY <1>1, <1>4, SetOne, CtxKept DEF ServerInv, ctxVars
<1>8. /\ pool' \subseteq Ctxs /\ running' \subseteq Ctxs
      /\ timeoutCh' \in [Ctxs -> BOOLEAN] /\ leaving' \in Nat
      /\ net' \in [Conns -> {"open", "closed"}] /\ net' = net
  BY <1>1 DEF ServerInv, TypeOK, ctxVars
<1> QED
  BY <1>1, <1>3, <1>4, <1>5, <1>6, <1>7, <1>8, WideStep

\* The worker is ready for another connection.
LEMMA WorkerReadyStep ==
  ASSUME ServerInv, NEW c \in Conns, WorkerReady(c)
  PROVE  ServerInv'
<1>1. /\ UNCHANGED <<net, acceptVars, counters, stateVars, shutVars, ctxVars>>
      /\ conn[c].pc = "worker" /\ Gone(c)
  BY DEF WorkerReady, At
<1>2. PICK k \in Rec : /\ Set(c, k) /\ k.pc = "gone" /\ k.held = 0
                       /\ k.ctx = conn[c].ctx /\ k.hijack = conn[c].hijack
  BY <1>1, GoneRec
<1>3. /\ GoodState(k, connState[c]) /\ GoodIdle(k, idleConns[c]) /\ GoodHeld(k, Began)
      /\ GoodHijack(k) /\ GoodNet(k, net[c], Began)
  BY <1>1, <1>2, Known, RecFields DEF GoodState, GoodIdle, GoodHeld, GoodHijack, GoodNet,
     Rec, Quiet, Between, Serving, Ending
<1>4. /\ open' = open + Open(k.pc) - Open(conn[c].pc)
      /\ concurrency' = concurrency + Counted(k.pc) - Counted(conn[c].pc)
                                    + Counted2(c, k.pc) - Counted2(c, conn[c].pc)
  <2>1. /\ Open(k.pc) = 0 /\ Open(conn[c].pc) = 0 /\ Counted(k.pc) = 0 /\ Counted(conn[c].pc) = 0
        /\ Counted2(c, k.pc) = 0 /\ Counted2(c, conn[c].pc) = 0
    BY <1>1, <1>2 DEF Open, Counted, Counted2, Unserved
  <2>2. open \in Nat /\ concurrency \in Nat /\ open' = open /\ concurrency' = concurrency
    BY <1>1 DEF ServerInv, TypeOK, counters
  <2> QED
    BY <2>1, <2>2
<1>5. CtxInv'
  BY <1>1, <1>2, SetOne, CtxKept DEF ServerInv, ctxVars
<1>6. /\ pool' \subseteq Ctxs /\ running' \subseteq Ctxs
      /\ timeoutCh' \in [Ctxs -> BOOLEAN] /\ leaving' \in Nat
  BY <1>1 DEF ServerInv, TypeOK, ctxVars
<1> QED
  BY <1>1, <1>2, <1>3, <1>4, <1>5, <1>6, CountedStep

\* ServeConn counts the connection.
LEMMA ServeConnStep ==
  ASSUME ServerInv, NEW c \in Conns, ServeConn(c)
  PROVE  ServerInv'
<1>1. PICK l \in {"over", "counted"} : Set(c, [conn[c] EXCEPT !.pc = l])
  BY DEF ServeConn, Goto
<1> DEFINE k == [conn[c] EXCEPT !.pc = l]
<1>2. /\ UNCHANGED <<net, open, acceptVars, stateVars, shutVars, ctxVars>>
      /\ conn[c].pc = "none" /\ c \in Direct /\ concurrency' = concurrency + 1
  BY DEF ServeConn, At
<1>3. conn[c] \in Rec /\ l \in PCs
  BY Known DEF PCs
<1>4. k \in Rec
  BY <1>3, Zenon DEF Rec
<1>5. /\ k.ctx = conn[c].ctx /\ k.pc = l
      /\ GoodState(k, connState[c]) /\ GoodIdle(k, idleConns[c]) /\ GoodHeld(k, Began)
      /\ GoodHijack(k) /\ GoodNet(k, net[c], Began)
  BY <1>2, Known, RecFields DEF GoodState, GoodIdle, GoodHeld, GoodHijack, GoodNet,
     Rec, Quiet, Between, Serving, Ending
<1>6. /\ open' = open + Open(l) - Open(conn[c].pc)
      /\ concurrency' = concurrency + Counted(l) - Counted(conn[c].pc)
                                    + Counted2(c, l) - Counted2(c, conn[c].pc)
  <2>1. /\ Open(l) = 0 /\ Open(conn[c].pc) = 0
        /\ Counted(l) = 0 /\ Counted(conn[c].pc) = 0
        /\ Counted2(c, l) = 1 /\ Counted2(c, conn[c].pc) = 0
    BY <1>2 DEF Open, Counted, Counted2, Unserved
  <2>2. open \in Nat /\ concurrency \in Nat
    BY DEF ServerInv, TypeOK
  <2> QED
    BY <1>1, <1>2, <2>1, <2>2
<1>7. CtxInv'
  BY <1>1, <1>2, <1>5, SetOne, CtxKept DEF ServerInv, ctxVars
<1>8. /\ pool' \subseteq Ctxs /\ running' \subseteq Ctxs
      /\ timeoutCh' \in [Ctxs -> BOOLEAN] /\ leaving' \in Nat
  BY <1>2 DEF ServerInv, TypeOK, ctxVars
<1> QED
  BY <1>1, <1>2, <1>4, <1>5, <1>6, <1>7, <1>8, CountedStep

\* ServeConn counts it as open.
LEMMA ServeConnOpenStep ==
  ASSUME ServerInv, NEW c \in Conns, ServeConnOpen(c)
  PROVE  ServerInv'
<1> DEFINE k == [conn[c] EXCEPT !.pc = "start"]
<1>1. /\ UNCHANGED <<net, concurrency, acceptVars, stateVars, shutVars, ctxVars>>
      /\ conn[c].pc = "counted" /\ Set(c, k)
      /\ open' = open + 1
  BY DEF ServeConnOpen, At, Goto
<1>2. conn[c] \in Rec /\ "start" \in PCs
  BY Known DEF PCs
<1>3. k \in Rec
  BY <1>2, Zenon DEF Rec
<1>4. (conn[c].pc = "counted" => c \in Direct) /\ (c \in Direct => ~NoDirect)
  BY DEF ServerInv, AcceptInv, NoDirect
<1>5. /\ k.ctx = conn[c].ctx /\ k.pc = "start"
      /\ GoodState(k, connState[c]) /\ GoodIdle(k, idleConns[c]) /\ GoodHeld(k, Began)
      /\ GoodHijack(k) /\ GoodNet(k, net[c], Began)
  BY <1>1, <1>4, Known, RecFields DEF GoodState, GoodIdle, GoodHeld, GoodHijack, GoodNet,
     Rec, Quiet, Between, Serving, Ending
<1>6. /\ open' = open + Open("start") - Open(conn[c].pc)
      /\ concurrency' = concurrency + Counted("start") - Counted(conn[c].pc)
                                    + Counted2(c, "start") - Counted2(c, conn[c].pc)
  <2>1. /\ Open("start") = 1 /\ Open(conn[c].pc) = 0
        /\ Counted("start") = 0 /\ Counted(conn[c].pc) = 0
        /\ Counted2(c, "start") = Counted2(c, conn[c].pc) /\ Counted2(c, "start") \in {0, 1}
    BY <1>1 DEF Open, Counted, Counted2, Unserved
  <2>2. open \in Nat /\ concurrency \in Nat
    BY DEF ServerInv, TypeOK
  <2> QED
    BY <1>1, <2>1, <2>2
<1>7. CtxInv'
  BY <1>1, <1>5, SetOne, CtxKept DEF ServerInv, ctxVars
<1>8. /\ pool' \subseteq Ctxs /\ running' \subseteq Ctxs
      /\ timeoutCh' \in [Ctxs -> BOOLEAN] /\ leaving' \in Nat
  BY <1>1 DEF ServerInv, TypeOK, ctxVars
<1>9. k.pc # "accepted" /\ k.pc \notin {"over", "counted"} /\ conn[c].pc # "accepted"
  BY <1>1, <1>5
<1> HIDE DEF k
<1> QED
  BY <1>1, <1>3, <1>5, <1>6, <1>7, <1>8, <1>9, CountedStep

\* ServeConn refuses the connection.
LEMMA ServeConnRefusedStep ==
  ASSUME ServerInv, NEW c \in Conns, ServeConnRefused(c)
  PROVE  ServerInv'
<1>1. /\ UNCHANGED <<open, acceptVars, stateVars, shutVars, ctxVars>>
      /\ conn[c].pc = "over" /\ c \in Direct /\ ~NoDirect /\ Gone(c)
      /\ concurrency' = concurrency - 1 /\ net' = [net EXCEPT ![c] = "closed"]
  BY DEF ServeConnRefused, At, ServerInv, AcceptInv, NoDirect
<1>2. PICK k \in Rec : /\ Set(c, k) /\ k.pc = "gone" /\ k.held = 0
                       /\ k.ctx = conn[c].ctx /\ k.hijack = conn[c].hijack
  BY <1>1, GoneRec
<1>3. /\ net' \in [Conns -> {"open", "closed"}] /\ \A d \in Conns : d # c => net'[d] = net[d]
  BY <1>1 DEF ServerInv, TypeOK
<1>4. /\ GoodState(k, connState[c]) /\ GoodIdle(k, idleConns[c]) /\ GoodHeld(k, Began)
      /\ GoodHijack(k) /\ GoodNet(k, net'[c], Began)
  BY <1>1, <1>2, Known, RecFields DEF GoodState, GoodIdle, GoodHeld, GoodHijack, GoodNet,
     Rec, Quiet, Between, Serving, Ending
<1>5. /\ open' = open + Open(k.pc) - Open(conn[c].pc)
      /\ concurrency' = concurrency + Counted(k.pc) - Counted(conn[c].pc)
                                    + Counted2(c, k.pc) - Counted2(c, conn[c].pc)
  <2>1. /\ Open(k.pc) = 0 /\ Open(conn[c].pc) = 0 /\ Counted(k.pc) = 0 /\ Counted(conn[c].pc) = 0
        /\ Counted2(c, k.pc) = 0 /\ Counted2(c, conn[c].pc) = 1
    BY <1>1, <1>2 DEF Open, Counted, Counted2, Unserved
  <2>2. open \in Nat /\ concurrency \in Nat
    BY DEF ServerInv, TypeOK
  <2> QED
    BY <1>1, <2>1, <2>2
<1>6. CtxInv'
  BY <1>1, <1>2, SetOne, CtxKept DEF ServerInv, ctxVars
<1>7. /\ pool' \subseteq Ctxs /\ running' \subseteq Ctxs
      /\ timeoutCh' \in [Ctxs -> BOOLEAN] /\ leaving' \in Nat
      /\ idleConns' \in [Conns -> {"no", "new", "idle"}] /\ connState' \in [Conns -> ConnStates]
      /\ idleConns' = idleConns /\ connState' = connState
  BY <1>1 DEF ServerInv, TypeOK, ctxVars, stateVars
<1>8. GoodConn(k, net'[c], idleConns'[c], connState'[c], Began)
  BY <1>4, <1>7 DEF GoodConn
<1> QED
  BY <1>1, <1>2, <1>3, <1>5, <1>6, <1>7, <1>8, WideStep

\* A hijack handler returns.
LEMMA HijackReturnStep ==
  ASSUME ServerInv, NEW c \in Conns, HijackReturn(c)
  PROVE  ServerInv'
<1> DEFINE k == [conn[c] EXCEPT !.hijack = "done", !.ctx = NoCtx]
<1>1. /\ UNCHANGED <<acceptVars, counters, stateVars, shutVars, running, timeoutCh, leaving>>
      /\ conn[c].hijack = "runs" /\ Set(c, k)
      /\ net' = (IF KeepHijackedConns THEN net ELSE [net EXCEPT ![c] = "closed"])
      /\ pool' = pool \cup {conn[c].ctx}
  BY DEF HijackReturn
<1>2. /\ conn[c] \in Rec /\ "done" \in {"no", "set", "silent", "runs", "done"}
      /\ NoCtx \in Ctxs \cup {NoCtx}
      /\ conn[c].pc \in Ending /\ conn[c].ctx \in Ctxs
  BY <1>1, Known, CtxOf DEF GoodHijack
<1>3. k \in Rec
  BY <1>2, Zenon DEF Rec
<1>4. /\ net' \in [Conns -> {"open", "closed"}] /\ \A d \in Conns : d # c => net'[d] = net[d]
  BY <1>1 DEF ServerInv, TypeOK
<1>5. /\ k.ctx = NoCtx /\ k.pc = conn[c].pc
      /\ GoodState(k, connState[c]) /\ GoodIdle(k, idleConns[c]) /\ GoodHeld(k, Began)
      /\ GoodHijack(k) /\ GoodNet(k, net'[c], Began)
  BY <1>1, <1>2, Known, RecFields DEF GoodState, GoodIdle, GoodHeld, GoodHijack, GoodNet,
     Rec, Quiet, Between, Serving, Ending
<1>6. /\ open' = open + Open(k.pc) - Open(conn[c].pc)
      /\ concurrency' = concurrency + Counted(k.pc) - Counted(conn[c].pc)
                                    + Counted2(c, k.pc) - Counted2(c, conn[c].pc)
  <2>1. /\ Open(conn[c].pc) \in {0, 1} /\ Counted(conn[c].pc) \in {0, 1}
        /\ Counted2(c, conn[c].pc) \in {0, 1}
    BY DEF Open, Counted, Counted2
  <2>2. open \in Nat /\ concurrency \in Nat /\ open' = open /\ concurrency' = concurrency
    BY <1>1 DEF ServerInv, TypeOK, counters
  <2> QED
    BY <1>5, <2>1, <2>2
<1>7. CtxInv' /\ pool' \subseteq Ctxs
  <2>1. conn[c].pc # "await"
    BY <1>2 DEF Ending
  <2> QED
    BY <1>1, <1>2, <1>5, <2>1, SetOne, CtxReleased DEF ServerInv
<1>8. /\ running' \subseteq Ctxs /\ timeoutCh' \in [Ctxs -> BOOLEAN] /\ leaving' \in Nat
      /\ idleConns' \in [Conns -> {"no", "new", "idle"}] /\ connState' \in [Conns -> ConnStates]
      /\ idleConns' = idleConns /\ connState' = connState
  BY <1>1 DEF ServerInv, TypeOK, stateVars
<1>9. GoodConn(k, net'[c], idleConns'[c], connState'[c], Began)
  BY <1>3, <1>5, <1>8 DEF GoodConn
<1>10. conn[c].pc # "accepted" /\ conn[c].pc \notin {"over", "counted"}
  BY <1>2 DEF Ending
<1> HIDE DEF k
<1> QED
  BY <1>1, <1>4, <1>5, <1>6, <1>7, <1>8, <1>9, <1>10, WideStep

-----------------------------------------------------------------------------
(* Handlers, the accept loop and Shutdown.                                 *)

\* What is counted depends on the connections only.
LEMMA SameCounts ==
  ASSUME CountersAre, TypeOK, UNCHANGED <<conn, concurrency>>,
         open' = open + LoopOpen' - LoopOpen
  PROVE  CountersAre' /\ open' \in Nat
<1>1. Served' = Served /\ Started' = Started /\ Passed' = Passed
  BY DEF Served, Started, Passed
<1>2. Cardinality(Served) \in Nat /\ LoopOpen \in {0, 1, 2} /\ LoopOpen' \in {0, 1, 2}
  BY FiniteCounts, FS_CardinalityType DEF LoopOpen
<1>3. open \in Nat
  BY DEF TypeOK
<1> QED
  BY <1>1, <1>2, <1>3 DEF CountersAre

\* Nor when the accept loop stays where it is.
LEMMA SameLoop ==
  ASSUME CountersAre, TypeOK, UNCHANGED <<conn, open, concurrency, spc>>
  PROVE  CountersAre'
<1>1. LoopOpen' = LoopOpen /\ LoopOpen \in {0, 1, 2} /\ open \in Nat
  BY DEF LoopOpen, TypeOK
<1> QED
  BY <1>1, SameCounts

\* A handler that TimeoutHandler started returns.
LEMMA HandlerReturnStep ==
  ASSUME ServerInv, NEW x \in Ctxs, HandlerReturn(x)
  PROVE  ServerInv'
<1>1. /\ UNCHANGED <<conn, net, acceptVars, counters, stateVars, shutVars, pool>>
      /\ x \in running /\ running' = running \ {x} /\ leaving' = leaving + 1
      /\ timeoutCh' = [timeoutCh EXCEPT ![x] = ~Abandoned(x)]
  BY DEF HandlerReturn
<1>2. timeoutCh' \in [Ctxs -> BOOLEAN]
  <2>1. (~Abandoned(x)) \in BOOLEAN /\ timeoutCh \in [Ctxs -> BOOLEAN]
    BY DEF ServerInv, TypeOK, Abandoned
  <2> QED
    BY <1>1, <2>1, Zenon
<1>3. TypeOK'
  BY <1>1, <1>2 DEF ServerInv, TypeOK, acceptVars, counters, stateVars, shutVars
<1>4. CtxInv'
  <2>1. \A c \in Conns : conn[c].ctx = x => At(c, "await")
    BY <1>1, ServerAssumption DEF ServerInv, CtxInv
  <2>2. x \notin pool
    BY <1>1 DEF ServerInv, CtxInv
  <2>3. \A y \in Ctxs : y # x => timeoutCh'[y] = timeoutCh[y]
    BY <1>1 DEF ServerInv, TypeOK
  <2>4. ASSUME NEW y \in Ctxs, timeoutCh'[y]
        PROVE  y \notin pool \cup running' /\ \A c \in Conns : conn[c].ctx = y => At(c, "await")
    BY <1>1, <2>1, <2>2, <2>3, <2>4 DEF ServerInv, CtxInv
  <2>5. pool \cap running' = {}
    BY <1>1 DEF ServerInv, CtxInv
  <2>6. \A c \in Conns : conn[c].ctx # NoCtx =>
           /\ conn[c].ctx \notin pool
           /\ \A d \in Conns : conn[d].ctx = conn[c].ctx => d = c
           /\ conn[c].ctx \in running' => At(c, "await")
    BY <1>1 DEF ServerInv, CtxInv
  <2> QED
    BY <1>1, <2>4, <2>5, <2>6 DEF CtxInv, At
<1>5. ConnsGood' /\ AcceptInv'
  BY <1>1 DEF ServerInv, ConnsGood, AcceptInv, At, Began, stateVars, shutVars, acceptVars
<1>6. CountersAre'
  BY <1>1, SameLoop DEF ServerInv, counters, acceptVars
<1> QED
  BY <1>3, <1>4, <1>5, <1>6 DEF ServerInv

\* It leaves concurrencyCh.
LEMMA HandlerLeaveStep ==
  ASSUME ServerInv, HandlerLeave
  PROVE  ServerInv'
<1>1. /\ UNCHANGED <<conn, net, acceptVars, counters, stateVars, shutVars, pool, running, timeoutCh>>
      /\ leaving > 0 /\ leaving' = leaving - 1
  BY DEF HandlerLeave
<1>2. TypeOK'
  BY <1>1 DEF ServerInv, TypeOK, acceptVars, counters, stateVars, shutVars
<1>3. CtxInv' /\ ConnsGood' /\ AcceptInv'
  BY <1>1 DEF ServerInv, ConnsGood, AcceptInv, CtxInv, At, Began, stateVars, shutVars, acceptVars
<1>4. CountersAre'
  BY <1>1, SameLoop DEF ServerInv, counters, acceptVars
<1> QED
  BY <1>2, <1>3, <1>4 DEF ServerInv

\* Serve registers its listener.
LEMMA ServeStep ==
  ASSUME ServerInv, Serve
  PROVE  ServerInv'
<1>1. /\ UNCHANGED <<conn, net, acc, counters, stateVars, stop, shpc, shres, ctxVars>>
      /\ spc = "off" /\ spc' = "registered" /\ listener' = "open" /\ concurrencyCh' = TRUE
  BY DEF Serve
<1>2. TypeOK'
  BY <1>1 DEF ServerInv, TypeOK, counters, stateVars, ctxVars
<1>3. CtxInv' /\ ConnsGood' /\ AcceptInv'
  BY <1>1 DEF ServerInv, ConnsGood, AcceptInv, Holding, CtxInv, At, Began, stateVars, ctxVars
<1>4. CountersAre'
  <2>1. LoopOpen' = 0 /\ LoopOpen = 0 /\ open' = open /\ open \in Nat
    BY <1>1 DEF LoopOpen, counters, ServerInv, TypeOK
  <2> QED
    BY <1>1, <2>1, SameCounts DEF ServerInv, counters
<1> QED
  BY <1>2, <1>3, <1>4 DEF ServerInv

\* The accept loop counts as an open connection, until Serve returns.
LEMMA ServeCountStep ==
  ASSUME ServerInv, ServeCount \/ AcceptError
  PROVE  ServerInv'
<1>1. /\ UNCHANGED <<conn, net, acc, concurrency, stateVars, shutVars, ctxVars>>
      /\ \/ spc = "registered" /\ spc' = "accept" /\ open' = open + 1
         \/ spc = "accept" /\ spc' = "off" /\ open' = open - 1
  BY DEF ServeCount, AcceptError
<1>4. CountersAre' /\ open' \in Nat
  <2>1. open \in Nat /\ open' = open + LoopOpen' - LoopOpen
    BY <1>1 DEF LoopOpen, ServerInv, TypeOK
  <2> QED
    BY <1>1, <2>1, SameCounts DEF ServerInv
<1>5. TypeOK'
  BY <1>1, <1>4 DEF ServerInv, TypeOK, stateVars, shutVars, ctxVars
<1>6. CtxInv' /\ ConnsGood' /\ AcceptInv'
  BY <1>1 DEF ServerInv, ConnsGood, AcceptInv, Holding, CtxInv, At, Began, stateVars, ctxVars, shutVars
<1> QED
  BY <1>4, <1>5, <1>6 DEF ServerInv

\* The program closes the listener.
LEMMA CloseListenerStep ==
  ASSUME ServerInv, CloseListener
  PROVE  ServerInv'
<1>1. /\ UNCHANGED <<conn, net, acceptVars, counters, stateVars, stop, concurrencyCh, shpc,
                     shres, ctxVars>>
      /\ listener' = "closed"
  BY DEF CloseListener
<1>2. TypeOK'
  BY <1>1 DEF ServerInv, TypeOK, acceptVars, counters, stateVars, ctxVars
<1>3. CtxInv' /\ ConnsGood' /\ AcceptInv'
  BY <1>1 DEF ServerInv, ConnsGood, AcceptInv, CtxInv, At, Began, stateVars, ctxVars, acceptVars
<1>4. CountersAre'
  BY <1>1, SameLoop DEF ServerInv, counters, acceptVars
<1> QED
  BY <1>2, <1>3, <1>4 DEF ServerInv

\* The step of the accept loop on the connection c it takes, passes on or drops.
LEMMA AcceptLoopStep ==
  ASSUME ServerInv, NEW c \in Conns \ Direct, NEW k \in Rec, Set(c, k),
         GoodConn(k, net[c], idleConns'[c], connState'[c], Began),
         idleConns' \in [Conns -> {"no", "new", "idle"}], connState' \in [Conns -> ConnStates],
         \A d \in Conns : d # c => idleConns'[d] = idleConns[d] /\ connState'[d] = connState[d],
         conn[c].pc \in {"none", "accepted"}, k.pc \in {"accepted", "start", "gone"},
         \A d \in Conns : d # c => conn[d].pc # "accepted",
         k.ctx = conn[c].ctx,
         IF k.pc = "accepted"
           THEN spc' = "accepted" /\ acc' = c /\ (net[c] = "open" \/ Began)
           ELSE spc' = "accept" /\ acc' = NoConn,
         LoopOpen = LoopOpen' + Open(k.pc), UNCHANGED <<net, counters, shutVars, ctxVars>>
  PROVE  ServerInv'
<1>1. Began' = Began /\ net' = net
  BY DEF Began, shutVars
<1>2. /\ conn' \in [Conns -> Rec] /\ conn'[c] = k
      /\ \A d \in Conns : d # c => conn'[d] = conn[d]
      /\ ConnsGood'
  BY <1>1, OneConn
<1>3. CountersAre' /\ open' \in Nat /\ concurrency' \in Nat
  <2>1. /\ Open(conn[c].pc) = 0 /\ Counted(conn[c].pc) = 0 /\ Counted(k.pc) = 0
        /\ Counted2(c, conn[c].pc) = 0 /\ Counted2(c, k.pc) = 0 /\ Open(k.pc) \in {0, 1}
        /\ LoopOpen' \in {0, 1, 2} /\ LoopOpen \in {0, 1, 2}
    BY DEF Open, Counted, Counted2, Unserved, LoopOpen
  <2>2. /\ open \in Nat /\ concurrency \in Nat /\ open' = open /\ concurrency' = concurrency
    BY DEF ServerInv, TypeOK, counters
  <2>3. /\ open' = open + Open(conn'[c].pc) - Open(conn[c].pc) + LoopOpen' - LoopOpen
        /\ concurrency' = concurrency + Counted(conn'[c].pc) - Counted(conn[c].pc)
                                    + Counted2(c, conn'[c].pc) - Counted2(c, conn[c].pc)
    BY <1>2, <2>1, <2>2
  <2> QED
    BY <1>2, <2>3, CountStep DEF ServerInv
<1>4. TypeOK'
  BY <1>1, <1>2, <1>3 DEF ServerInv, TypeOK, Rec, shutVars, ctxVars
<1>5. CtxInv'
  BY <1>2, CtxKept DEF ServerInv, ctxVars
<1>6. AcceptInv'
  <2>1. \A d \in Conns : /\ At(d, "accepted")' => d = c /\ k.pc = "accepted"
                         /\ conn'[d].pc \in {"over", "counted"} => d \in Direct
    BY <1>2 DEF At, ServerInv, AcceptInv
  <2>2. stop' => Began'
    BY <1>1 DEF ServerInv, AcceptInv, shutVars
  <2> QED
    BY <1>1, <1>2, <2>1, <2>2 DEF AcceptInv, At, Holding
<1> QED
  BY <1>2, <1>3, <1>4, <1>5, <1>6 DEF ServerInv

\* A connection is accepted.
LEMMA AcceptStep ==
  ASSUME ServerInv, NEW c \in Conns, Accept(c)
  PROVE  ServerInv'
<1> DEFINE k == [conn[c] EXCEPT !.pc = "accepted"]
<1>1. /\ UNCHANGED <<net, counters, shutVars, ctxVars>>
      /\ c \in Conns \ Direct /\ conn[c].pc = "none" /\ Set(c, k)
      /\ SetState(c, "new") /\ "new" \in ConnStates
      /\ spc = "accept" /\ spc' = "accepted" /\ acc' = c
  BY DEF Accept, At, Goto, ConnStates
<1>2. conn[c] \in Rec /\ "accepted" \in PCs
  BY Known DEF PCs
<1>3. k \in Rec
  BY <1>2, Zenon DEF Rec
<1>4. /\ idleConns' \in [Conns -> {"no", "new", "idle"}] /\ connState' \in [Conns -> ConnStates]
      /\ connState'[c] = "new" /\ idleConns'[c] = "new"
      /\ \A d \in Conns : d # c => idleConns'[d] = idleConns[d] /\ connState'[d] = connState[d]
  BY <1>1, SetStateTypes DEF ServerInv
<1>5. /\ k.ctx = conn[c].ctx /\ k.pc = "accepted"
      /\ GoodState(k, "new") /\ GoodIdle(k, "new") /\ GoodHeld(k, Began)
      /\ GoodHijack(k) /\ GoodNet(k, net[c], Began)
  BY <1>1, Known, RecFields DEF GoodState, GoodIdle, GoodHeld, GoodHijack, GoodNet,
     Rec, Quiet, Between, Serving, Ending
<1>6. GoodConn(k, net[c], idleConns'[c], connState'[c], Began)
  BY <1>3, <1>4, <1>5 DEF GoodConn
<1>7. net[c] = "open" \/ Began
  <2>1. net[c] \in {"open", "closed"}
    BY DEF ServerInv, TypeOK
  <2> QED
    BY <1>1, <2>1, Known DEF GoodNet, Ending
<1>8. \A d \in Conns : conn[d].pc # "accepted"
  BY <1>1 DEF ServerInv, AcceptInv, At, Holding
<1>9. LoopOpen = LoopOpen' + Open("accepted")
  BY <1>1 DEF Open, Unserved, LoopOpen
<1> HIDE DEF k
<1> QED
  BY <1>1, <1>3, <1>4, <1>5, <1>6, <1>7, <1>8, <1>9, AcceptLoopStep

\* The accept loop goes on with the connection it holds.
LEMMA HoldingStep ==
  ASSUME ServerInv, spc \in Holding, spc' \in Holding, UNCHANGED <<conn, acc>>,
         net' \in [Conns -> {"open", "closed"}],
         \A d \in Conns : d # acc => net'[d] = net[d],
         spc' = "handoff" => net'[acc] = net[acc] /\ spc = "accepted",
         spc' # "accepted", open' = open + LoopOpen' - LoopOpen, concurrency' = concurrency,
         UNCHANGED <<stateVars, shutVars, ctxVars>>
  PROVE  ServerInv'
<1>1. acc \in Conns /\ conn[acc].pc = "accepted" /\ Began' = Began
  BY DEF ServerInv, AcceptInv, At, Began, shutVars
<1>2. CountersAre' /\ open' \in Nat
  BY SameCounts DEF ServerInv
<1>3. TypeOK'
  BY <1>2 DEF ServerInv, TypeOK, Holding, stateVars, shutVars, ctxVars
<1>4. ConnsGood'
  <2>1. \A d \in Conns : GoodConn(conn[d], net'[d], idleConns[d], connState[d], Began)
    BY <1>1 DEF ServerInv, ConnsGood, GoodConn, GoodNet
  <2> QED
    BY <1>1, <2>1 DEF ConnsGood, stateVars
<1>5. CtxInv'
  BY DEF ServerInv, CtxInv, At, ctxVars
<1>6. AcceptInv'
  BY <1>1 DEF ServerInv, AcceptInv, At, shutVars
<1> QED
  BY <1>2, <1>3, <1>4, <1>5, <1>6 DEF ServerInv

\* It is counted, refused, counted no more and closed.
LEMMA HoldingSteps ==
  ASSUME ServerInv, AcceptCount \/ HandoffRefused \/ RefusedCount \/ RefusedClose
  PROVE  ServerInv'
<1>1. /\ spc \in Holding /\ spc' \in Holding \ {"accepted"} /\ UNCHANGED <<conn, acc>>
      /\ UNCHANGED <<stateVars, shutVars, ctxVars>> /\ concurrency' = concurrency
      /\ spc' = "handoff" => net' = net /\ spc = "accepted"
  BY DEF AcceptCount, HandoffRefused, RefusedCount, RefusedClose, Holding, counters
<1>2. open' = open + LoopOpen' - LoopOpen
  <2>1. open \in Nat
    BY DEF ServerInv, TypeOK
  <2>2. CASE AcceptCount
    <3>1. LoopOpen = 1 /\ LoopOpen' = 2 /\ open' = open + 1
      BY <2>2 DEF AcceptCount, LoopOpen
    <3> QED
      BY <2>1, <3>1
  <2>3. CASE HandoffRefused
    <3>1. LoopOpen = 2 /\ LoopOpen' = 2 /\ open' = open
      BY <2>3 DEF HandoffRefused, LoopOpen, counters
    <3> QED
      BY <2>1, <3>1
  <2>4. CASE RefusedCount
    <3>1. LoopOpen = 2 /\ LoopOpen' = 1 /\ open' = open - 1
      BY <2>4 DEF RefusedCount, LoopOpen
    <3> QED
      BY <2>1, <3>1
  <2>5. CASE RefusedClose
    <3>1. LoopOpen = 1 /\ LoopOpen' = 1 /\ open' = open
      BY <2>5 DEF RefusedClose, LoopOpen, counters
    <3> QED
      BY <2>1, <3>1
  <2> QED
    BY <2>2, <2>3, <2>4, <2>5
<1>3. net' = net \/ net' = [net EXCEPT ![acc] = "closed"]
  BY DEF AcceptCount, HandoffRefused, RefusedCount, RefusedClose
<1>4. /\ net' \in [Conns -> {"open", "closed"}] /\ \A d \in Conns : d # acc => net'[d] = net[d]
  BY <1>3 DEF ServerInv, TypeOK
<1> QED
  BY <1>1, <1>2, <1>4, HoldingStep

\* The connection is passed to a worker.
LEMMA HandoffStep ==
  ASSUME ServerInv, Handoff
  PROVE  ServerInv'
<1>1. PICK c \in Conns \ Direct : c = acc /\ conn[c].pc = "accepted"
  BY DEF Handoff, ServerInv, AcceptInv, At, Holding
<1> DEFINE k == [conn[c] EXCEPT !.pc = "start"]
<1>2. /\ UNCHANGED <<net, counters, stateVars, shutVars, ctxVars>>
      /\ Set(c, k)
      /\ spc = "handoff" /\ spc' = "accept" /\ acc' = NoConn
  BY <1>1 DEF Handoff, Goto
<1>3. conn[c] \in Rec /\ "start" \in PCs /\ (net[c] = "open" \/ Began)
  BY <1>1, <1>2, Known DEF PCs, ServerInv, AcceptInv
<1>4. k \in Rec
  BY <1>3, Zenon DEF Rec
<1>5. /\ k.ctx = conn[c].ctx /\ k.pc = "start"
      /\ GoodState(k, connState[c]) /\ GoodIdle(k, idleConns[c]) /\ GoodHeld(k, Began)
      /\ GoodHijack(k) /\ GoodNet(k, net[c], Began)
  BY <1>1, <1>3, Known, RecFields DEF GoodState, GoodIdle, GoodHeld, GoodHijack, GoodNet,
     Rec, Quiet, Between, Serving, Ending
<1>6. /\ idleConns' \in [Conns -> {"no", "new", "idle"}] /\ connState' \in [Conns -> ConnStates]
      /\ idleConns' = idleConns /\ connState' = connState
  BY <1>2 DEF ServerInv, TypeOK, stateVars
<1>7. GoodConn(k, net[c], idleConns'[c], connState'[c], Began)
  BY <1>4, <1>5, <1>6 DEF GoodConn
<1>8. \A d \in Conns : d # c => conn[d].pc # "accepted"
  BY <1>1 DEF ServerInv, AcceptInv, At
<1>9. LoopOpen = LoopOpen' + Open("start")
  BY <1>2 DEF Open, Unserved, LoopOpen
<1> HIDE DEF k
<1> QED
  BY <1>1, <1>2, <1>4, <1>5, <1>6, <1>7, <1>8, <1>9, AcceptLoopStep

\* The last state of a refused connection is reported.
LEMMA RefusedStateStep ==
  ASSUME ServerInv, RefusedState
  PROVE  ServerInv'
<1>1. PICK c \in Conns \ Direct : c = acc /\ conn[c].pc = "accepted"
  BY DEF RefusedState, ServerInv, AcceptInv, At, Holding
<1>2. /\ UNCHANGED <<net, counters, shutVars, ctxVars>> /\ Gone(c)
      /\ SetState(c, "closed") /\ "closed" \in ConnStates
      /\ spc = "closed" /\ spc' = "accept" /\ acc' = NoConn
  BY <1>1 DEF RefusedState, ConnStates
<1>3. PICK k \in Rec : /\ Set(c, k) /\ k.pc = "gone" /\ k.held = 0
                       /\ k.ctx = conn[c].ctx /\ k.hijack = conn[c].hijack
  BY <1>2, GoneRec
<1>4. /\ idleConns' \in [Conns -> {"no", "new", "idle"}] /\ connState' \in [Conns -> ConnStates]
      /\ connState'[c] = "closed" /\ idleConns'[c] = "no"
      /\ \A d \in Conns : d # c => idleConns'[d] = idleConns[d] /\ connState'[d] = connState[d]
  BY <1>2, SetStateTypes DEF ServerInv
<1>5. /\ GoodState(k, "closed") /\ GoodIdle(k, "no") /\ GoodHeld(k, Began)
      /\ GoodHijack(k) /\ GoodNet(k, net[c], Began)
  BY <1>1, <1>3, Known, RecFields DEF GoodState, GoodIdle, GoodHeld, GoodHijack, GoodNet,
     Rec, Quiet, Between, Serving, Ending
<1>6. GoodConn(k, net[c], idleConns'[c], connState'[c], Began)
  BY <1>3, <1>4, <1>5 DEF GoodConn
<1>7. \A d \in Conns : d # c => conn[d].pc # "accepted"
  BY <1>1 DEF ServerInv, AcceptInv, At
<1>8. LoopOpen = LoopOpen' + Open("gone")
  BY <1>2 DEF Open, Unserved, LoopOpen
<1> QED
  BY <1>1, <1>2, <1>3, <1>4, <1>6, <1>7, <1>8, AcceptLoopStep

\* A step of Shutdown: from then on it has been called.
LEMMA ShutdownStep ==
  ASSUME ServerInv, Began', UNCHANGED <<conn, connState, acceptVars, counters, ctxVars>>,
         net' \in [Conns -> {"open", "closed"}], idleConns' \in [Conns -> {"no", "new", "idle"}],
         \A c \in Conns : idleConns'[c] \in {idleConns[c], "no"},
         listener' \in {"none", "open", "closed"}, stop' \in BOOLEAN, concurrencyCh' \in BOOLEAN,
         shpc' \in {"off", "close", "sweep", "check", "wait"},
         shres' \in {"none", "nil", "err", "ctx"}
  PROVE  ServerInv'
<1>1. TypeOK'
  BY DEF ServerInv, TypeOK, acceptVars, counters, ctxVars
<1>2. ConnsGood'
  <2>1. ASSUME NEW c \in Conns
        PROVE  GoodConn(conn[c], net'[c], idleConns'[c], connState[c], Began')
    BY Known DEF GoodConn, GoodHeld, GoodNet, GoodIdle
  <2> QED
    BY <2>1 DEF ConnsGood
<1>3. CtxInv' /\ AcceptInv'
  BY DEF ServerInv, CtxInv, AcceptInv, At, acceptVars, ctxVars
<1>4. CountersAre'
  BY SameLoop DEF ServerInv, counters, acceptVars
<1> QED
  BY <1>1, <1>2, <1>3, <1>4 DEF ServerInv

\* Shutdown is called, waits, looks again and returns.
LEMMA ShutdownQuietStep ==
  ASSUME ServerInv,
         \/ Shutdown \/ ShutdownNoListener \/ ShutdownCloseError \/ ShutdownClose
         \/ ShutdownReturn("nil") \/ ShutdownReturn("ctx") \/ ShutdownWait \/ ShutdownTick
  PROVE  ServerInv'
<1>1. /\ UNCHANGED <<conn, net, idleConns, connState, acceptVars, counters, ctxVars, concurrencyCh>>
      /\ listener' \in {listener, "none", "closed"} /\ stop' \in {stop, TRUE, FALSE}
      /\ shpc' \in {"off", "close", "sweep", "check", "wait"}
      /\ shres' \in {shres, "none", "nil", "err", "ctx"}
      /\ shpc' # "off" \/ shres' # "none"
  BY DEF Shutdown, ShutdownNoListener, ShutdownCloseError, ShutdownClose, ShutdownReturn,
         ShutdownWait, ShutdownTick, stateVars
<1>2. /\ net' \in [Conns -> {"open", "closed"}] /\ idleConns' \in [Conns -> {"no", "new", "idle"}]
      /\ \A c \in Conns : idleConns'[c] \in {idleConns[c], "no"}
      /\ listener' \in {"none", "open", "closed"} /\ stop' \in BOOLEAN
      /\ concurrencyCh' \in BOOLEAN /\ shres' \in {"none", "nil", "err", "ctx"}
  BY <1>1 DEF ServerInv, TypeOK
<1>3. Began'
  BY <1>1 DEF Began
<1> QED
  BY <1>1, <1>2, <1>3, ShutdownStep

\* Shutdown closes the idle connections.
LEMMA CloseIdleConnsStep ==
  ASSUME ServerInv, NEW old \in SUBSET Conns, CloseIdleConns(old)
  PROVE  ServerInv'
<1> DEFINE closed == {c \in Conns : idleConns[c] = "idle"} \cup old
<1>1. /\ UNCHANGED <<conn, connState, acceptVars, counters, listener, stop, concurrencyCh,
                     shres, ctxVars>>
      /\ net' = [c \in Conns |-> IF c \in closed THEN "closed" ELSE net[c]]
      /\ idleConns' = [c \in Conns |-> IF c \in closed THEN "no" ELSE idleConns[c]]
      /\ shpc' = "check"
  BY DEF CloseIdleConns
<1> HIDE DEF closed
<1>2. /\ net' \in [Conns -> {"open", "closed"}] /\ idleConns' \in [Conns -> {"no", "new", "idle"}]
      /\ \A c \in Conns : idleConns'[c] \in {idleConns[c], "no"}
      /\ listener' \in {"none", "open", "closed"} /\ stop' \in BOOLEAN
      /\ concurrencyCh' \in BOOLEAN /\ shres' \in {"none", "nil", "err", "ctx"}
  BY <1>1 DEF ServerInv, TypeOK
<1>3. Began'
  BY <1>1 DEF Began
<1> QED
  BY <1>1, <1>2, <1>3, ShutdownStep

-----------------------------------------------------------------------------
(* The invariant.                                                          *)

\* A server that has not been started.
LEMMA InitServer == Init => ServerInv
<1> SUFFICES ASSUME Init PROVE ServerInv
  OBVIOUS
<1>1. Blank("none") \in Rec
  BY DEF Blank, Rec, PCs
<1>2. /\ \A c \in Conns : conn[c] = Blank("none") /\ net[c] = "open" /\ idleConns[c] = "no"
                          /\ connState[c] = "none"
      /\ conn \in [Conns -> Rec]
  BY <1>1 DEF Init
<1>3. /\ Blank("none").pc = "none" /\ Blank("none").held = 0 /\ Blank("none").ctx = NoCtx
      /\ Blank("none").hijack = "no"
  BY DEF Blank
<1>4. TypeOK
  <2>1. timeoutCh \in [Ctxs -> BOOLEAN]
    BY Zenon DEF Init
  <2>2. /\ net \in [Conns -> {"open", "closed"}] /\ idleConns \in [Conns -> {"no", "new", "idle"}]
        /\ connState \in [Conns -> ConnStates]
    BY DEF Init, ConnStates
  <2> QED
    BY <1>2, <2>1, <2>2 DEF Init, TypeOK, Rec
<1>5. ConnsGood
  <2>1. \A b : GoodConn(Blank("none"), "open", "no", "none", b)
    BY <1>1, <1>3 DEF GoodConn, GoodState, GoodIdle, GoodHeld, GoodHijack, GoodNet, Between,
       Serving, Ending
  <2> QED
    BY <1>2, <2>1 DEF ConnsGood
<1>6. CtxInv
  BY <1>2, <1>3 DEF Init, CtxInv
<1>7. AcceptInv
  BY <1>2, <1>3 DEF Init, AcceptInv, At, Holding
<1>8. CountersAre
  <2>1. Served = {} /\ Started = {} /\ Passed = {}
    BY <1>2, <1>3, ServerAssumption DEF Served, Started, Passed, Unserved, At
  <2> QED
    BY <2>1, FS_EmptySet DEF Init, CountersAre, LoopOpen
<1> QED
  BY <1>4, <1>5, <1>6, <1>7, <1>8 DEF ServerInv

\* Nothing happens.
LEMMA StutterServer ==
  ASSUME ServerInv, UNCHANGED vars
  PROVE  ServerInv'
<1> USE DEF vars
<1>1. TypeOK' /\ ConnsGood' /\ CtxInv' /\ AcceptInv'
  BY DEF ServerInv, TypeOK, ConnsGood, CtxInv, AcceptInv, At, Began
<1>2. CountersAre'
  BY SameLoop DEF ServerInv
<1> QED
  BY <1>1, <1>2 DEF ServerInv

\* Every step of the server, its clients and its handlers keeps the invariant.
LEMMA NextServer == ServerInv /\ [Next]_vars => ServerInv'
<1> SUFFICES ASSUME ServerInv, [Next]_vars PROVE ServerInv'
  OBVIOUS
<1>1. ASSUME NEW c \in Conns, ClientNext(c) PROVE ServerInv'
  BY <1>1, ClientSendStep, ClientCloseStep DEF ClientNext
<1>2. ASSUME NEW c \in Conns, ConnNext(c) PROVE ServerInv'
  <2>1. \/ ServeConnOpen(c) \/ ServeConnRefused(c) \/ Start(c) \/ Loop(c) \/ (\E n \in 1..conn[c].sock : Fill(c, n))
        \/ Peek(c) \/ ByteReader(c) \/ Active(c) \/ HeaderRead(c)
        => ServerInv'
    BY ServeConnOpenStep, ServeConnRefusedStep, StartStep, LoopStep, FillStep, PeekStep, ByteReaderStep,
       ActiveStep, HeaderReadStep
  <2>2. \/ HeaderNeedsMore(c) \/ HeaderNothing(c) \/ ReadError(c) \/ WriteError(c)
        \/ BodyRead(c) \/ ExpectDeny(c) \/ ExpectContinue(c) \/ Handle(c)
        => ServerInv'
    BY HeaderNeedsMoreStep, HeaderNothingStep, ReadErrorStep, WriteErrorStep, BodyReadStep,
       ExpectDenyStep, ExpectContinueStep, HandleStep
  <2>3. \/ TimeoutStart(c) \/ TimeoutDone(c) \/ TimeoutFires(c)
        \/ RespondPanics(c) \/ RespondFail(c) \/ RespondClose(c) \/ RespondKeep(c)
        \/ RespondHijack(c) \/ HijackFail(c)
        => ServerInv'
    BY TimeoutStartStep, TimeoutDoneStep, TimeoutFiresStep, RespondPanicsStep, RespondFailStep, RespondCloseStep,
       RespondKeepStep, RespondHijackStep, HijackFailStep
  <2>4. \/ Idle(c) \/ CheckStop(c) \/ Exit(c) \/ CleanupOpen(c) \/ CleanupConcurrency(c)
        \/ CloseConn(c) \/ Report(c) \/ WorkerReady(c)
        => ServerInv'
    BY IdleStep, CheckStopStep, ExitStep, CleanupOpenStep, CleanupConcurrencyStep, CloseConnStep, ReportStep, WorkerReadyStep
  <2> QED
    BY <1>2, <2>1, <2>2, <2>3, <2>4 DEF ConnNext
<1>3. ASSUME NEW c \in Conns, ServeConn(c) \/ HijackReturn(c) PROVE ServerInv'
  BY <1>3, ServeConnStep, HijackReturnStep
<1>4. CASE ServeNext
  BY <1>4, ServeStep, ServeCountStep, HoldingSteps, HandoffStep, RefusedStateStep,
     CloseListenerStep, AcceptStep DEF ServeNext
<1>5. CASE HandlerNext
  BY <1>5, HandlerReturnStep, HandlerLeaveStep DEF HandlerNext
<1>6. CASE Shutdown \/ ShutdownNext \/ ShutdownReturn("ctx")
  BY <1>6, ShutdownQuietStep, CloseIdleConnsStep DEF ShutdownNext
<1>7. CASE UNCHANGED vars
  BY <1>7, StutterServer
<1> QED
  BY <1>1, <1>2, <1>3, <1>4, <1>5, <1>6, <1>7 DEF Next

\* Every reachable state satisfies the invariant.
LEMMA ServerInvariant == Spec => []ServerInv
  BY InitServer, NextServer, PTL DEF Spec

-----------------------------------------------------------------------------
(* What the invariant implies.                                             *)

\* The types of the model's variables are kept by every step.
THEOREM ServerTyped == Spec => []TypeOK
<1>1. ServerInv => TypeOK
  BY DEF ServerInv
<1> QED
  BY <1>1, ServerInvariant, PTL

\* Without ServeConn, s.open and s.concurrency count each connection once, in
\* every interleaving of any number of connections, and over every way one can
\* end.
THEOREM CountersAreExact ==
  ASSUME Direct = {}
  PROVE  Spec => []CountersExact
<1>1. ServerInv => CountersExact
  <2> SUFFICES ASSUME ServerInv PROVE CountersExact
    OBVIOUS
  <2>1. Passed = {} /\ InService = Started
    BY DEF Passed, InService
  <2>2. Cardinality(Started) \in Nat /\ Cardinality(Passed) = 0
    BY <2>1, FiniteCounts, FS_CardinalityType, FS_EmptySet
  <2> QED
    BY <2>1, <2>2 DEF ServerInv, CountersAre, CountersExact
<1> QED
  BY <1>1, ServerInvariant, PTL

\* No RequestCtx is used by two connections or handlers, or while it is in
\* s.ctxPool, and none comes with the token of a handler that timed out.
THEOREM CtxsAreExclusive == Spec => []CtxExclusive
<1>1. ServerInv => CtxExclusive
  <2> SUFFICES ASSUME ServerInv, NEW c \in Conns, conn[c].ctx # NoCtx
               PROVE  /\ conn[c].ctx \notin pool
                      /\ \A d \in Conns : conn[d].ctx = conn[c].ctx => d = c
                      /\ conn[c].ctx \in running => At(c, "await")
                      /\ At(c, "handle") => ~timeoutCh[conn[c].ctx]
    BY DEF CtxExclusive
  <2>1. conn[c].ctx \in Ctxs
    BY CtxOf
  <2> QED
    BY <2>1 DEF ServerInv, CtxInv, At
<1> QED
  BY <1>1, ServerInvariant, PTL

\* closeIdleConns finds in s.idleConns only connections that wait for a
\* request or are on their way out.
THEOREM IdleIsTracked == Spec => []IdleTracked
<1>1. ServerInv => IdleTracked
  BY Known DEF IdleTracked, GoodIdle
<1> QED
  BY <1>1, ServerInvariant, PTL

\* A connection ends with nothing in its writer, unless the client is gone or
\* Shutdown was called.
THEOREM ResponsesAreFlushed == Spec => []AnsweredUnlessShutdown
<1>1. ServerInv => AnsweredUnlessShutdown
  BY Known DEF AnsweredUnlessShutdown, GoodHeld, Ending, Began
<1> QED
  BY <1>1, ServerInvariant, PTL

\* serveConn flushes before it waits for the next request.
THEOREM NothingIsHeldBack == Spec => []NothingHeldBack
<1>1. ServerInv => NothingHeldBack
  BY Known, RecFields DEF NothingHeldBack, GoodHeld, At
<1> QED
  BY <1>1, ServerInvariant, PTL

\* Only Shutdown itself ends a Shutdown that looks at s.open, and it finds zero.
LEMMA ReturnsAtZero ==
  ASSUME Next, shpc = "check", shpc' = "off"
  PROVE  open = 0
<1>1. ASSUME NEW c \in Conns, ClientNext(c) \/ ServeConn(c) \/ HijackReturn(c) PROVE shpc' = shpc
  BY <1>1 DEF ClientNext, ClientSend, ClientClose, ServeConn, HijackReturn, shutVars
<1>2. ASSUME NEW c \in Conns, ConnNext(c) PROVE shpc' = shpc
  BY <1>2 DEF ConnNext, ServeConnOpen, ServeConnRefused, Start, Loop, Fill, Peek, ByteReader, Active, HeaderRead,
     HeaderNeedsMore, HeaderNothing, ReadError, WriteError, BodyRead, ExpectDeny, ExpectContinue,
     Handle, TimeoutStart, TimeoutDone, TimeoutFires, RespondPanics, RespondFail, RespondClose, RespondKeep,
     RespondHijack, HijackFail, Idle, CheckStop, Exit, CleanupOpen, CleanupConcurrency, CloseConn, Report, WorkerReady, shutVars
<1>3. ASSUME ServeNext \/ HandlerNext PROVE shpc' = shpc
  BY <1>3 DEF ServeNext, Serve, ServeCount, AcceptCount, Handoff, HandoffRefused, RefusedCount,
     RefusedClose, RefusedState, AcceptError,
     CloseListener, Accept, HandlerNext, HandlerReturn, HandlerLeave, shutVars
<1>4. ASSUME Shutdown \/ ShutdownNext \/ ShutdownReturn("ctx") PROVE open = 0
  BY <1>4 DEF Shutdown, ShutdownNext, ShutdownNoListener, ShutdownCloseError, ShutdownClose,
     CloseIdleConns, ShutdownReturn, ShutdownWait, ShutdownTick
<1> QED
  BY <1>1, <1>2, <1>3, <1>4 DEF Next

\* When Shutdown returns nil, no connection that Serve accepted is being
\* served or about to be: s.open is exact, and the accept loop holds a
\* connection only while it counts itself.
THEOREM ShutdownDrains == Spec => DrainedOnReturn
<1>1. ServerInv /\ [Next]_vars =>
        [shpc = "check" /\ shpc' = "off" =>
           \A c \in Conns \ Direct : c \notin Served /\ ~At(c, "accepted")]_vars
  <2> SUFFICES ASSUME ServerInv, Next, shpc = "check", shpc' = "off", NEW c \in Conns
               PROVE  c \notin Served /\ ~At(c, "accepted")
    BY DEF vars
  <2>1. open = 0
    BY ReturnsAtZero
  <2>2. Cardinality(Served) \in Nat /\ IsFiniteSet(Served)
    BY FiniteCounts, FS_CardinalityType
  <2>3. Cardinality(Served) = 0 /\ spc \in {"off", "registered"}
    BY <2>1, <2>2 DEF ServerInv, CountersAre, LoopOpen
  <2>4. Served = {}
    BY <2>2, <2>3, FS_EmptySet
  <2> QED
    BY <2>3, <2>4 DEF ServerInv, AcceptInv, Holding
<1> QED
  BY <1>1, ServerInvariant, PTL DEF Spec, DrainedOnReturn

\* The transitions a connection may make between the states it reports.
Follows(s, t) ==
  s # t => <<s, t>> \in
              {<<"none", "new">>, <<"new", "active">>, <<"new", "closed">>,
               <<"active", "idle">>, <<"active", "hijacked">>, <<"active", "closed">>,
               <<"idle", "active">>, <<"idle", "closed">>}

\* A report of c that follows its last one.
LEMMA ReportFollows ==
  ASSUME ServerInv, NEW c \in Conns, NEW s \in ConnStates, SetState(c, s), Follows(connState[c], s)
  PROVE  \A d \in Conns : Follows(connState[d], connState'[d])
<1>1. connState'[c] = s /\ \A d \in Conns : d # c => connState'[d] = connState[d]
  BY SetStateTypes DEF ServerInv
<1> QED
  BY <1>1 DEF Follows

\* Every step reports in order.
LEMMA OrderStep ==
  ASSUME NoDirect, ServerInv, [Next]_vars
  PROVE  \A d \in Conns : Follows(connState[d], connState'[d])
<1>0. ASSUME UNCHANGED connState
      PROVE  \A d \in Conns : Follows(connState[d], connState'[d])
  BY <1>0 DEF Follows
<1>1. ASSUME NEW c \in Conns, ClientNext(c) \/ ServeConn(c) \/ HijackReturn(c)
      PROVE  UNCHANGED connState
  BY <1>1 DEF ClientNext, ClientSend, ClientClose, ServeConn, HijackReturn, stateVars
<1>2. ASSUME NEW c \in Conns, ConnNext(c)
      PROVE  Active(c) \/ Idle(c) \/ Report(c) \/ UNCHANGED connState
  BY <1>2 DEF ConnNext, ServeConnOpen, ServeConnRefused, Start, Loop, Fill, Peek, ByteReader, HeaderRead,
     HeaderNeedsMore, HeaderNothing, ReadError, WriteError, BodyRead, ExpectDeny, ExpectContinue,
     Handle, TimeoutStart, TimeoutDone, TimeoutFires, RespondPanics, RespondFail, RespondClose, RespondKeep,
     RespondHijack, HijackFail, CheckStop, Exit, CleanupOpen, CleanupConcurrency, CloseConn, WorkerReady, stateVars
<1>3. ASSUME ServeNext \/ HandlerNext
      PROVE  RefusedState \/ (\E c \in Conns : Accept(c)) \/ UNCHANGED connState
  BY <1>3 DEF ServeNext, Serve, ServeCount, AcceptCount, Handoff, HandoffRefused, RefusedCount,
     RefusedClose, AcceptError,
     CloseListener, HandlerNext, HandlerReturn, HandlerLeave, stateVars
<1>4. ASSUME Shutdown \/ ShutdownNext \/ ShutdownReturn("ctx") PROVE UNCHANGED connState
  BY <1>4 DEF Shutdown, ShutdownNext, ShutdownNoListener, ShutdownCloseError, ShutdownClose,
     CloseIdleConns, ShutdownReturn, ShutdownWait, ShutdownTick, stateVars
<1>5. ASSUME NEW c \in Conns, Active(c)
      PROVE  \A d \in Conns : Follows(connState[d], connState'[d])
  <2>1. SetState(c, "active") /\ conn[c].pc = "active" /\ "active" \in ConnStates
    BY <1>5 DEF Active, At, ConnStates
  <2>2. Follows(connState[c], "active")
    BY <2>1, Known DEF GoodState, Between, Follows
  <2> QED
    BY <2>1, <2>2, ReportFollows
<1>6. ASSUME NEW c \in Conns, Idle(c)
      PROVE  \A d \in Conns : Follows(connState[d], connState'[d])
  <2>1. SetState(c, "idle") /\ conn[c].pc = "idle" /\ "idle" \in ConnStates
    BY <1>6 DEF Idle, At, ConnStates
  <2>2. Follows(connState[c], "idle")
    BY <2>1, Known DEF GoodState, Serving, Follows
  <2> QED
    BY <2>1, <2>2, ReportFollows
<1>7. ASSUME NEW c \in Conns, Report(c)
      PROVE  \A d \in Conns : Follows(connState[d], connState'[d])
  <2>1. PICK s \in {"hijacked", "closed"} :
          SetState(c, s) /\ (s = "hijacked" => conn[c].hijack \in {"runs", "done"})
    BY <1>7 DEF Report, Hijacked
  <2>2. conn[c].pc = "report" /\ s \in ConnStates
    BY <1>7 DEF Report, At, ConnStates
  <2>3. Follows(connState[c], s)
    BY <2>1, <2>2, Known DEF GoodState, Follows
  <2> QED
    BY <2>1, <2>2, <2>3, ReportFollows
<1>8. ASSUME RefusedState
      PROVE  \A d \in Conns : Follows(connState[d], connState'[d])
  <2>1. PICK c \in Conns : c = acc /\ conn[c].pc = "accepted"
    BY <1>8 DEF RefusedState, ServerInv, AcceptInv, At, Holding
  <2>2. SetState(c, "closed") /\ "closed" \in ConnStates
    BY <1>8, <2>1 DEF RefusedState, ConnStates
  <2>3. Follows(connState[c], "closed")
    BY <2>1, Known DEF GoodState, Follows
  <2> QED
    BY <2>2, <2>3, ReportFollows
<1>9. ASSUME NEW c \in Conns, Accept(c)
      PROVE  \A d \in Conns : Follows(connState[d], connState'[d])
  <2>1. SetState(c, "new") /\ conn[c].pc = "none" /\ "new" \in ConnStates
    BY <1>9 DEF Accept, At, ConnStates
  <2>2. Follows(connState[c], "new")
    BY <2>1, Known DEF GoodState, Follows
  <2> QED
    BY <2>1, <2>2, ReportFollows
<1>10. CASE UNCHANGED vars
  BY <1>0, <1>10 DEF vars
<1> QED
  BY <1>0, <1>1, <1>2, <1>3, <1>4, <1>5, <1>6, <1>7, <1>8, <1>9, <1>10 DEF Next

\* The states of a connection that Serve accepted follow each other as the
\* ConnState constants document, whatever Shutdown does in between.
THEOREM StatesInOrder ==
  ASSUME Direct = {}
  PROVE  Spec => StateOrder
<1>1. ServerInv /\ [Next]_vars =>
        [\A c \in Conns :
           /\ connState'[c] # connState[c] =>
                <<connState[c], connState'[c]>> \in
                  {<<"none", "new">>, <<"new", "active">>, <<"new", "closed">>,
                   <<"active", "idle">>, <<"active", "hijacked">>, <<"active", "closed">>,
                   <<"idle", "active">>, <<"idle", "closed">>}
           /\ At(c, "active") => connState[c] # "active"]_vars
  <2> SUFFICES ASSUME ServerInv, [Next]_vars, NEW c \in Conns
               PROVE  /\ Follows(connState[c], connState'[c])
                      /\ At(c, "active") => connState[c] # "active"
    BY DEF Follows
  <2>1. Follows(connState[c], connState'[c])
    BY OrderStep DEF NoDirect
  <2>2. At(c, "active") => connState[c] # "active"
    BY Known DEF GoodState, Between, At
  <2> QED
    BY <2>1, <2>2
<1> QED
  BY <1>1, ServerInvariant, PTL DEF Spec, StateOrder

=============================================================================
