------------------------------- MODULE Router -------------------------------
(***************************************************************************)
(* The router of src/fasthttp-routing: route groups and routes are         *)
(* registered, then HandleRequest finds the handlers of a request and runs *)
(* them on a pooled Ctx.  The stores and the groups do not change while    *)
(* requests are served and a Ctx belongs to one request at a time, so the  *)
(* requests that matter to each other are the ones that reuse a Ctx.       *)
(***************************************************************************)
EXTENDS RouteStore, FiniteSets

CONSTANTS Methods,
          RouteChoices,   \* the routes a program may register: [g, ms, path, hs]
          UseChoices,     \* the handlers it may give to Use
          Prefix,         \* the prefix of its route group
          Requests,       \* the requests that may come: [method, path]
          MaxRoutes, MaxRequests   \* bounds

NotFoundChain == <<"MethodNotAllowedHandler", "NotFoundHandler">>
NoStore == [none |-> TRUE]

VARIABLES groups,            \* Seq([prefix, handlers]); the first is the router's own
          stores,            \* [Methods -> store or NoStore]
          maxParams,
          notFoundHandlers,
          regs,              \* history: Seq([method, path, handlers]), as registered
          pooled,            \* sync.Pool holds ctx
          ctx,               \* the Ctx: [pnames, pvalues, handlers, index, bytes]
          call               \* the request: [pc, method, path, frames, ran, status, allow, n]

routerVars == <<groups, stores, maxParams, notFoundHandlers, regs, pooled, ctx, call>>

\* The New function of the pool
NewCtx == [pnames |-> <<>>, pvalues |-> [i \in 1 .. maxParams |-> Blank],
           handlers |-> <<>>, index |-> 0, bytes |-> {}]

RouterInit ==
  /\ groups = <<[prefix |-> <<>>, handlers |-> <<>>]>>
  /\ stores = [m \in Methods |-> NoStore]
  /\ maxParams = 0 /\ notFoundHandlers = NotFoundChain /\ regs = <<>>
  /\ pooled = FALSE
  /\ ctx = [pnames |-> <<>>, pvalues |-> <<>>, handlers |-> <<>>, index |-> 0, bytes |-> {}]
  /\ call = [pc |-> "register", method |-> "", path |-> <<>>, frames |-> 0, ran |-> <<>>,
             status |-> 0, allow |-> {}, n |-> 0]

combineHandlers(h1, h2) == h1 \o h2

\* Use of the router or of a group: the router's handlers also come before
\* the not-found handlers.
Use(g, h) ==
  /\ call.pc = "register" /\ Len(groups[g].handlers) < 1
  /\ groups' = [groups EXCEPT ![g].handlers = Append(@, h)]
  /\ notFoundHandlers' = IF g = 1 THEN combineHandlers(groups'[1].handlers, NotFoundChain)
                                  ELSE notFoundHandlers
  /\ UNCHANGED <<stores, maxParams, regs, pooled, ctx, call>>

\* Group: without handlers of its own a group starts with a copy of its parent's
Group(hs) ==
  /\ call.pc = "register" /\ Len(groups) = 1
  /\ groups' = Append(groups, [prefix |-> groups[1].prefix \o Prefix,
                               handlers |-> IF hs = <<>> THEN groups[1].handlers ELSE hs])
  /\ UNCHANGED <<stores, maxParams, notFoundHandlers, regs, pooled, ctx, call>>

\* The path of a route
newRoute(g, path) == groups[g].prefix \o path

\* Router.add: the store of the method with the route's handlers under its path
Added(m, path) ==
  LET s == IF stores[m] = NoStore THEN newStore ELSE stores[m]
  IN Add(s, path, Len(SelectSeq(regs, LAMBDA x : x.method = m)) + 1)

\* Route.add for one method: what is registered
Reg(m, r) == [method |-> m, path |-> newRoute(r.g, r.path),
              handlers |-> combineHandlers(groups[r.g].handlers, r.hs)]

\* Get, Post, ..., To or Any of a group: Route.add for one method after the other
To(r) ==
  LET ms == {r.ms[i] : i \in DOMAIN r.ms}
      New(m) == Added(m, newRoute(r.g, r.path))
  IN /\ call.pc = "register" /\ r.g \in DOMAIN groups
     /\ Len(regs) + Len(r.ms) <= MaxRoutes
     /\ stores' = [m \in Methods |-> IF m \in ms THEN New(m).s ELSE stores[m]]
     /\ maxParams' = Max({New(m).pn : m \in ms} \cup {maxParams})
     /\ regs' = regs \o [i \in DOMAIN r.ms |-> Reg(r.ms[i], r)]
     /\ UNCHANGED <<groups, notFoundHandlers, pooled, ctx, call>>

\* The routes of a method in the order of registration: a store's data is an index of it
Routes(m) == SelectSeq(regs, LAMBDA x : x.method = m)

\* find: the handlers, the parameter names and the values written to the Ctx
find(m, path, pvalues) ==
  LET r == Get(stores[m], path, pvalues)
  IN IF stores[m] = NoStore
     THEN [handlers |-> notFoundHandlers, pnames |-> <<>>, pvalues |-> pvalues]
     ELSE [handlers |-> IF r.data # NoData THEN Routes(m)[r.data].handlers ELSE notFoundHandlers,
           pnames |-> r.pnames, pvalues |-> r.pvalues]

\* HandleRequest up to Next: the pool gives the Ctx back or makes a new one;
\* init does not touch bytes
HandleRequest(q, fresh) ==
  LET c == IF fresh THEN NewCtx ELSE ctx
      f == find(q.method, q.path, c.pvalues)
  IN /\ call.pc \in {"register", "done"} /\ regs # <<>> /\ call.n < MaxRequests
     /\ fresh \/ pooled
     /\ ctx' = [c EXCEPT !.handlers = f.handlers, !.pnames = f.pnames,
                         !.pvalues = f.pvalues, !.index = 1]
     /\ pooled' = FALSE
     /\ call' = [pc |-> "next", method |-> q.method, path |-> q.path, frames |-> 0,
                 ran |-> <<>>, status |-> 200, allow |-> {}, n |-> call.n + 1]
     /\ UNCHANGED <<groups, stores, maxParams, notFoundHandlers, regs>>

Running(h) == call.pc = "next" /\ ctx.index <= Len(ctx.handlers) /\ ctx.handlers[ctx.index] = h
Ran == [call EXCEPT !.ran = Append(@, ctx.handlers[ctx.index])]

\* A handler that returns nil: the loop of Next goes on
Returns ==
  /\ Running("ok")
  /\ ctx' = [ctx EXCEPT !.index = @ + 1]
  /\ call' = Ran
  /\ UNCHANGED <<groups, stores, maxParams, notFoundHandlers, regs, pooled>>

\* A middleware calls Next: a loop of its own over the rest of the handlers
CallsNext ==
  /\ Running("middleware")
  /\ ctx' = [ctx EXCEPT !.index = @ + 1]
  /\ call' = [Ran EXCEPT !.frames = @ + 1]
  /\ UNCHANGED <<groups, stores, maxParams, notFoundHandlers, regs, pooled>>

\* Abort, then return nil: index is past the last handler
Aborts ==
  /\ Running("abort")
  /\ ctx' = [ctx EXCEPT !.index = Len(ctx.handlers) + 1]
  /\ call' = Ran
  /\ UNCHANGED <<groups, stores, maxParams, notFoundHandlers, regs, pooled>>

\* A handler returns an HTTPError: every Next on the way returns it at once,
\* the middlewares hand it on, handleError answers
Fails(h, status) ==
  /\ Running(h)
  /\ call' = [Ran EXCEPT !.status = status, !.pc = "clear"]
  /\ UNCHANGED <<groups, stores, maxParams, notFoundHandlers, regs, pooled, ctx>>

\* findAllowedMethods: the methods with a store that matches the path; each Get
\* writes to the Ctx's pvalues, in the order of the range over the map
findAllowedMethods(path) ==
  {m \in Methods : stores[m] # NoStore /\ Get(stores[m], path, ctx.pvalues).data # NoData}
PvaluesAfter(path, order) ==
  FoldLeft(LAMBDA pvalues, m : Get(stores[m], path, pvalues).pvalues, ctx.pvalues, order)

\* MethodNotAllowedHandler appends to the Ctx's bytes and aborts if there are any
MethodNotAllowedHandler ==
  LET bytes == ctx.bytes \cup findAllowedMethods(call.path)
      allow == IF bytes = {} THEN {} ELSE bytes \cup {"OPTIONS"}
  IN /\ Running("MethodNotAllowedHandler")
     /\ \E order \in SetToSeqs({m \in Methods : stores[m] # NoStore}) :
          ctx' = [ctx EXCEPT !.bytes = allow, !.pvalues = PvaluesAfter(call.path, order),
                             !.index = IF bytes = {} THEN @ + 1 ELSE Len(ctx.handlers) + 1]
     /\ call' = [Ran EXCEPT !.allow = allow,
                            !.status = IF bytes = {} \/ call.method = "OPTIONS" THEN @ ELSE 405]
     /\ UNCHANGED <<groups, stores, maxParams, notFoundHandlers, regs, pooled>>

\* The loop of Next ends; if a middleware called it, the middleware returns
\* to the outer loop, which increments index again.
NextEnds ==
  /\ call.pc = "next" /\ ctx.index > Len(ctx.handlers)
  /\ ctx' = [ctx EXCEPT !.index = @ + 1]
  /\ call' = IF call.frames = 0 THEN [call EXCEPT !.pc = "clear"]
                                ELSE [call EXCEPT !.frames = @ - 1]
  /\ UNCHANGED <<groups, stores, maxParams, notFoundHandlers, regs, pooled>>

\* clear and Put: data and route are set to nil, the rest stays in the Ctx
ClearAndPut ==
  /\ call.pc = "clear"
  /\ pooled' = TRUE /\ call' = [call EXCEPT !.pc = "done"]
  /\ UNCHANGED <<groups, stores, maxParams, notFoundHandlers, regs, ctx>>

RouterNext ==
  \/ \E g \in DOMAIN groups, h \in UseChoices : Use(g, h)
  \/ \E hs \in {<<>>} \cup {<<h>> : h \in UseChoices} : Group(hs)
  \/ \E r \in RouteChoices : To(r)
  \/ \E q \in Requests, fresh \in BOOLEAN : HandleRequest(q, fresh)
  \/ Returns \/ CallsNext \/ Aborts \/ MethodNotAllowedHandler
  \/ Fails("fail", 400) \/ Fails("NotFoundHandler", 404)
  \/ NextEnds \/ ClearAndPut

-----------------------------------------------------------------------------
\* The chain up to the first handler that ends it
EndsChain(h) == h \in {"abort", "fail", "NotFoundHandler"}
                \/ (h = "MethodNotAllowedHandler" /\ call.allow # {})
UpToEnd(hs) == LET i == SelectInSeq(hs, EndsChain) IN IF i = 0 THEN hs ELSE SubSeq(hs, 1, i)

\* Ctx.Param for every parameter of the route r
ParamsRight(r) ==
  LET toks == SelectSeq(r.path, LAMBDA c : c \in DOMAIN Tokens)
      vals == KeyValues(r.path, call.path)
  IN \A i \in DOMAIN toks :
       LET name == Tokens[toks[i]].name
           first == CHOOSE j \in DOMAIN toks : /\ Tokens[toks[j]].name = name
                                               /\ \A k \in 1 .. j - 1 : Tokens[toks[k]].name # name
           at == SelectInSeq(ctx.pnames, LAMBDA n : n = name)
       IN at # 0 /\ ctx.pvalues[at] = vals[first]

\* A request is answered by the route registered first among those of its
\* method that match its path, with that route's parameter values, whatever
\* the shape of the tree and whatever the pooled Ctx served before; the handlers
\* its group had when the route was added and those of the route have run once
\* each, in order, up to the first error or Abort (node.get, Ctx.Next, Route.add).
\* The handlers of a later Use are not among them, although group.go:123 says of
\* them that they "will be shared by all routes belong to this group and its
\* subgroups": Route.add and Group have made copies by then.
\* Without such a route the router's handlers run before the not-found ones.
RequestRouted ==
  call.pc \in {"clear", "done"} =>
    LET i == SelectInSeq(Routes(call.method), LAMBDA r : Matches(r.path, call.path))
    IN IF i = 0 THEN call.ran = UpToEnd(notFoundHandlers)
       ELSE LET r == Routes(call.method)[i] IN call.ran = UpToEnd(r.handlers) /\ ParamsRight(r)

\* MethodNotAllowedHandler (router.go:183): when no method has a route for the
\* path the handler does "nothing and let the next handler (usually a
\* NotFoundHandler) to handle the problem".
NotFoundAnswered ==
  call.pc \in {"clear", "done"} =>
    \/ \E i \in DOMAIN regs : Matches(regs[i].path, call.path)
    \/ call.status # 405
=============================================================================
