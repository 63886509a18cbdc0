# A TLA+ model of wx

The repository is a small WeChat back end (`src/main.go`) on top of two
libraries it carries with it: a fork of the HTTP server and client fasthttp
(`src/fasthttp`) and a router with middleware (`src/fasthttp-routing`). Nearly
all of the hard logic is in these libraries: pools of connections, goroutines,
messages and contexts that are shared, reused and timed out, and messages that
two ends must cut out of one stream of bytes in the same way. This project
models that core in TLA+, checks it with TLC on small instances, and proves the
central invariants of the connection pool, the worker pool, the server, the file
cache, the clients, the dialer and the session middleware with TLAPS for any
instance.

## 1. Inventory

| Part | State | Operations | What is hard |
|---|---|---|---|
| HostClient pool (`client.go`) | `connsCount`, `conns`, `connsWait`, `connsCleanerRun`, wantConns | `acquireConn`, `releaseConn`, `closeConn`, `decConnsCount`, `dialConnFor`, `connsCleaner`, `CloseIdleConnections`, `SetMaxConns`, `Do` with retries | a timer races a delivery; a slot is handed on to a waiter; the cleaner starts and stops itself |
| Worker pool (`workerpool.go`) | `ready`, `workersCount`, `mustStop`, a channel per worker | `Serve`, `getCh`, `workerFunc`, `release`, `clean`, `Stop` | sends inside and outside the lock; stop while busy; times read outside the lock |
| Server (`server.go`) | `open`, `concurrency`, `stop`, `idleConns`, pools of RequestCtx, per connection the locals of `serveConn` | `Serve`, `ServeConn`, `serveConn`, `TimeoutHandler`, hijacking, `Shutdown` | many exits, pipelining, buffered responses, handlers that outlive their request, shutdown polling |
| PipelineClient (`client.go`) | channels `chW`, `chR`, pooled works, a writer and a reader per connection | `Do`, `DoDeadline`, `init`, `worker`, `writer`, `reader` | overflow replacement, abandoned works, failure of one goroutine while works are in the other's hands, restarts |
| Client (`client.go`) | maps of HostClients, pooled response channels | `Do`, `mCleaner`, `GetDeadline`, redirects | a client is removed by its counters while in use; an answer races the timer |
| LBClient (`lbclient.go`) | list of clients with penalties and totals | `Do*`, `get`, penalties, `AddClient`, `RemoveClients` | counters that are added first and undone later |
| TCP dialer (`tcpdialer.go`) | address cache, `pending`, `concurrencyCh` | `Dial*`, resolution, `tcpAddrsClean` | marks that must be taken back on every path |
| Messages (`header.go`, `http.go`, `streaming.go`, `args.go`) | headers with special fields, bodies in four forms, pooled | setters, `Write`, `Read*`, `CopyTo`, `Reset` | length, chunking, trailers and body are set in any order; both ends must agree where a message ends and whether the connection stays |
| FS handler (`fs.go`) | caches of open files with readers counts, compressed copies on disk | `handleRequest`, `openFSFile`, `compressAndOpenFSFile`, readers, `cleanCache` | close once, after the last reader; two requests open the same file |
| Router (`fasthttp-routing`) | a radix tree per method, groups, pooled Ctx | `Use`, `Group`, `To`, `HandleRequest`, `Next`, `Abort` | backtracking between static and parameter nodes, stale fields of the Ctx |
| Session middleware | pooled `Data`, cookie, store | load, operations of `Data`, `Commit`, `Destroy`, `RenewToken` | order of status changes, overlapping requests, a failing store |
| Per-IP limit, in-memory listener, prefork, proxies, codecs, URI and cookie text, CSRF, CORS, XFF, main, helpers | | | see section 7 |

The parts interact by calls and shared state: `Server.Serve` owns a worker pool
and gives it `serveConn` as its function; the pool reports connection states to
`setState`, which keeps `idleConns`, which `Shutdown` closes. `Client` owns
HostClients, which own the connections and get them from the TCP dialer;
`transport.RoundTrip` is the only user of `acquireConn`. Both ends write and
read messages. The router is a handler of the server and the middleware are
handlers of the router.

## 2. Modules

**HostClient** models the pool. A step is a critical section of `connsLock` or
of a wantConn's mutex. `releaseConn`, the only place where one is taken inside
the other, is two steps (`ReleaseConn`, `ReleaseDeliver`) with `connsLock` held
by the agent in between, so every action that needs the lock is guarded by
`Unlocked`. Agents are goroutines: callers of `Do`, `dialConnFor` (named by its
wantConn), `connsCleaner` and callers of `CloseIdleConnections`. The variables
`place` and `allowed` are history, read by properties only: where in its life a
connection is, and the limit in force, or what was in use when `SetMaxConns`
lowered it below that. What a round trip does on the wire is abstracted to kept,
closed or failed; times are abstracted to "any prefix of `conns` may be
expired", which is what the cleaner relies on. Left out because they touch
nothing of the pool: `pendingRequests`, `lastUseTime` of the client, the error
for a wrong scheme, and response bodies that are streamed (their connection is
released by the same two calls, later).

**WorkerPool** models `workerpool.go` with buffered (`Cap = 1`) and unbuffered
(`Cap = 0`) channels. On an unbuffered channel a send is a rendezvous with a
receiving worker. `Stop` sends while it holds the lock and is one step per
worker with `locked` set. The clock is a bounded counter; `release` reads it in
one step and takes the lock in another, as the code does. `Search` is the code's
binary search, and `SearchFrom` its loop as a recursive function.

**Server** models `server.go`. `conn[c]` holds the locals of the goroutine that
runs `serveConn` for connection c and the client's side of it. A request is two
units of data, so that a reader may hold nothing, a part or the whole of the
next request; `buf` counts the units in the reader and `held` the responses in
the writer. `AcquireCtx` takes a RequestCtx from the pool or a new one. A
handler wrapped by `TimeoutHandler` runs in a goroutine of its own (`running`)
and may outlive its request. The worker pool is abstracted to what WorkerPool
checks: a goroutine for each of at most `Concurrency` connections. `s.open` and
`s.concurrency` are atomics, and each addition to one is a step of its own.
Connections in `Direct` are given to `ServeConn`. A failing `SetWriteDeadline`
ends the connection's goroutine in `panic`; the model lets the others go on.
Clients are external: they send, or close, or do nothing.

**Args, HeaderKeys, ResponseHeader, RequestHeader, HttpBody, Response, Request**
model messages as values: every method of the code is an operator of the same
name from a message to a message. A header value is the sequence of its tokens,
so that `Connection: close, x` differs from `close`; a body is a sequence of
tokens on the wire, so that a byte taken from the wrong place is seen to be
wrong. `HttpBody` has the four ways to send a body and the ways to read one, in
one piece or as a stream with a prefetched part. **Message** composes them: one
end makes up to `MaxOps` calls on a message, writes it to a connection on which
another message follows, the other reads it into a message it used before, and
both go on. The call sites in the server and the client give the reader what it
knows: whether the response answers a HEAD request, whether the request expects
`100 Continue`, the limit on the body (`reader` records the one it was given),
streaming or not. A copy is a value; that it may share bytes with the original is
left out (section 5).

**FS** models `handleRequest` for requests of one path, step by step between the
critical sections of `cacheLock`, `filesLockMap` and the readers lock: look up,
open (small, big, directory with or without an index), compress under the lock
of the path, insert or drop, read, and give back; `cleanCache` runs with its
list of pending files, files expire and are modified meanwhile. An error may be
returned after a file was opened (`leaked`), and the files of another `fs.FS` may
not seek (`seeks`). An fsFile is named by the request that opened it. **FileLease** is the abstract
specification: a file is opened once, used only while it is open, and closed
once, when nobody uses it. FS implements it under the mapping
`handle <- (made, closed)`, `users <- {requests that hold the file}`; the
property `LeaseKept` is `FileLease!LeaseSpec`.

**PipelineClient** models the pipelined client. A work carries its request;
`Garbage` holds of a work that nothing refers to any more. Worker, writer and reader are goroutines with
a step per channel operation, named by the generation of channels whose creation
started them, but using whatever `chW` and `chR` hold, as the code does. `init` is
called by a call and by asking a client for its pending requests. Flushes
are modelled: what is written stays in `buf` until a flush step.

**Client, LBClient, TCPDialer** model the parts above and below the pool. Their
atomic operations are steps of their own: `incPenalty` adds, looks and undoes;
`get` of LBClient reads one client's counters after the other's (`LBLook`);
`pending` is swapped before the resolution starts; `mCleaner` reads the counters
of a HostClient under the lock under which `Do` counts its request.

**RouteStore** has the radix tree as operators on node values, with the slice of
parameter values threaded through `get` the way the code shares it between
branches; next to it the reference: `KeyValues` matches one pattern against one
path, token by token. **Router** registers groups and routes, before or after
`Use`, and runs requests one after the other on the pooled Ctx; handlers may fail
or abort. **Session** models the middleware with two clients whose requests may
overlap: a value is identified with the client it was made for and has a type,
which the codec may change. A cookie is a token that was drawn or any text of the
client's own. `Data.token` is an array with a length: a short text leaves the end
of the token before it, a long one moves the array and loses the prefix in front
of it, and `Key` is what the code cuts out of it (`manager.go:16`), whatever the
length.

**MCHostClient, MCWorkerPool, MCServer, MCMessage, MCFS, MCPipelineClient, MCClients,
MCApp** are the instances for TLC. MCHostClient and MCWorkerPool let a behaviour choose
between two configurations; MCClients and MCApp put together components that share
no state and let one of them move in a behaviour.

**HostClientProofs, WorkerPoolProofs, ServerProofs, FSProofs, ClientsProofs**
(Client, LBClient, TCPDialer), **PipelineProofs** and **HandlerProofs** (what a
handler works with: Message and Session) hold the theorems and **SeqLemmas** the
lemmas they share (section 6).

## 3. Runs

| Run | Instance | Shows |
|---|---|---|
| HostClientPool | 2 callers, 2 wantConns, 3 connections, a closer, the cleaner, MaxConns moved between 1 and unset; waiting and LIFO, or neither and one retry | all safety properties of the pool |
| HostClientLive | 2 callers, 1 slot, fair | deliveries are taken, idle connections expire, the pool drains and the cleaner stops |
| WorkerPool | 2 workers, 2 connections at a time, buffered or unbuffered, fair | one reference per worker, one owner per connection, every connection is served, `Stop` ends everything |
| ServerSafe | 2 accepted connections for 1 worker, one pipelines 2 requests, the other is silent; WriteTimeout without ReadTimeout, TimeoutHandler, ContinueHandler, hijacking, Shutdown with a deadline | counters, RequestCtx ownership, idle tracking, flushing, state order, drained on return |
| ServerLive | one accepted and one direct connection, ReduceMemoryUsage, ReadTimeout, CloseOnShutdown, fair | `Shutdown` returns; RequestCtx ownership when contexts are given back between requests |
| Message | 3 calls, bodies up to 2 bytes, 2 streams, buffers of 1, no limit or a limit of 1 | `InSync`, `HeadersArrive`, `CloseAgreed`, `StreamsClosedOnce`, `CopyFaithful` |
| FSCache | 2 requests, plain or compressed, any kind of path, the cleaner, fair | readers are counted, no handle is left behind, the refinement of FileLease, every file is closed but those an error return or a file that cannot seek leaves open |
| Pipeline | 3 calls of 2 callers, one with a deadline, queues of 1, fair | every work in one place, every response to its own request, every call returns |
| Clients | Client: 2 hosts, 3 HostClients, 2 calls of `GetDeadline` and 1 of `Do`; LBClient: 2 clients, 3 callers; TCPDialer: 3 dialers, 1 slot | one HostClient per host, results of `GetDeadline`, penalties, slots and marks |
| App | Router: up to 3 of 7 routes in 2 groups, 2 requests; Session: 2 clients, 2 goroutines, 3 requests of 1 operation, 2 tokens, short and long texts | routing against the reference, sessions |
| PipelineIdle | 3 callers of `Do`, one idle stop | *violation* of `ResponseMatches` |
| RouterNotFound | as App | *violation* of `NotFoundAnswered` |

*Bounds.* Two callers with one slot are the smallest instance in which somebody
waits, and three connections let two be alive while a third is being closed;
two wantConns let a cancelled one stand before a live one in the queue. In the
worker pool names of connections are used again, so two are any number, two at
a time; a third is refused while one of two workers leaves. For the server one
pipelining client and one competitor for the only worker reach the loop's
actions, and ServerLive those of `ServeConn`; one RequestCtx more than there are
connections lets a timed out handler keep one. Three calls on a message are enough for one that sets a field, one that
disturbs it and one that meets it in the next use; two bytes with buffers of one
give a body more than one chunk, and a limit of one lies below it. Two requests
are the smallest number that open the same file; with the cleaner and the
modification of the file they reach every path. With queues of one the second
call of `Do` overflows, and the third finds a work abandoned or dropped before
it. Three HostClients let a host get a second one after its first was removed.
The routes were chosen so that static nodes split, a parameter and a static node
compete, and a pattern fails after it took a part of the path; three of them are
needed for two branches and the order between them. Three requests with one
operation each let a client's cookie be short after another client used the same
`Data`, or find what an overlapping request left; two tokens let one be renewed
or two be compared. Two calls of `GetDeadline` let the
second take a pooled channel while the goroutine of the first is late. `MaxGen = 1` in Pipeline
leaves out the idle stop that PipelineIdle is about. `Serve` is called once, a
client sends at most two requests; `connRequestNum` is 0, 1 or more.

*Symmetry* is used only in runs without liveness: connections, wantConns,
RequestCtxs, and in MCApp clients, goroutines and Datas are interchangeable.

*Fairness.* Goroutines that can run do run. Callers and sweepers of the client
pool get strong fairness: a step that needs `connsLock` is disabled only while
another goroutine holds it, and Go's mutex hands itself over to a waiter in
starvation mode; workers and `clean` get it for the same reason. The connection
cleaner keeps finding expired connections, because it sleeps until the oldest
expires. Handlers return, tickers tick, reads with a timeout end; a pipelined
connection answers or fails, and its dial succeeds in the end. Nobody has to
call `Do`, `Serve`, `Stop` or `Shutdown`, clients need not send, the context of
`Shutdown` need not expire. `ShutdownEnds` is checked with `ReadTimeout` set,
which the documentation of `Shutdown` asks for; `IdleExpires` without
`Connection: close` requests (section 5).

*Deadlock* is checked where the system may not stop (HostClient, WorkerPool,
Server, FS). In Server it says little, since `Shutdown` may always be called;
there `ShutdownEnds` shows that nobody waits for ever. In Message, Pipeline,
Clients and App the bounds on calls end a behaviour.

## 4. Findings

1. *PipelineIdle.* A writer that stops for idleness while a call queues its work
   makes the loop of `init` set both channels to nil and go on
   (`client.go:2611`); the next call makes new ones and starts a second worker.
   Two connections then serve one pair of channels and a caller gets the
   response to another request.
2. *RouterNotFound.* `c.bytes`, in which the allowed methods are collected, is
   not cleared in the pooled Ctx: after one 405 an unknown path is answered with
   405 too, and the not-found handler does not run.

## 5. Observations

Met while modelling. The models have the behaviour unless the entry says
otherwise; no run is spent on it.

- HostClient: `acquireConn` starts the cleaner, `dialConnFor` does not; if only
  `Connection: close` requests created connections so far, a connection dialled
  for a waiter stays idle for ever (`client.go:1480`). A waiter queues after it
  dropped the lock and does not look at `conns` again, so that it may time out
  with `ErrNoFreeConns` beside an idle connection (`client.go:1502`).
- WorkerPool: `lastUseTime` is stamped before the lock is taken; `ready` may be
  unsorted and `clean` stop a worker early (`workerpool.go:204`).
- Server: `Shutdown` closes an idle connection whose next request has just
  arrived. With a write timeout and no read timeout the first call that fails is
  `SetWriteDeadline` for the response, which the code takes for impossible: it
  panics, and nothing recovers (`server.go:2385`). `serveConn` leaves its loop on `s.stop` without flushing a pipelined
  response (`server.go:2476`; `AnsweredUnlessShutdown` shows this is the only
  way to lose one); `continueReadingRequest` is never set back after a denied
  `Expect: 100-continue`, and later requests of the connection are answered
  without their handler (`server.go:2303`); when closing a listener fails
  `Shutdown` returns without waiting and `s.stop` is set back (`server.go:1889`).
  A connection given to `ServeConn` is counted in `s.concurrency` there and again
  in `serveConn` (`server.go:2025`): it refuses at half of `Concurrency`, and
  `GetCurrentConcurrency` returns twice the number. `StateNew`, with which the
  documentation lets a connection begin, is never reported of it
  (`server.go:2032`). `CountersExact` and `StateOrder` fail with such connections.
- PipelineClient: an idle stop with empty queues leaves the channels in place
  without a worker, so the next call waits for ever; works in dropped channels
  are orphaned; a request stays in the write buffer when the works after it
  expire in `chW` (`client.go:2745`). `Answered` excludes these by name.
- Client and dialer: after its timeout `GetDeadline` returns `dst` while the
  goroutine may still write to it; a shrinking address list may skip an address.
- LBClient: `RemoveClients` may leave no client, and `get` then panics with `mu`
  locked for reading; a client that `AddClient` adds before the first call and
  that is in `Clients` too is balanced twice.
- Messages: the trailer of a chunked response is read although the body of a
  HEAD response was skipped; `CopyTo` loses `DisableSpecialHeader`; a message
  whose caller deletes `Content-Length` after it became chunked, or sets a
  length without a body, is not framed (`Framed` names these cases). Not in the
  model: `RequestHeader.CopyTo` appends the trailers' slices instead of their
  bytes (`header.go:1176`), so that a caller of `DoDeadline` that timed out and
  sets a trailer changes what the worker is about to write.
- FS: a stale compressed file is removed outside the lock of the path, so that a
  request that has just stored a fresh one may fail; a file stays open, with
  nothing but the runtime's finalizer to close it, when its first bytes cannot be
  read (`fs.go:1577`) or the directory of its compressed copy cannot be made
  (`fs.go:1365`); `bigFileReader.Close` does not take a reader that cannot seek
  off the count, and its file is never released (`fs.go:663`). Not in the model:
  with `SkipCache` the opened file is never released.
- Router: a route or a subgroup copies the handlers of its group when it is made;
  `Use` shares what it adds with later ones only, though its comment says with all
  (`group.go:124`). A middleware that swallows the error of `Next` lets the following
  handlers run. Not in the model: `RIP`, `RHost`, `RPort` and `RSecure` are not
  cleared; a route registered after the first request may need more parameter
  values than the pooled Ctx has.
- Session: `Flush` clears the values of a session that stays `Unmodified`, so that
  `Commit` does not store it and the next request finds them again
  (`data.go:261`). `reset` takes the status `Destroyed` back (`manager.go:91`): the
  cookie is not deleted but sent empty, and `Commit` keeps the session under the
  old token, or stores it there again, empty. A client may make up a cookie that
  `SetToken` accepts, of three bytes or more; a short one is looked up with the end of the token the pooled array
  had before, a long one with whatever lies in front of its new array, and both
  lose what they store (`SessionKept` excludes them; `SessionOwn` holds, since
  the beginning of the key is the client's own). The store adds its prefix twice
  on deletion, so that the old session stays after `RenewToken`. The JSON codec
  gives an int back as a float64 and a time as a string, so that `GetInt` and
  `GetTime` find nothing in the next request. A session that cannot be decoded
  makes `Start` panic when it draws a CSRF token into the nil one
  (`data.go:133`); its `Data` is not released. Not in the model: `Regenerate`
  panics.
- main (not in the model): `updateToken` waits on the channel of a zero Timer.

## 6. Proofs

The theorems hold for every value of the constants that satisfies the named
assumption of the module: sets of goroutines, connections, contexts and files
are finite where something is counted, limits are numbers, and the values that
mean "none" are not members of the sets. Nothing is assumed about the sizes,
and the bounds on numbers of calls and times are arbitrary naturals.

| Module | Theorem | States |
|---|---|---|
| HostClientProofs | `ClientCoherent`, `ClientTypeOK` | the inductive invariant; `connsCount` never becomes negative |
| | `ClientCountExact`, `ClientWithinLimit` | `connsCount` is the number of occupied slots and stays within the limit in force, or what was in use when it was lowered |
| | `ClientExclusiveUse`, `ClientNoConnForgotten` | a connection is referred to from one place at most, and from one at least while it is open |
| | `ClientNoWaiterDropped` | a waiter is queued, dialled for or about to be answered |
| WorkerPoolProofs | `CleanFindsObsolete` | the binary search of `clean` |
| | `PoolTyped`, `PoolOneToken`, `PoolConnOwned` | one message for each waiting worker, one owner for each connection |
| ServerProofs | `ServerTyped`, `CountersAreExact` | `open` and `concurrency` over every way out of `serveConn`, if no connection is given to `ServeConn` |
| | `CtxsAreExclusive` | ownership of a RequestCtx, timed out handlers included |
| | `IdleIsTracked`, `ResponsesAreFlushed`, `NothingIsHeldBack` | `idleConns`; no response lost or kept waiting |
| | `ShutdownDrains`, `StatesInOrder` | action properties: what `Shutdown` may return on, which `ConnState` may follow which, if no connection is given to `ServeConn` |
| FSProofs | `FilesTyped`, `ReadersAreCounted`, `HandlesAreClosed` | readers (exact if files can seek, never too few) and handles |
| | `CacheKeepsLease` | FS implements FileLease |
| ClientsProofs | `PenaltiesArePaid` | LBClient: the penalty is what will be taken back |
| | `SlotsAreReturned` | TCPDialer: slots and the `pending` mark |
| | `HostsHaveOneClient`, `ResultsAreOwn` | Client: the host map and `GetDeadline` |
| PipelineProofs | `PipelineInOrder`, `WorksInOnePlace` | PipelineClient: where a work is |
| | `ResponsesMatch` | PipelineClient: the response of a call is its own, while no client replaces its channels |
| HandlerProofs | `StreamsAreClosedOnce` | Message: a body stream is closed exactly once |
| | `CopiesAreFaithful` | Message: a copy is written as the original is |
| | `ClosingIsAgreed` | Message: both ends know that the connection is closed |
| | `SessionsAreOwn`, `SessionsAreKept` | whose session a request sees, and what is in it |

*SeqLemmas* has what the others cite about lists (appending, removing the first
or last element, what is in a list), the least element of a set of numbers and
induction in the form of a set (`0 \in S` and closed under successor).

### HostClient

None of the properties is inductive. That a decrement does not make the count
negative, and that it is the right connection's, depends on who holds which
connection. `Coherent` is the strengthening: an agent's place in the code
determines the stage of the connection it holds (`AgentsCoherent`), the idle
list, the scratch lists and the answered wantConns hold distinct connections in
the right stage (`PoolCoherent`, `ScratchCoherent`, `WantsCoherent`), the lock is
held exactly by the agent between the two steps of `releaseConn`
(`LockCoherent`), and each kind of goroutine stays in its own code
(`RolesCoherent`). There is one lemma
per action, on top of lemmas on how the counted set changes when one connection
changes its stage. `WithinLimit` is inductive next to it.

`NoWaiterDropped` needs to know in addition which wantConn belongs to whom:
`Waiters` adds that a caller that waits owns its wantConn alone (`Owners`), that
a wantConn is queued at most once (`QueueOnce`) and that an answered one is not
waited for by a second delivery (`Answers`). `NoConnForgotten` follows from
`Located`, which names for each stage of a connection the place that refers to
it, and is inductive next to `Waiters`.

### WorkerPool

`PoolInv`: `workersCount` is the number of goroutines (`CountOK`), the ready list
and the list being stopped have no repetitions and no worker in common
(`Lists`), a channel with a message belongs to no listed worker (`Boxes`), a
worker waits iff it is listed or has a message (`Waiting`), and connections are
in one of Serve, a channel and a worker (`Places`, `Alone`, `Accepted`).
Overlaps between `Stop`, `clean` and `release` are what make the parts depend on
each other: `Stop` sends to a worker only because it is in the list under the
lock, and `release` may append it again only because no message is under way.

`CleanFindsObsolete` is about the operator `Search`: for a ready list of any
length that is ordered by last use, the result is the index of the last worker
older than the critical time. `SearchFrom` is a recursive function on pairs of
bounds; that it is one, and what it computes, is proved by induction on the
size of the interval. The ordering is a hypothesis because the code does not
always have it (section 5).

### Server

`ServerInv` says of each connection (`GoodConn`) which fields its place in
`serveConn` allows: when the reader and the context are there, when responses
may be held, what `idleConns` and the reported state can be. `CtxInv` says who
may have a context, `AcceptInv` relates the accept loop to the connection it
has in hand, `CountersAre` is one of its conjuncts. Most steps change one
connection; they are shown to preserve it by a lemma on a single record, and the
counters by a lemma on how the counted sets change with one place.
`NothingHeldBack`, for example, is not inductive because whether a response is
held while the header is awaited depends on how the previous request ended.
The two action properties follow from `ServerInv`, action by action.
`CountersAreExact` and `StatesInOrder` assume `Direct = {}`: for connections of
`ServeConn` both properties fail (section 5). What is invariant for those as well
is `CountersAre`, in which `ServeConn` counts too, and `GoodConn`.

### FS

`FileInv` adds to the two properties `Custody` (the files of the cache, of
`pendingFiles` and of the cleaner are open, and each in one of these only),
`OwnFiles` (a request that has not handed over its file is alone with it, and
nothing is closed twice) and `InUse` (a file in use is in the cache or pending,
so it is open). A file that an error return left open is in none of them. The refinement `Spec => Lease!LeaseSpec` maps every action
to opening, using, giving back or closing a file, or to a stutter; that a close
maps to one needs `ReadersCounted`, and that nothing is closed twice `Custody`.
FileLease has no fairness, so the refinement is complete.

### Client, LBClient, TCPDialer

`LBInv` says for each client that its penalty is the number of calls between the
addition and its undoing plus the number of timers (`AllPaid`); the numbers are
cardinalities of sets of callers, and `OneMoves` says how they change when one
caller takes a step. `DialerInv` is the same for the slots, and says who is
resolving while `pending` is set. `MapInv` needs for `OneClientPerHost` that the
count of pending requests of a HostClient is exact (`PendingExact`), since that
is what keeps `mCleaner` from removing it, and that there is one cleaner
(`OneCleaner`). `ChanInv` says of the pooled channels of `GetDeadline` that only
the caller and the goroutine it started know one (`OwnChan`), that what is in it
answers that caller (`OwnResponse`), and that a channel goes back to the pool
only when nobody will send on it (`Awaited`).

### PipelineClient

`WorkInOnePlace` counts places; the proof works with the sets they are taken
from. `Hands` says that a work is `Nowhere` or `Somewhere`, in exactly one of chW,
a writer, chR, a reader and its done channel; that a pooled work, and one its
caller has not queued, is nowhere; and that no two callers have one work. What a
step may do with a work has five forms, each with a lemma: it moves on (`Moved`),
is queued (`GivenAway`), given back (`GivenBack`), abandoned (`LeftBehind`) or
acquired (`Taken`). `Phases` is needed for `Dial`, which overwrites writer and
reader: they must have returned, without a work. That `acquirePipelineWork` may
make a new work depends on its being in no channel; a position in a channel and
the channel itself correspond because no work is in a channel twice
(`QueuedAt`). Nothing bounds the restarts of the worker: the theorem also covers
the instance in which `ResponseMatches` fails.

`ResponseMatches` is proved under the one hypothesis that separates it from that
instance: `[]OneGeneration`, no `pipelineConnClient` makes its channels a second
time. Failed connections, dials, timeouts, overflows and idle stops that leave the
channels in place are all covered. `MatchInv` compares two lists for each
connection, the works the reader will see (its own, those of chR, the writer's)
and the requests it will see responses to (sent, and in the write buffer). While
the reader runs they agree as far as both go, and they have the same length while
the writer runs too (`StepAt`); a writer that returns cuts one of them or both, a
reader takes the head of each. `LeftAt` says that nothing is left in chR or on the
wire when the next connection is dialled: that is what the loop at the end of
`worker` is for, and it drains the right channel because of `OneGeneration`
(`OnlyOne`), as writer and reader use the right ones (`CurrentAt`).

### Message

`MessageInv` says that the two messages are records with the fields of their type
and that what the code keeps as lists are lists; that the streams handed over so
far are closed once or are the body (`Once`); that what is on the wire are the
lines `AppendBytes` makes of the header as `Write` left it; and, while the reader
has yet to answer 100 Continue, that it already knows about the end of the
connection. `StreamsClosedOnce` alone is not inductive: the next `SetBodyStream`
needs that a stream never handed over has not been closed. Each operation of
`Request` and `Response` either leaves the stream alone or closes it and forgets
it (`StreamKept`, `Shut`); `gzipBody` wraps it and `SetBodyStream` does both.

`CopyFaithful` follows from two facts that hold for any destination: `CopyTo` of a
header gives the header itself, field by field, and `Write` without a stream looks
at the header, `skipBody` or the post arguments, and the length of the body only.

`CloseAgreed` is a fact about two programs, the writer and the parser of a header.
`AppendBytes` puts `Connection: close` last (`QWritten`, `RWritten`). The parser is
a fold over the lines, of which there may be any number: `QFold` and `RFold` show
by induction that it is a chain of `parseLine` steps, and `QParsed` and `RParsed`
follow the chain to its last line, after which `connectionClose` is set. What comes
after it does not take it back (`QFinished`, `RFinished`, and the lemmas on body and
trailer): a request is reset only together with an error (`QTaken`). That a request
which expects 100 Continue has not been reset is needed too, and follows because a
header that was reset has no lines.

The modules of Message are written for these proofs: what is kept of a list is given by
its positions (`Picked`), since the prover has no definition of `SelectSeq`. One
definition was wrong as TLA+: the arms of `parseLine` of a request overlapped for
a header with `DisableSpecialHeader`. `CASE` then chooses any arm, TLC the first;
the test of the flag is now in front of the `CASE`, as it is in the code.

### Session

`OwnInv` says that types are right (`SessionTyped`), that a request in progress
has a `Data` of its own that holds values of its client (`Working`), and that
there is a function from the makers of texts, the tokens drawn and the clients
themselves, to clients such that cookies, requests and the keys of the store
follow it (`Owned`). The owner of a token is not in the state: the proof exhibits
the function, and extends it when `getSession` or `Migrate` draws a token. A key
follows the owner of its first bytes, whatever its end is. That matters because
`reset` cuts the token of a pooled `Data` to length 0 and leaves its bytes: when a
client sends a shorter text the key ends with bytes of another client's token.
The proof rests on the assumption that texts of different clients differ and that
none begins a token drawn for another client.

`SessionKept` speaks of two moments, the end of a request and the start of the
next. `AtRest` bridges them: between the requests of a client the store has, under
the key of its cookie (`Home`: the prefix, and a token that fills the array), what
the last one left. To arrive there `Faithful` follows a request that is alone:
until `Commit` the store has what was loaded unless an operation marked the `Data`
as modified, after it what the request leaves; both up to the codec, of which the
proof needs that another round of it changes nothing (`DecodedValues`). What a
request leaves is not defined by what the code does with it: the cases in which
the next request does not find it (`Flush` alone, `Destroy`, short and long texts,
an array that has moved) are exceptions the property names, and section 5 has the
first two. `AloneExact` keeps the requests of other clients away, whose keys
differ because their tokens have other owners.

TLC checked each of these invariants, `Coherent` too, on the instance of the
component's run before it was proved.

### Only model-checked

- All liveness: fairness and `ENABLED` are out of the prover's reach.
- `InSync` and `HeadersArrive` of Message. They relate what is decoded to what was
  encoded, for lengths in decimal (`ToString`, which is opaque to the prover) and
  for bodies cut into chunks, whose decoding is a recursion over the input.
- `RequestRouted` of Router: the route tree is built with RECURSIVE operators, which
  the prover does not handle.
- That `ResponseMatches` of PipelineClient fails without the hypothesis of
  `ResponsesMatch`: PipelineIdle shows it (section 4).

## 7. Not modelled

- *Per-IP limit* (`peripconn.go`): a counter per address; its hazard is a pooled
  struct closed twice, below the level of Server.
- *In-memory listener and pipe connections*: utilities for tests. `Dial` waits
  for `Accept` while it holds the lock `Close` needs.
- *Compression*: the codecs are libraries; the pools around them keep no state.
- *Prefork and reuseport*: processes and socket options, pure I/O.
- *URI, cookies, percent encoding, numbers, dates, byte ranges, multipart
  contents, malformed text*: conversions of one value, character by character.
- *Proxies, adaptors, pprof and expvar handlers, TLS certificates, CSRF, CORS,
  XFF and compress middleware, helpers, main, examples*: decisions or wiring
  without state between calls, or I/O.
- *In modelled parts*: several listeners and `s.done` of the server, and its panics
  in `getNextProto`, in the first `SetDeadline` and in `HeaderReceived` (a panic
  that is modelled ends the goroutine only, where the program would end); requests
  routed at the same time (they share only the pool); session stores other than
  Redis, `Iterate` and `Skip`; short session texts of different lengths, two
  clients that send the same text, and the hash of `SetToken`, which decides only
  which texts pass; `SkipCache`, paths with a nil byte, and of file systems other
  than the operating system's all but files that cannot seek.
