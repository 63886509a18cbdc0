------------------------------- MODULE Client -------------------------------
(***************************************************************************)
(* Client of src/fasthttp/client.go: the map from host to HostClient, its  *)
(* cleaner mCleaner, redirects, and GetDeadline, whose request goes on in  *)
(* a goroutine of its own after the caller has stopped waiting.            *)
(*                                                                         *)
(* One map is modelled (m; ms is its copy for https).  A HostClient is     *)
(* seen through the connections it counts: which of them are idle, used by *)
(* a request, or being dialled for a request that has gone (its pool is    *)
(* the subject of module HostClient).                                      *)
(***************************************************************************)
EXTENDS Integers, FiniteSets

CONSTANTS Requesters,       \* goroutines that call Client.Do
          Getters,          \* those started by GetDeadline
          Hosts,
          HostClients,      \* HostClient objects
          Chans,            \* channels of clientURLResponseChPool
          MaxConnsPerHost,
          MaxRedirects,     \* maxRedirectsCount
          MaxRequests,      \* bound: requests one goroutine makes
          None

ASSUME ClientAssumption ==
  /\ Getters \subseteq Requesters /\ IsFiniteSet(Requesters)
  /\ MaxConnsPerHost \in Nat \ {0} /\ MaxRedirects \in Nat /\ MaxRequests \in Nat
  /\ None \notin HostClients \cup Hosts \cup Chans \cup Requesters

VARIABLES m,        \* [Hosts -> HostClients \cup {None}]
          hc,       \* [HostClients -> [host, idle, stray, pending]]
          req,      \* [Requesters -> [pc, host, hc, start, redirects, n]]
          get,      \* [Getters -> [pc, ch, timedout, got]]: GetDeadline's own goroutine
          chan,     \* [Chans -> Requesters \cup {None}]: whose response it holds
          pooled,   \* channels in clientURLResponseChPool
          cleaners  \* goroutines in mCleaner

clientVars == <<m, hc, req, get, chan, pooled, cleaners>>

NewHostClient(h) == [host |-> h, idle |-> 0, stray |-> 0, pending |-> 0]

ClientInit ==
  /\ m = [h \in Hosts |-> None]
  /\ hc = [c \in HostClients |-> NewHostClient(None)]
  /\ req = [p \in Requesters |-> [pc |-> "idle", host |-> None, hc |-> None,
                                  start |-> FALSE, redirects |-> 0, n |-> 0]]
  /\ get = [p \in Getters |-> [pc |-> "no", ch |-> None, timedout |-> FALSE, got |-> None]]
  /\ chan = [c \in Chans |-> None]
  /\ pooled = Chans
  /\ cleaners = 0

Using(c) == {p \in Requesters : req[p].hc = c /\ req[p].pc = "using"}
connsCount(c) == hc[c].idle + hc[c].stray + Cardinality(Using(c))
Unreferenced(c) == /\ \A h \in Hosts : m[h] # c
                   /\ \A p \in Requesters : req[p].hc # c
                   /\ connsCount(c) = 0
Goes(p, r) == req' = [req EXCEPT ![p] = r]
NewObject == CHOOSE c \in HostClients : Unreferenced(c)

-----------------------------------------------------------------------------
(* GetDeadline: the request runs in p, get[p] waits for it.                *)

\* clientGetURLDeadline up to the select: ErrTimeout when it is too late.
GetDeadline(p) ==
  /\ p \in Getters /\ req[p].pc = "idle" /\ get[p].pc \in {"no", "left"} /\ req[p].n < MaxRequests
  /\ \E c \in pooled, h \in Hosts :
       /\ get' = [get EXCEPT ![p] = [pc |-> "wait", ch |-> c, timedout |-> FALSE, got |-> None]]
       /\ pooled' = pooled \ {c}
       /\ Goes(p, [req[p] EXCEPT !.pc = "lookup", !.host = h, !.redirects = 0, !.n = @ + 1])
  /\ UNCHANGED <<m, hc, chan, cleaners>>

\* resp := <-ch
GetAnswered(p) ==
  /\ p \in Getters /\ get[p].pc = "wait" /\ chan[get[p].ch] # None
  /\ get' = [get EXCEPT ![p].pc = "left", ![p].got = chan[get[p].ch]]
  /\ chan' = [chan EXCEPT ![get[p].ch] = None]
  /\ pooled' = pooled \cup {get[p].ch}
  /\ UNCHANGED <<m, hc, req, cleaners>>

\* case <-tc.C, under mu: a response that is there is taken all the same
GetTimedOut(p) ==
  /\ p \in Getters /\ get[p].pc = "wait" /\ chan[get[p].ch] = None
  /\ get' = [get EXCEPT ![p].pc = "left", ![p].timedout = TRUE]
  /\ pooled' = pooled \cup {get[p].ch}
  /\ UNCHANGED <<m, hc, req, chan, cleaners>>

\* Mutant: the goroutine answers although its caller has timed out.
RespondLate(p) ==
  IF p \in Getters
  THEN chan[get[p].ch] = None /\ chan' = [chan EXCEPT ![get[p].ch] = p]
  ELSE UNCHANGED chan

\* The end of the goroutine that GetDeadline started, under mu.
Respond(p) ==
  IF p \in Getters /\ ~get[p].timedout
  THEN chan[get[p].ch] = None /\ chan' = [chan EXCEPT ![get[p].ch] = p]
  ELSE UNCHANGED chan

-----------------------------------------------------------------------------
(* Client.Do.                                                              *)

\* Do called directly, for any host.
Do(p) ==
  /\ p \notin Getters /\ req[p].pc = "idle" /\ req[p].n < MaxRequests
  /\ \E h \in Hosts :
       Goes(p, [req[p] EXCEPT !.pc = "lookup", !.host = h, !.redirects = MaxRedirects, !.n = @ + 1])
  /\ UNCHANGED <<m, hc, get, chan, pooled, cleaners>>

\* Under RLock: a HostClient that is there is counted at once.
Lookup(p) ==
  LET c == m[req[p].host] IN
  /\ req[p].pc = "lookup"
  /\ IF c # None
     THEN /\ hc' = [hc EXCEPT ![c].pending = @ + 1]
          /\ Goes(p, [req[p] EXCEPT !.pc = "do", !.hc = c])
     ELSE /\ Goes(p, [req[p] EXCEPT !.pc = "create"])
          /\ UNCHANGED hc
  /\ UNCHANGED <<m, get, chan, pooled, cleaners>>

\* Under Lock: looked up again, made if it is still missing.
Create(p) ==
  LET h == req[p].host IN
  /\ req[p].pc = "create"
  /\ IF m[h] # None
     THEN /\ hc' = [hc EXCEPT ![m[h]].pending = @ + 1]
          /\ Goes(p, [req[p] EXCEPT !.pc = "do", !.hc = m[h]])
          /\ UNCHANGED m
     ELSE \E c \in {d \in HostClients : Unreferenced(d)} :
          /\ c = NewObject
          /\ m' = [m EXCEPT ![h] = c]
          /\ hc' = [hc EXCEPT ![c] = [NewHostClient(h) EXCEPT !.pending = 1]]
          /\ Goes(p, [req[p] EXCEPT !.pc = "do", !.hc = c,
                                    !.start = \A g \in Hosts : g # h => m[g] = None])
  /\ UNCHANGED <<get, chan, pooled, cleaners>>

\* ConfigureClient fails: nothing is stored, the caller gets the error.
ConfigureFails(p) ==
  /\ req[p].pc = "create" /\ m[req[p].host] = None
  /\ Respond(p)
  /\ Goes(p, [req[p] EXCEPT !.pc = "idle"])
  /\ UNCHANGED <<m, hc, get, pooled, cleaners>>

\* go c.mCleaner(m)
StartCleaner(p) ==
  /\ req[p].pc = "do" /\ req[p].start
  /\ cleaners' = cleaners + 1
  /\ Goes(p, [req[p] EXCEPT !.start = FALSE])
  /\ UNCHANGED <<m, hc, get, chan, pooled>>

\* hc.Do takes an idle connection or dials one.
Acquire(p) ==
  LET c == req[p].hc IN
  /\ req[p].pc = "do" /\ ~req[p].start
  /\ \/ hc[c].idle > 0 /\ hc' = [hc EXCEPT ![c].idle = @ - 1]
     \/ hc[c].idle = 0 /\ connsCount(c) < MaxConnsPerHost /\ UNCHANGED hc
  /\ Goes(p, [req[p] EXCEPT !.pc = "using"])
  /\ UNCHANGED <<m, get, chan, pooled, cleaners>>

\* The end of hc.Do, and the deferred decrement of pendingClientRequests: the
\* connection is kept, closed, or left to its dial when the wait timed out; a
\* redirect makes doRequestFollowRedirects call Do again.
DoEnds(p) ==
  LET c == req[p].hc
      kept == [hc[c] EXCEPT !.idle = @ + 1]
      stray == [hc[c] EXCEPT !.stray = @ + 1]
  IN
  /\ req[p].pc = "using"
  /\ \E v \in {kept, hc[c], stray} :
       /\ hc' = [hc EXCEPT ![c] = [v EXCEPT !.pending = v.pending - 1]]
       \* an answer that is no redirect, or an error
       /\ \/ /\ Respond(p)
             /\ Goes(p, [req[p] EXCEPT !.pc = "idle", !.hc = None])
          \* a redirect; one too many is ErrTooManyRedirects
          \/ /\ v # stray /\ req[p].redirects < MaxRedirects
             /\ \E h \in Hosts :
                  Goes(p, [req[p] EXCEPT !.pc = "lookup", !.hc = None, !.host = h,
                                         !.redirects = @ + 1])
             /\ UNCHANGED chan
  /\ UNCHANGED <<m, get, pooled, cleaners>>

\* ErrNoFreeConns: every connection of the host is taken.
NoFreeConns(p) ==
  LET c == req[p].hc IN
  /\ req[p].pc = "do" /\ ~req[p].start
  /\ hc[c].idle = 0 /\ connsCount(c) = MaxConnsPerHost
  /\ hc' = [hc EXCEPT ![c].pending = @ - 1]
  /\ Respond(p)
  /\ Goes(p, [req[p] EXCEPT !.pc = "idle", !.hc = None])
  /\ UNCHANGED <<m, get, pooled, cleaners>>

-----------------------------------------------------------------------------
(* What the HostClients do meanwhile, CloseIdleConnections and mCleaner.   *)

\* dialConnFor of a dial nobody waits for: its connection is pooled or closed.
StrayDialEnds(c) ==
  /\ hc[c].stray > 0
  /\ \E kept \in {0, 1} :
       hc' = [hc EXCEPT ![c] = [hc[c] EXCEPT !.stray = hc[c].stray - 1, !.idle = hc[c].idle + kept]]
  /\ UNCHANGED <<m, req, get, chan, pooled, cleaners>>

\* connsCleaner of a HostClient closes a connection that was idle too long.
IdleExpires(c) ==
  /\ hc[c].idle > 0
  /\ hc' = [hc EXCEPT ![c].idle = @ - 1]
  /\ UNCHANGED <<m, req, get, chan, pooled, cleaners>>

CloseIdleConnections ==
  /\ hc' = [c \in HostClients |-> IF \E h \in Hosts : m[h] = c THEN [hc[c] EXCEPT !.idle = 0] ELSE hc[c]]
  /\ hc' # hc
  /\ UNCHANGED <<m, req, get, chan, pooled, cleaners>>

\* Mutant: the requests between Do's lookup and their connection are forgotten.
IdleByConns(c) == connsCount(c) = 0

\* One round of mCleaner, under mLock: a host without connections and without
\* requests is forgotten; the cleaner ends when the map is empty.
Idle(c) == connsCount(c) = 0 /\ hc[c].pending = 0
mCleaner ==
  /\ cleaners > 0
  /\ m' = [h \in Hosts |-> IF m[h] # None /\ Idle(m[h]) THEN None ELSE m[h]]
  /\ cleaners' = IF \A h \in Hosts : m'[h] = None THEN cleaners - 1 ELSE cleaners
  /\ UNCHANGED <<hc, req, get, chan, pooled>>

-----------------------------------------------------------------------------
ClientStep(p) ==
  \/ GetDeadline(p) \/ GetAnswered(p) \/ GetTimedOut(p) \/ Do(p) \/ Lookup(p) \/ Create(p)
  \/ ConfigureFails(p) \/ StartCleaner(p) \/ Acquire(p) \/ DoEnds(p) \/ NoFreeConns(p)
ClientNext ==
  \/ \E p \in Requesters : ClientStep(p)
  \/ \E c \in HostClients : StrayDialEnds(c) \/ IdleExpires(c)
  \/ CloseIdleConnections \/ mCleaner

ClientSpec == ClientInit /\ [][ClientNext]_clientVars

-----------------------------------------------------------------------------
(* Properties.                                                             *)

\* The requests whose goroutine is about to start the cleaner.
Starting == {p \in Requesters : req[p].start}

\* A host has one HostClient: one with a connection or a request is the one
\* in the map, so that MaxConnsPerHost limits the host.  And a map that holds
\* a host has exactly one cleaner, running or about to be started.
OneClientPerHost ==
  /\ \A c \in HostClients :
       connsCount(c) > 0 \/ hc[c].pending > 0 => m[hc[c].host] = c
  /\ (\E h \in Hosts : m[h] # None) => cleaners + Cardinality(Starting) = 1

\* GetDeadline returns the response of its own request or ErrTimeout, and a
\* channel goes back to the pool empty, whatever the timer and the goroutine
\* with the request do at the same moment.
GetResultOwn ==
  /\ \A p \in Getters : get[p].got \in {None, p}
  /\ \A c \in pooled : chan[c] = None
=============================================================================
