----------------------------- MODULE WorkerPool -----------------------------
(***************************************************************************)
(* fasthttp/workerpool.go: a pool of goroutines that serve connections,    *)
(* each behind a channel of its own, in LIFO order.  One accept loop (the  *)
(* body of Server.Serve) calls Serve for every connection and Stop when    *)
(* the listener is closed; a goroutine started by Start calls clean; the   *)
(* workers run workerFunc.                                                 *)
(*                                                                         *)
(* A section under wp.lock is one step.  Stop sends on channels while it   *)
(* holds the lock, so it is several steps with the lock held.  Times are   *)
(* ticks of a clock that every read of time.Now may see move.              *)
(***************************************************************************)
EXTENDS Integers, Sequences, FiniteSets

CONSTANTS
  Workers,            \* workerChans, each with the goroutine behind it
  Conns,              \* connections
  MaxWorkersCount,    \* Server.Concurrency
  Cap,                \* workerChanCap: 0 when GOMAXPROCS = 1, else 1
  MaxIdle,            \* MaxIdleWorkerDuration, in ticks
  MaxTime,            \* bound of the clock
  NoWorker, NoConn, Nil

\* The pool has room for a worker and there is a workerChan for each; Nil is
\* the message that tells a worker to stop.
ASSUME WorkerPoolAssumption ==
  /\ IsFiniteSet(Workers)
  /\ MaxWorkersCount \in Nat \ {0}
  /\ Cap \in {0, 1} /\ MaxIdle \in Nat /\ MaxTime \in Nat
  /\ NoWorker \notin Workers /\ NoConn \notin Conns /\ Nil \notin Conns /\ Nil # NoConn

VARIABLES
  ready,         \* wp.ready, the workers waiting for a connection
  workersCount,  \* wp.workersCount
  mustStop,      \* wp.mustStop
  stopCh,        \* wp.stopCh is closed
  locked,        \* Stop is inside its critical section
  box,           \* the buffered message of each workerChan, or NoConn
  wpc,           \* where each worker is; "none" when it has no goroutine
  wconn,         \* the connection a worker serves
  lastUseTime,   \* workerChan.lastUseTime
  apc, target, offer,            \* the accept loop: its place, getCh's result, the connection
  cpc, critical, scratch,        \* clean: its place, criticalTime, the scratch list
  now,           \* the clock
  state          \* history: what became of each connection

vars == <<ready, workersCount, mustStop, stopCh, locked, box, wpc, wconn, lastUseTime,
          apc, target, offer, cpc, critical, scratch, now, state>>

poolVars == <<ready, workersCount, mustStop>>
acceptVars == <<apc, target, offer, stopCh, locked>>
cleanVars == <<cpc, critical, scratch>>
workerVars == <<box, wpc, wconn, lastUseTime>>

WorkerPCs == {"none", "recv", "serve", "release", "relock", "exit"}
ConnStates == {"new", "accepted", "closed", "hijacked", "refused"}

Init ==
  /\ ready = <<>> /\ workersCount = 0 /\ mustStop = FALSE /\ stopCh = FALSE /\ locked = FALSE
  /\ box = [w \in Workers |-> NoConn]
  /\ wpc = [w \in Workers |-> "none"]
  /\ wconn = [w \in Workers |-> NoConn]
  /\ lastUseTime = [w \in Workers |-> 0]
  /\ apc = "accept" /\ target = NoWorker /\ offer = NoConn
  /\ cpc = "clean" /\ critical = 0 /\ scratch = <<>>
  /\ now = 0
  /\ state = [c \in Conns |-> "new"]

-----------------------------------------------------------------------------
(* Channels.                                                               *)

\* A message to worker w can be sent now: there is room in the buffer, or, on
\* an unbuffered channel, the worker is receiving.
CanSend(w) == IF Cap = 1 THEN box[w] = NoConn ELSE wpc[w] = "recv"

\* workerFunc after it received m: the connection is served, nil ends the loop.
Received(w, m) ==
  /\ wpc' = [wpc EXCEPT ![w] = IF m = Nil THEN "exit" ELSE "serve"]
  /\ wconn' = [wconn EXCEPT ![w] = IF m = Nil THEN NoConn ELSE m]

\* ch.ch <- m.
Send(w, m) ==
  /\ CanSend(w)
  /\ IF Cap = 1
     THEN box' = [box EXCEPT ![w] = m] /\ UNCHANGED <<wpc, wconn>>
     ELSE Received(w, m) /\ UNCHANGED box
  /\ UNCHANGED lastUseTime

-----------------------------------------------------------------------------
(* The accept loop: Serve and Stop.                                        *)

\* The listener may return c: its name is not in use.
Arriving(c) == state[c] # "accepted"

\* getCh, under the lock: the worker that became ready last ...
GetChReady(c) ==
  /\ apc = "accept" /\ ~locked
  /\ Arriving(c)
  /\ ready # <<>>
  /\ target' = ready[Len(ready)]
  /\ ready' = SubSeq(ready, 1, Len(ready) - 1)
  /\ apc' = "send" /\ offer' = c
  /\ state' = [state EXCEPT ![c] = "accepted"]
  /\ UNCHANGED <<workersCount, mustStop, stopCh, locked, now>>
  /\ UNCHANGED workerVars /\ UNCHANGED cleanVars

\* ... or a new worker, if there are fewer than MaxWorkersCount ...
GetChCreate(c) ==
  /\ apc = "accept" /\ ~locked
  /\ Arriving(c)
  /\ ready = <<>> /\ workersCount < MaxWorkersCount
  /\ workersCount' = workersCount + 1
  /\ \E w \in Workers :
       /\ wpc[w] = "none"
       /\ wpc' = [wpc EXCEPT ![w] = "recv"]
       /\ target' = w
  /\ apc' = "send" /\ offer' = c
  /\ state' = [state EXCEPT ![c] = "accepted"]
  /\ UNCHANGED <<ready, mustStop, stopCh, locked, now, box, wconn, lastUseTime>>
  /\ UNCHANGED cleanVars

\* ... or none, and Serve reports false: the caller closes the connection.
GetChNil(c) ==
  /\ apc = "accept" /\ ~locked
  /\ Arriving(c)
  /\ ready = <<>> /\ workersCount >= MaxWorkersCount
  /\ state' = [state EXCEPT ![c] = "refused"]
  /\ UNCHANGED poolVars /\ UNCHANGED acceptVars /\ UNCHANGED workerVars
  /\ UNCHANGED cleanVars /\ UNCHANGED now

\* Serve hands the connection to the worker.
ServeSend ==
  /\ apc = "send"
  /\ Send(target, offer)
  /\ apc' = "accept" /\ target' = NoWorker /\ offer' = NoConn
  /\ UNCHANGED <<stopCh, locked, now, state>>
  /\ UNCHANGED poolVars /\ UNCHANGED cleanVars

\* Stop closes stopCh and then takes the lock ...
StopLock ==
  /\ apc = "accept" /\ ~locked
  /\ stopCh' = TRUE /\ locked' = TRUE /\ apc' = "stopping"
  /\ UNCHANGED <<target, offer, now, state>>
  /\ UNCHANGED poolVars /\ UNCHANGED workerVars /\ UNCHANGED cleanVars

\* ... sends nil to every ready worker ...
StopNotify ==
  /\ apc = "stopping" /\ ready # <<>>
  /\ Send(Head(ready), Nil)
  /\ ready' = Tail(ready)
  /\ UNCHANGED <<workersCount, mustStop, now, state>>
  /\ UNCHANGED acceptVars /\ UNCHANGED cleanVars

\* Mutant of StopUnlock: busy workers are not told to stop.
StopUnlockNoFlag ==
  /\ apc = "stopping" /\ ready = <<>>
  /\ locked' = FALSE /\ apc' = "stopped"
  /\ UNCHANGED <<ready, workersCount, mustStop, stopCh, target, offer, now, state>>
  /\ UNCHANGED workerVars /\ UNCHANGED cleanVars

\* ... and makes the busy ones stop after their connection.
StopUnlock ==
  /\ apc = "stopping" /\ ready = <<>>
  /\ mustStop' = TRUE /\ locked' = FALSE /\ apc' = "stopped"
  /\ UNCHANGED <<ready, workersCount, stopCh, target, offer, now, state>>
  /\ UNCHANGED workerVars /\ UNCHANGED cleanVars

-----------------------------------------------------------------------------
(* workerFunc and release.                                                 *)

\* The worker takes the message out of its buffered channel.
Receive(w) ==
  /\ wpc[w] = "recv" /\ Cap = 1 /\ box[w] # NoConn
  /\ Received(w, box[w])
  /\ box' = [box EXCEPT ![w] = NoConn]
  /\ UNCHANGED <<lastUseTime, now, state>>
  /\ UNCHANGED poolVars /\ UNCHANGED acceptVars /\ UNCHANGED cleanVars

\* Mutant of WorkerDone: after an error the connection is left open.
WorkerDoneNoClose(w) ==
  /\ wpc[w] = "serve"
  /\ \E s \in {"accepted", "closed", "hijacked"} : state' = [state EXCEPT ![wconn[w]] = s]
  /\ wpc' = [wpc EXCEPT ![w] = "release"]
  /\ wconn' = [wconn EXCEPT ![w] = NoConn]
  /\ UNCHANGED <<box, lastUseTime, now>>
  /\ UNCHANGED poolVars /\ UNCHANGED acceptVars /\ UNCHANGED cleanVars

\* WorkerFunc returns; unless it was hijacked the connection is closed.
WorkerDone(w) ==
  /\ wpc[w] = "serve"
  /\ \E s \in {"closed", "hijacked"} : state' = [state EXCEPT ![wconn[w]] = s]
  /\ wpc' = [wpc EXCEPT ![w] = "release"]
  /\ wconn' = [wconn EXCEPT ![w] = NoConn]
  /\ UNCHANGED <<box, lastUseTime, now>>
  /\ UNCHANGED poolVars /\ UNCHANGED acceptVars /\ UNCHANGED cleanVars

\* release reads the time before it takes the lock.
ReleaseStamp(w) ==
  /\ wpc[w] = "release"
  /\ lastUseTime' = [lastUseTime EXCEPT ![w] = now]
  /\ wpc' = [wpc EXCEPT ![w] = "relock"]
  /\ UNCHANGED <<box, wconn, now, state>>
  /\ UNCHANGED poolVars /\ UNCHANGED acceptVars /\ UNCHANGED cleanVars

\* release under the lock: the worker becomes ready, or ends after Stop.
ReleaseLock(w) ==
  /\ wpc[w] = "relock" /\ ~locked
  /\ ready' = IF mustStop THEN ready ELSE Append(ready, w)
  /\ wpc' = [wpc EXCEPT ![w] = IF mustStop THEN "exit" ELSE "recv"]
  /\ UNCHANGED <<workersCount, mustStop, box, wconn, lastUseTime, now, state>>
  /\ UNCHANGED acceptVars /\ UNCHANGED cleanVars

\* workerFunc returns and the workerChan goes back to workerChanPool.
WorkerExit(w) ==
  /\ wpc[w] = "exit" /\ ~locked
  /\ workersCount' = workersCount - 1
  /\ wpc' = [wpc EXCEPT ![w] = "none"]
  /\ UNCHANGED <<ready, mustStop, box, wconn, lastUseTime, now, state>>
  /\ UNCHANGED acceptVars /\ UNCHANGED cleanVars

-----------------------------------------------------------------------------
(* clean and the goroutine that calls it.                                  *)

CleanTime ==
  /\ cpc = "clean"
  /\ critical' = now - MaxIdle
  /\ cpc' = "lock"
  /\ UNCHANGED <<scratch, now, state>>
  /\ UNCHANGED poolVars /\ UNCHANGED acceptVars /\ UNCHANGED workerVars

\* One probe of the binary search over ready[l..r] (0-based): "before" tells
\* whether criticalTime.After(ready[mid].lastUseTime).
Before(i) == lastUseTime[ready[i + 1]] < critical

\* The binary search of clean from l = lr[1] and r = lr[2] on, and from its start:
\* the last index whose worker it takes for obsolete.
SearchFrom[lr \in (0..Len(ready)) \X (-1..(Len(ready) - 1))] ==
  LET mid == (lr[1] + lr[2]) \div 2
  IN  IF lr[1] > lr[2] THEN lr[2]
      ELSE IF Before(mid) THEN SearchFrom[<<mid + 1, lr[2]>>]
      ELSE SearchFrom[<<lr[1], mid - 1>>]

Search == SearchFrom[<<0, Len(ready) - 1>>]

\* Mutant of CleanTake: the obsolete workers stay in wp.ready.
CleanTakeKeeps ==
  /\ cpc = "lock" /\ ~locked
  /\ scratch' = SubSeq(ready, 1, Search + 1)
  /\ cpc' = "notify"
  /\ UNCHANGED <<ready, workersCount, mustStop, critical, now, state>>
  /\ UNCHANGED acceptVars /\ UNCHANGED workerVars

\* The obsolete workers leave wp.ready for the scratch list, under the lock.
CleanTake ==
  /\ cpc = "lock" /\ ~locked
  /\ scratch' = SubSeq(ready, 1, Search + 1)
  /\ ready' = SubSeq(ready, Search + 2, Len(ready))
  /\ cpc' = "notify"
  /\ UNCHANGED <<workersCount, mustStop, critical, now, state>>
  /\ UNCHANGED acceptVars /\ UNCHANGED workerVars

\* They are told to stop, outside the lock.
CleanNotify ==
  /\ cpc = "notify" /\ scratch # <<>>
  /\ Send(Head(scratch), Nil)
  /\ scratch' = Tail(scratch)
  /\ UNCHANGED <<cpc, critical, now, state>>
  /\ UNCHANGED poolVars /\ UNCHANGED acceptVars

\* The goroutine ends when stopCh is closed, else it sleeps and cleans again.
CleanLoop ==
  /\ cpc = "notify" /\ scratch = <<>>
  /\ cpc' = IF stopCh THEN "done" ELSE "clean"
  /\ UNCHANGED <<critical, scratch, now, state>>
  /\ UNCHANGED poolVars /\ UNCHANGED acceptVars /\ UNCHANGED workerVars

Tick ==
  /\ now < MaxTime
  /\ now' = now + 1
  /\ UNCHANGED state
  /\ UNCHANGED poolVars /\ UNCHANGED acceptVars /\ UNCHANGED workerVars /\ UNCHANGED cleanVars

-----------------------------------------------------------------------------
AcceptNext ==
  \/ \E c \in Conns : GetChReady(c) \/ GetChCreate(c) \/ GetChNil(c)
  \/ ServeSend \/ StopLock \/ StopNotify \/ StopUnlock

WorkerNext(w) ==
  Receive(w) \/ WorkerDone(w) \/ ReleaseStamp(w) \/ ReleaseLock(w) \/ WorkerExit(w)

CleanNext == CleanTime \/ CleanTake \/ CleanNotify \/ CleanLoop

\* Everything has ended: the accept loop, clean and every worker.
Ended ==
  /\ apc = "stopped" /\ cpc = "done" /\ \A w \in Workers : wpc[w] = "none"
  /\ UNCHANGED vars

Next ==
  AcceptNext \/ (\E w \in Workers : WorkerNext(w)) \/ CleanNext \/ Tick \/ Ended

\* Runnable goroutines run and handlers return; connections need not come and
\* nobody has to call Stop, but a Serve or Stop that was called goes on.
Fairness ==
  /\ \A w \in Workers : SF_vars(WorkerNext(w))
  /\ WF_vars(ServeSend \/ StopNotify \/ StopUnlock)
  /\ SF_vars(CleanNext)

Spec == Init /\ [][Next]_vars

FairSpec == Spec /\ Fairness

-----------------------------------------------------------------------------
(* Properties.                                                             *)

\* Every variable has the type of the field or local it models.
TypeOK ==
  /\ ready \in Seq(Workers)
  /\ workersCount \in Nat
  /\ mustStop \in BOOLEAN /\ stopCh \in BOOLEAN /\ locked \in BOOLEAN
  /\ box \in [Workers -> Conns \cup {NoConn, Nil}]
  /\ wpc \in [Workers -> WorkerPCs]
  /\ wconn \in [Workers -> Conns \cup {NoConn}]
  /\ lastUseTime \in [Workers -> Nat]
  /\ apc \in {"accept", "send", "stopping", "stopped"}
  /\ target \in Workers \cup {NoWorker} /\ offer \in Conns \cup {NoConn}
  /\ cpc \in {"clean", "lock", "notify", "done"} /\ critical \in Int /\ scratch \in Seq(Workers)
  /\ now \in Nat
  /\ state \in [Conns -> ConnStates]

\* What entitles somebody to send the next message to worker w, or the message
\* that was sent: a place in wp.ready, in clean's scratch list, being the
\* result of getCh, a message in its channel.
Tokens(w) ==
  {<<"ready", i>> : i \in {j \in DOMAIN ready : ready[j] = w}}
    \cup {<<"scratch", i>> : i \in {j \in DOMAIN scratch : scratch[j] = w}}
    \cup {<<"target", 0>> : t \in {v \in {target} : v = w}}
    \cup {<<"box", 0>> : b \in {v \in {box[w]} : v # NoConn}}

\* A worker that waits for a message is promised exactly one, whoever will
\* send it (Serve, Stop or clean); a worker that does not wait is promised
\* none.  So no send on a buffered channel blocks, Stop included, no
\* connection follows the nil that ends a worker, and no worker is forgotten.
OneToken ==
  \A w \in Workers :
    /\ \A t, u \in Tokens(w) : t = u
    /\ wpc[w] = "recv" <=> Tokens(w) # {}

\* Where an accepted connection is: in Serve, in a channel, or with a worker.
Owners(c) ==
  {<<"offer", NoWorker>> : o \in {v \in {offer} : v = c}}
    \cup {<<"box", w>> : w \in {v \in Workers : box[v] = c}}
    \cup {<<"worker", w>> : w \in {v \in Workers : wconn[v] = c}}

\* A connection Serve took on is with exactly one worker, or on its way to
\* one, until it is closed or hijacked; nobody touches it afterwards.
ConnOwned ==
  \A c \in Conns :
    /\ \A o, p \in Owners(c) : o = p
    /\ state[c] = "accepted" <=> Owners(c) # {}

\* Every connection Serve took on is served and closed (or hijacked).
ConnServed == \A c \in Conns : (state[c] = "accepted") ~> (state[c] # "accepted")

\* After Stop every worker ends, the busy ones after their connection, and so
\* does the goroutine that calls clean.
StopEnds == stopCh ~> (workersCount = 0 /\ cpc = "done")

=============================================================================
