------------------------------ MODULE LBClient ------------------------------
(***************************************************************************)
(* LBClient of src/fasthttp/lbclient.go: a call goes to the client with    *)
(* the fewest pending requests and penalties, then the fewest requests     *)
(* served; a client that fails is penalised for penaltyDuration.           *)
(***************************************************************************)
EXTENDS Integers, FiniteSets, Sequences

CONSTANTS Balanced,     \* lbClients, in the order of LBClient.Clients
          Addable,      \* others, which AddClient may add
          LBCallers,
          maxPenalty,
          MaxLBCalls,   \* bound: calls one caller makes
          NoClient

Initial == {Balanced[i] : i \in DOMAIN Balanced}
LBClients == Initial \cup Addable

ASSUME LBAssumption ==
  /\ maxPenalty \in Nat /\ MaxLBCalls \in Nat
  /\ IsFiniteSet(LBCallers)
  /\ Balanced \in Seq(LBClients) /\ NoClient \notin LBClients

VARIABLES cs,        \* Seq(LBClients): the clients balanced now
          lbStarted, \* cc.once has run
          penalty,   \* [LBClients -> Nat]
          total,     \* [LBClients -> Nat]
          timers,    \* [LBClients -> Nat]: penalties that AfterFunc takes back
          lbCall     \* [LBCallers -> [pc, c, load, next, n]]: c, load and next are
                     \* minC, minN with minT, and where get's loop is

lbVars == <<cs, lbStarted, penalty, total, timers, lbCall>>

LBInit ==
  /\ cs = <<>> /\ lbStarted = FALSE
  /\ penalty = [c \in LBClients |-> 0]
  /\ total = penalty /\ timers = penalty
  /\ lbCall = [p \in LBCallers |-> [pc |-> "idle", c |-> NoClient, load |-> <<0, 0>>,
                                      next |-> 0, n |-> 0]]

\* The calls that are at l with client c
LBAt(l, c) == {p \in LBCallers : lbCall[p].pc = l /\ lbCall[p].c = c}

\* PendingRequests of the client behind the lbClient, plus its penalty
LBPending(c) == Cardinality(LBAt("do", c)) + penalty[c]

\* What get reads of a client, and its comparison
Load(c) == <<LBPending(c), total[c]>>
Less(a, b) == a[1] < b[1] \/ (a[1] = b[1] /\ a[2] < b[2])

\* get has c as the least loaded of the first i - 1 clients of s; after the last
\* of them DoDeadline is called on it.
Chosen(call, s, c, load, i) ==
  IF i <= Len(s) THEN [call EXCEPT !.pc = "get", !.c = c, !.load = load, !.next = i]
  ELSE [call EXCEPT !.pc = "do", !.c = c, !.load = <<0, 0>>, !.next = 0, !.n = @ + 1]

\* The calls inside get have mu for reading: one that panicked never unlocks it.
ReadLocked == \E p \in LBCallers : lbCall[p].pc \in {"get", "panic"}

\* Do, DoTimeout and DoDeadline call get; init fills cs once.  With every client
\* removed cs[0] panics.
LBGet(p) ==
  LET s == IF lbStarted THEN cs ELSE cs \o Balanced IN
  /\ lbCall[p].pc = "idle" /\ lbCall[p].n < MaxLBCalls
  /\ lbStarted' = TRUE /\ cs' = s
  /\ lbCall' = [lbCall EXCEPT ![p] = IF s = <<>> THEN [@ EXCEPT !.pc = "panic"]
                                     ELSE Chosen(@, s, s[1], Load(s[1]), 2)]
  /\ UNCHANGED <<penalty, total, timers>>

\* The loop of get, one client after the other, while calls begin and end
LBLook(p) ==
  LET call == lbCall[p]
      c == cs[call.next]
      less == Less(Load(c), call.load)
  IN
  /\ call.pc = "get"
  /\ lbCall' = [lbCall EXCEPT ![p] = Chosen(call, cs, IF less THEN c ELSE call.c,
                                            IF less THEN Load(c) ELSE call.load, call.next + 1)]
  /\ UNCHANGED <<cs, lbStarted, penalty, total, timers>>

\* The client answers; a healthy answer is counted.
LBHealthy(p) ==
  LET c == lbCall[p].c IN
  /\ lbCall[p].pc = "do"
  /\ total' = [total EXCEPT ![c] = @ + 1]
  /\ lbCall' = [lbCall EXCEPT ![p].pc = "idle", ![p].c = NoClient]
  /\ UNCHANGED <<cs, lbStarted, penalty, timers>>

\* incPenalty: one is added before the limit is looked at ...
LBFailed(p) ==
  LET c == lbCall[p].c IN
  /\ lbCall[p].pc = "do"
  /\ penalty' = [penalty EXCEPT ![c] = @ + 1]
  /\ lbCall' = [lbCall EXCEPT ![p].pc = IF penalty'[c] > maxPenalty THEN "undo" ELSE "after"]
  /\ UNCHANGED <<cs, lbStarted, total, timers>>

\* Mutant: the penalty above maxPenalty is not taken back.
LBUndoKeeps(p) ==
  LET c == lbCall[p].c IN
  /\ lbCall[p].pc = "undo"
  /\ total' = [total EXCEPT ![c] = @ + 1]
  /\ lbCall' = [lbCall EXCEPT ![p].pc = "idle", ![p].c = NoClient]
  /\ UNCHANGED <<cs, lbStarted, penalty, timers>>

\* ... and taken back above it: the call counts as served.
LBUndo(p) ==
  LET c == lbCall[p].c IN
  /\ lbCall[p].pc = "undo"
  /\ penalty' = [penalty EXCEPT ![c] = @ - 1]
  /\ total' = [total EXCEPT ![c] = @ + 1]
  /\ lbCall' = [lbCall EXCEPT ![p].pc = "idle", ![p].c = NoClient]
  /\ UNCHANGED <<cs, lbStarted, timers>>

\* time.AfterFunc(penaltyDuration, c.decPenalty)
LBAfter(p) ==
  LET c == lbCall[p].c IN
  /\ lbCall[p].pc = "after"
  /\ timers' = [timers EXCEPT ![c] = @ + 1]
  /\ lbCall' = [lbCall EXCEPT ![p].pc = "idle", ![p].c = NoClient]
  /\ UNCHANGED <<cs, lbStarted, penalty, total>>

decPenalty(c) ==
  /\ timers[c] > 0
  /\ timers' = [timers EXCEPT ![c] = @ - 1]
  /\ penalty' = [penalty EXCEPT ![c] = @ - 1]
  /\ UNCHANGED <<cs, lbStarted, total, lbCall>>

\* AddClient, also before the first call: a new lbClient.  For a client that was
\* removed it is the old object here, once nothing refers to that.
AddClient ==
  \E c \in LBClients :
    /\ ~ReadLocked
    /\ lbStarted \/ c \notin Initial
    /\ \A i \in DOMAIN cs : cs[i] # c
    /\ penalty[c] = 0 /\ \A p \in LBCallers : lbCall[p].c # c
    /\ cs' = Append(cs, c)
    /\ total' = [total EXCEPT ![c] = 0]
    /\ UNCHANGED <<lbStarted, penalty, timers, lbCall>>

\* RemoveClients moves the clients that its callback spares to the front, in
\* their order, and cuts the slice behind them.
RemoveClients ==
  /\ ~ReadLocked
  /\ \E n \in 0..(Len(cs) - 1) : \E spared \in [1..n -> DOMAIN cs] :
       /\ \A i, j \in 1..n : i < j => spared[i] < spared[j]
       /\ cs' = [i \in 1..n |-> cs[spared[i]]]
  /\ UNCHANGED <<lbStarted, penalty, total, timers, lbCall>>

LBNext ==
  \/ \E p \in LBCallers : LBGet(p) \/ LBLook(p) \/ LBHealthy(p) \/ LBFailed(p) \/ LBUndo(p) \/ LBAfter(p)
  \/ \E c \in LBClients : decPenalty(c)
  \/ AddClient \/ RemoveClients

LBSpec == LBInit /\ [][LBNext]_lbVars

-----------------------------------------------------------------------------
\* The penalty of a client is what its timers and the calls between incPenalty
\* and its outcome will take back: it returns to 0 and never wraps below it,
\* and it is over maxPenalty only by the calls about to undo theirs.
PenaltyPaid ==
  \A c \in LBClients :
    /\ penalty[c] = timers[c] + Cardinality(LBAt("after", c)) + Cardinality(LBAt("undo", c))
    /\ penalty[c] - Cardinality(LBAt("undo", c)) <= maxPenalty
=============================================================================
