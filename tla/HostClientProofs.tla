-------------------------- MODULE HostClientProofs --------------------------
(***************************************************************************)
(* Proofs about HostClient, for every number of callers, connections and   *)
(* wantConns and every setting of the client.                              *)
(*                                                                         *)
(* Coherent is inductive: Init establishes it and every action keeps it.   *)
(* CountExact and ExclusiveUse follow from it.  Waiters adds who answers a *)
(* wantConn and gives NoWaiterDropped; Located, on top of both, gives      *)
(* NoConnForgotten.                                                        *)
(***************************************************************************)
EXTENDS HostClient, FiniteSetTheorems, TLAPS

\* A place that occupies a slot.
Occupied == Places \ {"free", "closing"}

-----------------------------------------------------------------------------
(* Counting.                                                               *)

\* Giving a connection a slot raises the number of occupied slots by one.
LEMMA CountAdd ==
  ASSUME NEW pl \in [Conns -> Places], NEW k \in Conns, NEW x \in Occupied,
         pl[k] \notin Occupied
  PROVE  Cardinality(CountedIn([pl EXCEPT ![k] = x])) = Cardinality(CountedIn(pl)) + 1
<1>1. IsFiniteSet(CountedIn(pl))
  BY FS_Subset, HostClientAssumption DEF CountedIn
<1>2. k \notin CountedIn(pl)
  BY DEF CountedIn, Occupied, Places
<1>3. CountedIn([pl EXCEPT ![k] = x]) = CountedIn(pl) \cup {k}
  BY DEF CountedIn, Occupied, Places
<1> QED
  BY <1>1, <1>2, <1>3, FS_AddElement

\* Taking it away lowers that number by one.
LEMMA CountRemove ==
  ASSUME NEW pl \in [Conns -> Places], NEW k \in Conns, NEW x \in {"free", "closing"},
         pl[k] \in Occupied
  PROVE  Cardinality(CountedIn([pl EXCEPT ![k] = x])) = Cardinality(CountedIn(pl)) - 1
<1>1. IsFiniteSet(CountedIn(pl))
  BY FS_Subset, HostClientAssumption DEF CountedIn
<1>2. k \in CountedIn(pl)
  BY DEF CountedIn, Occupied, Places
<1>3. CountedIn([pl EXCEPT ![k] = x]) = CountedIn(pl) \ {k}
  BY DEF CountedIn, Occupied, Places
<1> QED
  BY <1>1, <1>2, <1>3, FS_RemoveElement

\* A number of occupied slots is a natural number.
LEMMA CountNat ==
  ASSUME NEW pl
  PROVE  Cardinality(CountedIn(pl)) \in Nat
<1>1. IsFiniteSet(CountedIn(pl))
  BY FS_Subset, HostClientAssumption DEF CountedIn
<1> QED
  BY <1>1, FS_CardinalityType

\* The stale front of the queue is a prefix of it.
LEMMA StaleBound ==
  ASSUME connsWait \in Seq(Wants)
  PROVE  Stale \in 0..Len(connsWait)
<1> DEFINE S == {i \in DOMAIN connsWait : \A j \in 1..i : ~IsWaiting(connsWait[j])}
<1>0. 1 \in Int /\ Len(connsWait) \in Int /\ Len(connsWait) >= 0
  OBVIOUS
<1> HIDE DEF S
<1>1. IsFiniteSet(1..Len(connsWait)) /\ Cardinality(1..Len(connsWait)) = Len(connsWait)
  BY <1>0, FS_Interval, SMTT(20)
<1>2. S \in SUBSET (1..Len(connsWait))
  BY DEF S
<1>3. IsFiniteSet(S) /\ Cardinality(S) \in Nat /\ Cardinality(S) <= Len(connsWait)
  BY <1>1, <1>2, FS_Subset, FS_CardinalityType
<1> QED
  BY <1>3 DEF Stale, S

-----------------------------------------------------------------------------
(* What stays true of the parts an action does not touch.                  *)

\* The initial state is coherent.
LEMMA InitCoherent == Init => Coherent
<1> SUFFICES ASSUME Init PROVE Coherent
  OBVIOUS
<1> USE HostClientAssumption DEF Init
<1>1. TypeOK
  <2>1. want \in [Wants -> [ready : BOOLEAN, conn : Conns \cup {NoConn}, err : BOOLEAN]]
    BY DEF Unset
  <2>2. conns \in Seq(Conns) /\ connsWait \in Seq(Wants) /\ scratch \in [Sweepers -> Seq(Conns)]
    OBVIOUS
  <2>3. pc \in [Agents -> PCs] /\ res \in [Callers -> Results] /\ place \in [Conns -> Places]
    BY DEF PCs, Results, Places
  <2>4. maxConns \in MaxConnsValues /\ allowed \in Nat
    BY DEF Limit
  <2> QED
    BY <2>1, <2>2, <2>3, <2>4 DEF TypeOK
<1>2. CountExact
  <2>1. CountedIn(place) = {}
    BY DEF CountedIn
  <2> QED
    BY <2>1, FS_EmptySet DEF CountExact
<1>3. AgentsCoherent /\ PoolCoherent /\ ScratchCoherent /\ WantsCoherent
  BY DEF AgentsCoherent, PoolCoherent, ScratchCoherent, WantsCoherent, Dialling, Holding,
         Agents, Sweepers
<1>4. LockCoherent /\ RolesCoherent
  BY DEF LockCoherent, RolesCoherent, Agents, Sweepers
<1> QED
  BY <1>1, <1>2, <1>3, <1>4 DEF Coherent

\* A step that only moves agents inside one stage of their work, and changes
\* neither the pool nor a connection, keeps the invariant.
LEMMA LocalStep ==
  ASSUME Coherent, TypeOK', LockCoherent', RolesCoherent',
         UNCHANGED <<connsCount, conns, want, cur, mine, scratch, place>>,
         \A a \in Agents :
           /\ pc[a] \in Dialling <=> pc'[a] \in Dialling
           /\ pc[a] \in Holding <=> pc'[a] \in Holding
           /\ pc[a] = "netclose" <=> pc'[a] = "netclose"
  PROVE  Coherent'
<1> USE DEF Coherent
<1>1. CountExact'
  BY DEF CountExact, CountedIn
<1>2. AgentsCoherent'
  BY DEF AgentsCoherent
<1>3. PoolCoherent' /\ ScratchCoherent' /\ WantsCoherent'
  BY DEF PoolCoherent, ScratchCoherent, WantsCoherent
<1> QED
  BY <1>1, <1>2, <1>3

-----------------------------------------------------------------------------
(* Steps inside one stage.                                                 *)

\* A call of Do.
LEMMA DoCoherent ==
  ASSUME Coherent, NEW p \in Callers, Do(p)
  PROVE  Coherent'
<1> USE HostClientAssumption DEF Do, Goto, Unlocked
<1>1. TypeOK'
  BY DEF Coherent, TypeOK, Agents, Sweepers, PCs, Results
<1>2. LockCoherent' /\ RolesCoherent'
  BY DEF Coherent, LockCoherent, RolesCoherent, TypeOK, Agents, Sweepers
<1>3. \A b \in Agents : /\ pc[b] \in Dialling <=> pc'[b] \in Dialling
                        /\ pc[b] \in Holding <=> pc'[b] \in Holding
                        /\ pc[b] = "netclose" <=> pc'[b] = "netclose"
  BY DEF Coherent, TypeOK, Agents, Dialling, Holding
<1>4. UNCHANGED <<connsCount, conns, want, cur, mine, scratch, place>>
  OBVIOUS
<1> QED
  BY <1>1, <1>2, <1>3, <1>4, LocalStep

\* The deadline check of Do.
LEMMA DoTimeoutCoherent ==
  ASSUME Coherent, NEW p \in Callers, DoTimeout(p)
  PROVE  Coherent'
<1> USE HostClientAssumption DEF DoTimeout, Goto, Unlocked
<1>1. TypeOK'
  BY DEF Coherent, TypeOK, Agents, Sweepers, PCs, Results
<1>2. LockCoherent' /\ RolesCoherent'
  BY DEF Coherent, LockCoherent, RolesCoherent, TypeOK, Agents, Sweepers
<1>3. \A b \in Agents : /\ pc[b] \in Dialling <=> pc'[b] \in Dialling
                        /\ pc[b] \in Holding <=> pc'[b] \in Holding
                        /\ pc[b] = "netclose" <=> pc'[b] = "netclose"
  BY DEF Coherent, TypeOK, Agents, Dialling, Holding
<1>4. UNCHANGED <<connsCount, conns, want, cur, mine, scratch, place>>
  OBVIOUS
<1> QED
  BY <1>1, <1>2, <1>3, <1>4, LocalStep

\* acquireConn gives up at once.
LEMMA AcquireFailCoherent ==
  ASSUME Coherent, NEW p \in Callers, AcquireFail(p)
  PROVE  Coherent'
<1> USE HostClientAssumption DEF AcquireFail, Goto, Unlocked
<1>1. TypeOK'
  BY DEF Coherent, TypeOK, Agents, Sweepers, PCs, Results
<1>2. LockCoherent' /\ RolesCoherent'
  BY DEF Coherent, LockCoherent, RolesCoherent, TypeOK, Agents, Sweepers
<1>3. \A b \in Agents : /\ pc[b] \in Dialling <=> pc'[b] \in Dialling
                        /\ pc[b] \in Holding <=> pc'[b] \in Holding
                        /\ pc[b] = "netclose" <=> pc'[b] = "netclose"
  BY DEF Coherent, TypeOK, Agents, Dialling, Holding
<1>4. UNCHANGED <<connsCount, conns, want, cur, mine, scratch, place>>
  OBVIOUS
<1> QED
  BY <1>1, <1>2, <1>3, <1>4, LocalStep

\* acquireConn decides to wait.
LEMMA AcquireMustWaitCoherent ==
  ASSUME Coherent, NEW p \in Callers, AcquireMustWait(p)
  PROVE  Coherent'
<1> USE HostClientAssumption DEF AcquireMustWait, Goto, Unlocked
<1>1. TypeOK'
  BY DEF Coherent, TypeOK, Agents, Sweepers, PCs, Results
<1>2. LockCoherent' /\ RolesCoherent'
  BY DEF Coherent, LockCoherent, RolesCoherent, TypeOK, Agents, Sweepers
<1>3. \A b \in Agents : /\ pc[b] \in Dialling <=> pc'[b] \in Dialling
                        /\ pc[b] \in Holding <=> pc'[b] \in Holding
                        /\ pc[b] = "netclose" <=> pc'[b] = "netclose"
  BY DEF Coherent, TypeOK, Agents, Dialling, Holding
<1>4. UNCHANGED <<connsCount, conns, want, cur, mine, scratch, place>>
  OBVIOUS
<1> QED
  BY <1>1, <1>2, <1>3, <1>4, LocalStep

\* The timer of acquireConn fires.
LEMMA WaitTimeoutCoherent ==
  ASSUME Coherent, NEW p \in Callers, WaitTimeout(p)
  PROVE  Coherent'
<1> USE HostClientAssumption DEF WaitTimeout, Goto, Unlocked
<1>1. TypeOK'
  BY DEF Coherent, TypeOK, Agents, Sweepers, PCs, Results
<1>2. LockCoherent' /\ RolesCoherent'
  BY DEF Coherent, LockCoherent, RolesCoherent, TypeOK, Agents, Sweepers
<1>3. \A b \in Agents : /\ pc[b] \in Dialling <=> pc'[b] \in Dialling
                        /\ pc[b] \in Holding <=> pc'[b] \in Holding
                        /\ pc[b] = "netclose" <=> pc'[b] = "netclose"
  BY DEF Coherent, TypeOK, Agents, Dialling, Holding
<1>4. UNCHANGED <<connsCount, conns, want, cur, mine, scratch, place>>
  OBVIOUS
<1> QED
  BY <1>1, <1>2, <1>3, <1>4, LocalStep

\* A dial fails.
LEMMA DialFailCoherent ==
  ASSUME Coherent, NEW a \in Callers \cup Wants, DialFail(a)
  PROVE  Coherent'
<1> USE HostClientAssumption DEF DialFail, Goto, Unlocked
<1>1. TypeOK'
  BY DEF Coherent, TypeOK, Agents, Sweepers, PCs, Results
<1>2. LockCoherent' /\ RolesCoherent'
  BY DEF Coherent, LockCoherent, RolesCoherent, TypeOK, Agents, Sweepers
<1>3. \A b \in Agents : /\ pc[b] \in Dialling <=> pc'[b] \in Dialling
                        /\ pc[b] \in Holding <=> pc'[b] \in Holding
                        /\ pc[b] = "netclose" <=> pc'[b] = "netclose"
  BY DEF Coherent, TypeOK, Agents, Dialling, Holding
<1>4. UNCHANGED <<connsCount, conns, want, cur, mine, scratch, place>>
  OBVIOUS
<1> QED
  BY <1>1, <1>2, <1>3, <1>4, LocalStep

\* A response is read, the connection can be kept.
LEMMA RoundTripKeepCoherent ==
  ASSUME Coherent, NEW p \in Callers, RoundTripKeep(p)
  PROVE  Coherent'
<1> USE HostClientAssumption DEF RoundTripKeep, Goto, Unlocked
<1>1. TypeOK'
  BY DEF Coherent, TypeOK, Agents, Sweepers, PCs, Results
<1>2. LockCoherent' /\ RolesCoherent'
  BY DEF Coherent, LockCoherent, RolesCoherent, TypeOK, Agents, Sweepers
<1>3. \A b \in Agents : /\ pc[b] \in Dialling <=> pc'[b] \in Dialling
                        /\ pc[b] \in Holding <=> pc'[b] \in Holding
                        /\ pc[b] = "netclose" <=> pc'[b] = "netclose"
  BY DEF Coherent, TypeOK, Agents, Dialling, Holding
<1>4. UNCHANGED <<connsCount, conns, want, cur, mine, scratch, place>>
  OBVIOUS
<1> QED
  BY <1>1, <1>2, <1>3, <1>4, LocalStep

\* A response is read, the connection must be closed.
LEMMA RoundTripCloseCoherent ==
  ASSUME Coherent, NEW p \in Callers, RoundTripClose(p)
  PROVE  Coherent'
<1> USE HostClientAssumption DEF RoundTripClose, Goto, Unlocked
<1>1. TypeOK'
  BY DEF Coherent, TypeOK, Agents, Sweepers, PCs, Results
<1>2. LockCoherent' /\ RolesCoherent'
  BY DEF Coherent, LockCoherent, RolesCoherent, TypeOK, Agents, Sweepers
<1>3. \A b \in Agents : /\ pc[b] \in Dialling <=> pc'[b] \in Dialling
                        /\ pc[b] \in Holding <=> pc'[b] \in Holding
                        /\ pc[b] = "netclose" <=> pc'[b] = "netclose"
  BY DEF Coherent, TypeOK, Agents, Dialling, Holding
<1>4. UNCHANGED <<connsCount, conns, want, cur, mine, scratch, place>>
  OBVIOUS
<1> QED
  BY <1>1, <1>2, <1>3, <1>4, LocalStep

\* A request fails.
LEMMA RoundTripErrorCoherent ==
  ASSUME Coherent, NEW p \in Callers, RoundTripError(p)
  PROVE  Coherent'
<1> USE HostClientAssumption DEF RoundTripError, Goto, Unlocked
<1>1. TypeOK'
  <2>1. attempts' \in [Callers -> Nat] /\ res' \in [Callers -> Results]
    <3>1. CASE attempts' = attempts /\ res' = [res EXCEPT ![p] = "Err"]
      BY <3>1 DEF Coherent, TypeOK, Results
    <3>2. CASE /\ attempts' = [attempts EXCEPT ![p] = @ + 1]
               /\ res' = [res EXCEPT ![p] =
                            IF attempts[p] + 1 >= MaxAttempts THEN "Err" ELSE "again"]
      BY <3>2 DEF Coherent, TypeOK, Results
    <3> QED
      BY <3>1, <3>2
  <2> QED
    BY <2>1 DEF Coherent, TypeOK, Agents, Sweepers, PCs
<1>2. LockCoherent' /\ RolesCoherent'
  BY DEF Coherent, LockCoherent, RolesCoherent, TypeOK, Agents, Sweepers
<1>3. \A b \in Agents : /\ pc[b] \in Dialling <=> pc'[b] \in Dialling
                        /\ pc[b] \in Holding <=> pc'[b] \in Holding
                        /\ pc[b] = "netclose" <=> pc'[b] = "netclose"
  BY DEF Coherent, TypeOK, Agents, Dialling, Holding
<1>4. UNCHANGED <<connsCount, conns, want, cur, mine, scratch, place>>
  OBVIOUS
<1> QED
  BY <1>1, <1>2, <1>3, <1>4, LocalStep

\* connsCleaner loops or stops.
LEMMA CleanerCheckCoherent ==
  ASSUME Coherent, CleanerCheck
  PROVE  Coherent'
<1> USE HostClientAssumption DEF CleanerCheck, Goto, Unlocked
<1>1. TypeOK'
  BY DEF Coherent, TypeOK, Agents, Sweepers, PCs, Results
<1>2. LockCoherent' /\ RolesCoherent'
  BY DEF Coherent, LockCoherent, RolesCoherent, TypeOK, Agents, Sweepers
<1>3. \A b \in Agents : /\ pc[b] \in Dialling <=> pc'[b] \in Dialling
                        /\ pc[b] \in Holding <=> pc'[b] \in Holding
                        /\ pc[b] = "netclose" <=> pc'[b] = "netclose"
  BY DEF Coherent, TypeOK, Agents, Dialling, Holding
<1>4. UNCHANGED <<connsCount, conns, want, cur, mine, scratch, place>>
  OBVIOUS
<1> QED
  BY <1>1, <1>2, <1>3, <1>4, LocalStep

\* CloseIdleConnections returns.
LEMMA CloserDoneCoherent ==
  ASSUME Coherent, NEW a \in Closers, CloserDone(a)
  PROVE  Coherent'
<1> USE HostClientAssumption DEF CloserDone, Goto, Unlocked
<1>1. TypeOK'
  BY DEF Coherent, TypeOK, Agents, Sweepers, PCs, Results
<1>2. LockCoherent' /\ RolesCoherent'
  BY DEF Coherent, LockCoherent, RolesCoherent, TypeOK, Agents, Sweepers
<1>3. \A b \in Agents : /\ pc[b] \in Dialling <=> pc'[b] \in Dialling
                        /\ pc[b] \in Holding <=> pc'[b] \in Holding
                        /\ pc[b] = "netclose" <=> pc'[b] = "netclose"
  BY DEF Coherent, TypeOK, Agents, Dialling, Holding
<1>4. UNCHANGED <<connsCount, conns, want, cur, mine, scratch, place>>
  OBVIOUS
<1> QED
  BY <1>1, <1>2, <1>3, <1>4, LocalStep

-----------------------------------------------------------------------------
(* Steps that move a connection to its next stage.                         *)

\* A dial succeeds.
LEMMA DialOkCoherent ==
  ASSUME Coherent, NEW a \in Callers \cup Wants, DialOk(a)
  PROVE  Coherent'
<1> USE HostClientAssumption DEF Coherent, DialOk, Goto, Unlocked, Moves
<1>1. TypeOK'
  BY DEF TypeOK, Agents, Sweepers, PCs, Places, Results
<1>2. CountExact'
  <2>1. CountedIn(place') = CountedIn(place)
    BY DEF CountedIn, AgentsCoherent, WantsCoherent, PoolCoherent, LockCoherent, TypeOK, Dialling, Holding, Agents, Sweepers
  <2> QED
    BY <2>1 DEF CountExact
<1>3. AgentsCoherent'
  BY DEF AgentsCoherent, TypeOK, Dialling, Holding, Agents, Sweepers
<1>4. PoolCoherent'
  BY DEF PoolCoherent, AgentsCoherent, TypeOK, Dialling, Holding, Agents, Sweepers
<1>5. ScratchCoherent'
  BY DEF ScratchCoherent, AgentsCoherent, TypeOK, Dialling, Holding, Agents, Sweepers
<1>6. WantsCoherent'
  BY DEF WantsCoherent, AgentsCoherent, TypeOK, Dialling, Holding, Agents, Sweepers
<1>7. LockCoherent' /\ RolesCoherent'
  BY DEF LockCoherent, RolesCoherent, TypeOK, Agents, Sweepers
<1> QED
  BY <1>1, <1>2, <1>3, <1>4, <1>5, <1>6, <1>7

\* dialConnFor delivers its error.
LEMMA DialerDeliverErrCoherent ==
  ASSUME Coherent, NEW w \in Wants, DialerDeliverErr(w)
  PROVE  Coherent'
<1> USE HostClientAssumption DEF Coherent, DialerDeliverErr, Goto, Deliverable
<1>1. TypeOK'
  BY DEF TypeOK, Agents, Sweepers, PCs, Places, Results
<1>2. CountExact'
  <2>1. CountedIn(place') = CountedIn(place)
    BY DEF CountedIn, AgentsCoherent, WantsCoherent, PoolCoherent, LockCoherent, TypeOK, Dialling, Holding, Agents, Sweepers
  <2> QED
    BY <2>1 DEF CountExact
<1>3. AgentsCoherent'
  BY DEF AgentsCoherent, TypeOK, Dialling, Holding, Agents, Sweepers
<1>4. PoolCoherent'
  BY DEF PoolCoherent, AgentsCoherent, TypeOK, Dialling, Holding, Agents, Sweepers
<1>5. ScratchCoherent'
  BY DEF ScratchCoherent, AgentsCoherent, TypeOK, Dialling, Holding, Agents, Sweepers
<1>6. WantsCoherent'
  BY DEF WantsCoherent, AgentsCoherent, TypeOK, Dialling, Holding, Agents, Sweepers
<1>7. LockCoherent' /\ RolesCoherent'
  BY DEF LockCoherent, RolesCoherent, TypeOK, Agents, Sweepers
<1> QED
  BY <1>1, <1>2, <1>3, <1>4, <1>5, <1>6, <1>7

\* The connection is closed.
LEMMA NetCloseCoherent ==
  ASSUME Coherent, NEW a \in Callers \cup Sweepers, NetClose(a)
  PROVE  Coherent'
<1> USE HostClientAssumption DEF Coherent, NetClose, Goto, Moves, AfterAttempt
<1>1. TypeOK'
  BY DEF TypeOK, Agents, Sweepers, PCs, Places, Results
<1>2. CountExact'
  <2>1. CountedIn(place') = CountedIn(place)
    BY DEF CountedIn, AgentsCoherent, WantsCoherent, PoolCoherent, LockCoherent, TypeOK, Dialling, Holding, Agents, Sweepers
  <2> QED
    BY <2>1 DEF CountExact
<1>3. AgentsCoherent'
  BY DEF AgentsCoherent, TypeOK, Dialling, Holding, Agents, Sweepers
<1>4. PoolCoherent'
  BY DEF PoolCoherent, AgentsCoherent, TypeOK, Dialling, Holding, Agents, Sweepers
<1>5. ScratchCoherent'
  BY DEF ScratchCoherent, AgentsCoherent, TypeOK, Dialling, Holding, Agents, Sweepers
<1>6. WantsCoherent'
  BY DEF WantsCoherent, AgentsCoherent, TypeOK, Dialling, Holding, Agents, Sweepers
<1>7. LockCoherent' /\ RolesCoherent'
  BY DEF LockCoherent, RolesCoherent, TypeOK, Agents, Sweepers
<1> QED
  BY <1>1, <1>2, <1>3, <1>4, <1>5, <1>6, <1>7

\* AgentsCoherent of given values of pc, cur and place.
AgentsIn(pcs, cs, pl) ==
  \A a \in Agents :
    /\ pcs[a] \in Dialling => cs[a] \in Conns /\ pl[cs[a]] = "dialing"
    /\ pcs[a] \in Holding => cs[a] \in Conns /\ pl[cs[a]] = "held"
    /\ pcs[a] = "netclose" => cs[a] \in Conns /\ pl[cs[a]] = "closing"
    /\ pcs[a] \notin Dialling \cup Holding \cup {"netclose"} => cs[a] = NoConn
    /\ \A b \in Agents : a # b /\ cs[a] # NoConn => cs[a] # cs[b]

\* The place of a connection that an agent at l dials or holds.
StageOf(l) == IF l \in Dialling THEN "dialing" ELSE "held"

\* An agent takes over a connection no agent holds.
LEMMA AgentTakesIn ==
  ASSUME NEW pcs \in [Agents -> PCs], NEW cs \in [Agents -> Conns \cup {NoConn}],
         NEW pl \in [Conns -> Places], AgentsIn(pcs, cs, pl),
         NEW a \in Agents, NEW k \in Conns, NEW l \in Dialling \cup Holding,
         pl[k] \in {"free", "idle", "delivered"}
  PROVE  AgentsIn([pcs EXCEPT ![a] = l], [cs EXCEPT ![a] = k], [pl EXCEPT ![k] = StageOf(l)])
<1> USE HostClientAssumption
<1> DEFINE pcs2 == [pcs EXCEPT ![a] = l]
           cs2 == [cs EXCEPT ![a] = k]
           pl2 == [pl EXCEPT ![k] = StageOf(l)]
<1>1. \A b \in Agents : cs[b] # k
  <2> SUFFICES ASSUME NEW b \in Agents, cs[b] = k PROVE FALSE
    OBVIOUS
  <2>1. pcs[b] \in Dialling \cup Holding \cup {"netclose"}
    BY DEF AgentsIn
  <2>2. pl[cs[b]] \in {"dialing", "held", "closing"}
    BY <2>1 DEF AgentsIn
  <2> QED
    BY <2>2
<1>2. \A b \in Agents : cs2[b] = (IF b = a THEN k ELSE cs[b])
  OBVIOUS
<1>3. \A b \in Agents : pcs2[b] = (IF b = a THEN l ELSE pcs[b])
  OBVIOUS
<1>4. \A b \in Agents : b # a /\ cs[b] \in Conns => pl2[cs[b]] = pl[cs[b]]
  BY <1>1
<1>5. pl2[k] = StageOf(l)
  OBVIOUS
<1> HIDE DEF pcs2, cs2, pl2
<1>6. ASSUME NEW b \in Agents, b # a
      PROVE  /\ pcs2[b] \in Dialling => cs2[b] \in Conns /\ pl2[cs2[b]] = "dialing"
             /\ pcs2[b] \in Holding => cs2[b] \in Conns /\ pl2[cs2[b]] = "held"
             /\ pcs2[b] = "netclose" => cs2[b] \in Conns /\ pl2[cs2[b]] = "closing"
             /\ pcs2[b] \notin Dialling \cup Holding \cup {"netclose"} => cs2[b] = NoConn
  BY <1>2, <1>3, <1>4, <1>6 DEF AgentsIn
<1>7. /\ pcs2[a] \in Dialling => cs2[a] \in Conns /\ pl2[cs2[a]] = "dialing"
      /\ pcs2[a] \in Holding => cs2[a] \in Conns /\ pl2[cs2[a]] = "held"
      /\ pcs2[a] # "netclose" /\ pcs2[a] \in Dialling \cup Holding
  BY <1>2, <1>3, <1>5 DEF Dialling, Holding, StageOf
<1>8. \A b, c \in Agents : b # c /\ cs2[b] # NoConn => cs2[b] # cs2[c]
  BY <1>1, <1>2 DEF AgentsIn
<1>9. AgentsIn(pcs2, cs2, pl2)
  BY <1>6, <1>7, <1>8 DEF AgentsIn
<1> QED
  BY <1>9 DEF pcs2, cs2, pl2

\* The same, for a step of the system.
LEMMA AgentTakes ==
  ASSUME TypeOK, AgentsCoherent, NEW a \in Agents, NEW k \in Conns,
         place[k] \in {"free", "idle", "delivered"},
         cur' = [cur EXCEPT ![a] = k],
         \/ pc' = [pc EXCEPT ![a] = "inuse"] /\ place' = [place EXCEPT ![k] = "held"]
         \/ pc' = [pc EXCEPT ![a] = "release"] /\ place' = [place EXCEPT ![k] = "held"]
  PROVE  AgentsCoherent'
<1>1. AgentsIn(pc, cur, place)
  BY DEF AgentsCoherent, AgentsIn
<1>2. /\ pc \in [Agents -> PCs] /\ cur \in [Agents -> Conns \cup {NoConn}]
      /\ place \in [Conns -> Places]
  BY DEF TypeOK
<1>3. /\ "inuse" \in Dialling \cup Holding /\ "release" \in Dialling \cup Holding
      /\ StageOf("inuse") = "held" /\ StageOf("release") = "held"
  BY DEF StageOf, Dialling, Holding
<1>4. AgentsIn([pc EXCEPT ![a] = "inuse"], [cur EXCEPT ![a] = k], [place EXCEPT ![k] = StageOf("inuse")])
  BY <1>1, <1>2, <1>3, AgentTakesIn, Zenon
<1>5. AgentsIn([pc EXCEPT ![a] = "release"], [cur EXCEPT ![a] = k], [place EXCEPT ![k] = StageOf("release")])
  BY <1>1, <1>2, <1>3, AgentTakesIn, Zenon
<1>6. AgentsIn(pc', cur', place')
  BY <1>3, <1>4, <1>5
<1> QED
  BY <1>6 DEF AgentsCoherent, AgentsIn

\* An agent that holds a connection hands it on and keeps nothing.
LEMMA AgentDrops ==
  ASSUME TypeOK, AgentsCoherent, NEW a \in Agents, cur[a] \in Conns, NEW l, NEW x,
         l \notin Dialling \cup Holding \cup {"netclose"},
         cur' = [cur EXCEPT ![a] = NoConn], pc' = [pc EXCEPT ![a] = l],
         place' = [place EXCEPT ![cur[a]] = x]
  PROVE  AgentsCoherent'
<1> USE HostClientAssumption
<1>1. \A b \in Agents : b # a => cur[b] # cur[a]
  BY DEF AgentsCoherent
<1>2. \A b \in Agents : b # a => cur'[b] = cur[b] /\ pc'[b] = pc[b]
  BY DEF TypeOK
<1>3. \A b \in Agents : b # a /\ cur[b] \in Conns => place'[cur[b]] = place[cur[b]]
  BY <1>1 DEF TypeOK
<1>4. cur'[a] = NoConn /\ pc'[a] = l
  BY DEF TypeOK
<1> QED
  BY <1>1, <1>2, <1>3, <1>4 DEF AgentsCoherent, Dialling, Holding

\* A held connection becomes idle.
LEMMA PoolAppend ==
  ASSUME TypeOK, PoolCoherent, NEW k \in Conns, place[k] = "held",
         conns' = Append(conns, k), place' = [place EXCEPT ![k] = "idle"]
  PROVE  PoolCoherent'
  BY DEF PoolCoherent, TypeOK

\* A held connection is delivered to a wantConn.
LEMMA WantsDeliver ==
  ASSUME TypeOK, WantsCoherent, NEW k \in Conns, NEW w \in Wants, place[k] = "held",
         want' = [want EXCEPT ![w] = [ready |-> TRUE, conn |-> k, err |-> FALSE]],
         place' = [place EXCEPT ![k] = "delivered"], UNCHANGED mine
  PROVE  WantsCoherent'
<1> USE HostClientAssumption
<1>1. \A v \in Wants : want'[v].conn = (IF v = w THEN k ELSE want[v].conn)
  BY DEF TypeOK
<1>2. \A j \in Conns : place'[j] = (IF j = k THEN "delivered" ELSE place[j])
  BY DEF TypeOK
<1>3. \A p \in Callers : mine[p] # NoWant => mine[p] \in Wants
  BY DEF TypeOK
<1>4. \A v \in Wants : want[v].conn \in Conns \cup {NoConn}
  BY DEF TypeOK
<1> QED
  BY <1>1, <1>2, <1>3, <1>4 DEF WantsCoherent

\* acquireConn takes an idle connection.
LEMMA AcquireIdleCoherent ==
  ASSUME Coherent, NEW p \in Callers, AcquireIdle(p)
  PROVE  Coherent'
<1> USE HostClientAssumption DEF Coherent
<1> DEFINE i == IF Lifo THEN Len(conns) ELSE 1
<1>1. /\ i \in DOMAIN conns
      /\ cur' = [cur EXCEPT ![p] = conns[i]]
      /\ place' = [place EXCEPT ![conns[i]] = "held"]
  <2>1. conns # <<>> /\ conns \in Seq(Conns)
    BY DEF AcquireIdle, TypeOK
  <2>2. CASE Lifo
    BY <2>1, <2>2 DEF AcquireIdle, Moves
  <2>3. CASE ~Lifo
    BY <2>1, <2>3 DEF AcquireIdle, Moves
  <2> QED
    BY <2>2, <2>3
<1>2. pc[p] = "acquire" /\ pc' = [pc EXCEPT ![p] = "inuse"]
  BY DEF AcquireIdle, Goto
<1>3. conns[i] \in Conns /\ place[conns[i]] = "idle"
  BY <1>1 DEF TypeOK, PoolCoherent
<1>4. conns' \in Seq(Conns) /\ PoolCoherent'
  <2>1. conns \in Seq(Conns) /\ Len(conns) > 0 /\ place \in [Conns -> Places]
    BY <1>1 DEF TypeOK
  <2>2. conns' \in Seq(Conns)
    BY <2>1 DEF AcquireIdle
  <2> DEFINE at(j) == IF Lifo THEN j ELSE j + 1
  <2>3. \A j \in DOMAIN conns' : /\ j \in Nat /\ at(j) \in DOMAIN conns /\ at(j) # i
                                /\ conns'[j] = conns[at(j)]
    BY <2>1 DEF AcquireIdle
  <2>4. \A j \in DOMAIN conns' : /\ conns[at(j)] \in Conns /\ place[conns[at(j)]] = "idle"
                                /\ conns[at(j)] # conns[i]
    BY <1>1, <2>1, <2>3 DEF PoolCoherent
  <2>5. \A j \in DOMAIN conns' : place'[conns'[j]] = "idle"
    BY <1>1, <2>1, <2>3, <2>4
  <2>6. \A j, m \in DOMAIN conns' : conns'[j] = conns'[m] => at(j) = at(m)
    BY <2>3 DEF PoolCoherent
  <2>7. \A j, m \in DOMAIN conns' : at(j) = at(m) => j = m
    BY <2>3
  <2> QED
    BY <2>2, <2>5, <2>6, <2>7 DEF PoolCoherent
<1>5. UNCHANGED <<maxConns, allowed, connsCount, connsWait, cleanerRun, connsLock, want,
                  mine, sel, scratch, attempts, res>>
  BY DEF AcquireIdle
<1> HIDE DEF i
<1>6. TypeOK'
  BY <1>1, <1>2, <1>3, <1>4, <1>5 DEF TypeOK, Agents, PCs, Places
<1>7. CountExact'
  <2>1. CountedIn(place') = CountedIn(place)
    BY <1>1, <1>3 DEF CountedIn, TypeOK
  <2> QED
    BY <1>5, <2>1 DEF CountExact
<1>8. AgentsCoherent'
  BY <1>1, <1>2, <1>3, AgentTakes DEF Agents
<1>9. ScratchCoherent' /\ WantsCoherent'
  BY <1>1, <1>3, <1>5 DEF ScratchCoherent, WantsCoherent, TypeOK
<1>10. LockCoherent' /\ RolesCoherent'
  BY <1>2, <1>5 DEF LockCoherent, RolesCoherent, TypeOK, Agents, Sweepers
<1> QED
  BY <1>4, <1>6, <1>7, <1>8, <1>9, <1>10

\* queueForIdle.
LEMMA QueueForIdleCoherent ==
  ASSUME Coherent, NEW p \in Callers, QueueForIdle(p)
  PROVE  Coherent'
<1> USE HostClientAssumption DEF Coherent, QueueForIdle, Goto, Unlocked, Cleared, Fresh, Unset
<1>1. TypeOK'
  <2>1. want' \in [Wants -> [ready : BOOLEAN, conn : Conns \cup {NoConn}, err : BOOLEAN]]
    BY DEF TypeOK
  <2>2. Stale \in 0..Len(connsWait)
    BY StaleBound DEF TypeOK
  <2>3. connsWait' \in Seq(Wants)
    BY <2>2 DEF TypeOK
  <2> QED
    BY <2>1, <2>3 DEF TypeOK, Agents, PCs
<1>2. CountExact'
  <2>1. CountedIn(place') = CountedIn(place)
    BY DEF CountedIn, AgentsCoherent, WantsCoherent, PoolCoherent, LockCoherent, TypeOK, Dialling, Holding, Agents, Sweepers
  <2> QED
    BY <2>1 DEF CountExact
<1>3. AgentsCoherent'
  BY DEF AgentsCoherent, TypeOK, Dialling, Holding, Agents, Sweepers
<1>4. PoolCoherent'
  BY DEF PoolCoherent, AgentsCoherent, TypeOK, Dialling, Holding, Agents, Sweepers
<1>5. ScratchCoherent'
  BY DEF ScratchCoherent, AgentsCoherent, TypeOK, Dialling, Holding, Agents, Sweepers
<1>6. WantsCoherent'
  BY DEF WantsCoherent, AgentsCoherent, TypeOK, Dialling, Holding, Agents, Sweepers
<1>7. LockCoherent' /\ RolesCoherent'
  BY DEF LockCoherent, RolesCoherent, TypeOK, Agents, Sweepers
<1> QED
  BY <1>1, <1>2, <1>3, <1>4, <1>5, <1>6, <1>7

\* A waiter receives its answer: the error of a dial, or a connection.
LEMMA WaitReadyCoherent ==
  ASSUME Coherent, NEW p \in Callers, WaitReady(p)
  PROVE  Coherent'
<1> USE HostClientAssumption DEF Coherent
<1> DEFINE w == mine[p]
           k == want[w].conn
<1>1. pc[p] = "wait" /\ w \in Wants /\ k \in Conns \cup {NoConn}
  BY DEF WaitReady, LockCoherent, TypeOK
<1>2. UNCHANGED <<maxConns, allowed, connsCount, conns, connsWait, cleanerRun, connsLock, want,
                  sel, scratch, attempts>>
  BY DEF WaitReady
<1>3. CASE k = NoConn
  <2>1. /\ pc' = [pc EXCEPT ![p] = "cancel"] /\ res' = [res EXCEPT ![p] = "DialErr"]
        /\ UNCHANGED <<cur, mine, place>>
    BY <1>3 DEF WaitReady, Goto
  <2>2. TypeOK'
    BY <1>2, <2>1 DEF TypeOK, Agents, PCs, Results
  <2>3. LockCoherent' /\ RolesCoherent'
    BY <1>1, <1>2, <2>1 DEF LockCoherent, RolesCoherent, TypeOK, Agents, Sweepers
  <2>4. \A b \in Agents : /\ pc[b] \in Dialling <=> pc'[b] \in Dialling
                          /\ pc[b] \in Holding <=> pc'[b] \in Holding
                          /\ pc[b] = "netclose" <=> pc'[b] = "netclose"
    BY <1>1, <2>1 DEF TypeOK, Agents, Dialling, Holding
  <2> QED
    BY <1>2, <2>1, <2>2, <2>3, <2>4, LocalStep
<1>4. CASE k # NoConn
  <2>1. /\ cur' = [cur EXCEPT ![p] = k] /\ place' = [place EXCEPT ![k] = "held"]
        /\ mine' = [mine EXCEPT ![p] = NoWant] /\ pc' = [pc EXCEPT ![p] = "inuse"]
        /\ UNCHANGED res
    BY <1>4 DEF WaitReady, Goto, Moves
  <2>2. k \in Conns /\ place[k] = "delivered"
    BY <1>1, <1>4 DEF WantsCoherent
  <2> HIDE DEF k, w
  <2>3. TypeOK'
    BY <1>2, <2>1, <2>2 DEF TypeOK, Agents, PCs, Places
  <2>4. CountExact'
    <3>1. CountedIn(place') = CountedIn(place)
      BY <2>1, <2>2 DEF CountedIn, TypeOK
    <3> QED
      BY <1>2, <3>1 DEF CountExact
  <2>5. AgentsCoherent'
    BY <1>1, <2>1, <2>2, AgentTakes DEF Agents
  <2>6. PoolCoherent' /\ ScratchCoherent'
    BY <1>2, <2>1, <2>2 DEF PoolCoherent, ScratchCoherent, TypeOK
  <2>7. WantsCoherent'
    <3>1. \A q \in Callers : mine'[q] = (IF q = p THEN NoWant ELSE mine[q])
      BY <2>1 DEF TypeOK
    <3>2. \A q \in Callers : q # p /\ mine[q] # NoWant => want[mine[q]].conn # k
      BY <1>1, <1>4 DEF WantsCoherent, k, w
    <3>3. \A q \in Callers : mine[q] # NoWant => want[mine[q]].conn \in Conns \cup {NoConn}
      BY DEF TypeOK
    <3>4. \A j \in Conns : j # k => place'[j] = place[j]
      BY <2>1, <2>2 DEF TypeOK
    <3> QED
      BY <1>2, <3>1, <3>2, <3>3, <3>4 DEF WantsCoherent
  <2>8. LockCoherent' /\ RolesCoherent'
    BY <1>1, <1>2, <2>1 DEF LockCoherent, RolesCoherent, TypeOK, Agents, Sweepers
  <2> QED
    BY <2>3, <2>4, <2>5, <2>6, <2>7, <2>8
<1> QED
  BY <1>3, <1>4

\* wantConn.cancel, with or without a connection to give back.
LEMMA CancelCoherent ==
  ASSUME Coherent, NEW p \in Callers, Cancel(p)
  PROVE  Coherent'
<1> USE HostClientAssumption DEF Coherent
<1> DEFINE w == mine[p]
           k == want[w].conn
<1>1. pc[p] = "cancel" /\ w \in Wants /\ k \in Conns \cup {NoConn}
  BY DEF Cancel, LockCoherent, TypeOK
<1>2. /\ UNCHANGED <<maxConns, allowed, connsCount, conns, connsWait, cleanerRun, connsLock,
                     sel, scratch, attempts, res>>
      /\ mine' = [mine EXCEPT ![p] = NoWant]
      /\ want' = [want EXCEPT ![w] = [ready |-> TRUE, conn |-> NoConn, err |-> TRUE]]
  BY DEF Cancel
<1>3. want' \in [Wants -> [ready : BOOLEAN, conn : Conns \cup {NoConn}, err : BOOLEAN]]
  BY <1>1, <1>2 DEF TypeOK
<1>4. CASE k = NoConn
  <2>1. pc' = [pc EXCEPT ![p] = "idle"] /\ UNCHANGED <<cur, place>>
    BY <1>4 DEF Cancel, Goto
  <2> HIDE DEF k, w
  <2>2. TypeOK'
    BY <1>2, <1>3, <2>1 DEF TypeOK, Agents, PCs
  <2>3. CountExact' /\ PoolCoherent' /\ ScratchCoherent'
    BY <1>2, <2>1 DEF CountExact, PoolCoherent, ScratchCoherent
  <2>4. AgentsCoherent'
    BY <1>1, <2>1 DEF AgentsCoherent, TypeOK, Dialling, Holding, Agents
  <2>5. WantsCoherent'
    BY <1>1, <1>2, <2>1 DEF WantsCoherent, TypeOK, w
  <2>6. LockCoherent' /\ RolesCoherent'
    BY <1>1, <1>2, <2>1 DEF LockCoherent, RolesCoherent, TypeOK, Agents, Sweepers
  <2> QED
    BY <2>2, <2>3, <2>4, <2>5, <2>6
<1>5. CASE k # NoConn
  <2>1. /\ cur' = [cur EXCEPT ![p] = k] /\ place' = [place EXCEPT ![k] = "held"]
        /\ pc' = [pc EXCEPT ![p] = "release"]
    BY <1>5 DEF Cancel, Goto, Moves
  <2>2. k \in Conns /\ place[k] = "delivered"
    BY <1>1, <1>5 DEF WantsCoherent
  <2> HIDE DEF k, w
  <2>3. TypeOK'
    BY <1>2, <1>3, <2>1, <2>2 DEF TypeOK, Agents, PCs, Places
  <2>4. CountExact'
    <3>1. CountedIn(place') = CountedIn(place)
      BY <2>1, <2>2 DEF CountedIn, TypeOK
    <3> QED
      BY <1>2, <3>1 DEF CountExact
  <2>5. AgentsCoherent'
    BY <1>1, <2>1, <2>2, AgentTakes DEF Agents
  <2>6. PoolCoherent' /\ ScratchCoherent'
    BY <1>2, <2>1, <2>2 DEF PoolCoherent, ScratchCoherent, TypeOK
  <2>7. WantsCoherent'
    BY <1>1, <1>2, <1>5, <2>1, <2>2 DEF WantsCoherent, TypeOK, k, w
  <2>8. LockCoherent' /\ RolesCoherent'
    BY <1>1, <1>2, <2>1 DEF LockCoherent, RolesCoherent, TypeOK, Agents, Sweepers
  <2> QED
    BY <2>3, <2>4, <2>5, <2>6, <2>7, <2>8
<1> QED
  BY <1>4, <1>5

\* dialConnFor delivers its connection, or has to release it.
LEMMA DialerDeliverCoherent ==
  ASSUME Coherent, NEW w \in Wants, DialerDeliver(w)
  PROVE  Coherent'
<1> USE HostClientAssumption DEF Coherent
<1> DEFINE k == cur[w]
<1>1. pc[w] = "deliver" /\ k \in Conns /\ place[k] = "held" /\ w \in Agents
  BY DEF DialerDeliver, AgentsCoherent, Holding, Agents
<1>2. UNCHANGED <<maxConns, allowed, connsCount, conns, connsWait, cleanerRun, connsLock,
                  mine, sel, scratch, attempts, res>>
  BY DEF DialerDeliver
<1>3. CASE ~Deliverable(w)
  <2>1. pc' = [pc EXCEPT ![w] = "release"] /\ UNCHANGED <<want, cur, place>>
    BY <1>3 DEF DialerDeliver, Goto
  <2>2. TypeOK'
    BY <1>2, <2>1 DEF TypeOK, PCs
  <2>3. LockCoherent' /\ RolesCoherent'
    BY <1>1, <1>2, <2>1 DEF LockCoherent, RolesCoherent, TypeOK, Agents, Sweepers
  <2>4. \A b \in Agents : /\ pc[b] \in Dialling <=> pc'[b] \in Dialling
                          /\ pc[b] \in Holding <=> pc'[b] \in Holding
                          /\ pc[b] = "netclose" <=> pc'[b] = "netclose"
    BY <1>1, <2>1 DEF TypeOK, Dialling, Holding
  <2> QED
    BY <1>2, <2>1, <2>2, <2>3, <2>4, LocalStep
<1>4. CASE Deliverable(w)
  <2>1. /\ want' = [want EXCEPT ![w] = [ready |-> TRUE, conn |-> k, err |-> FALSE]]
        /\ place' = [place EXCEPT ![k] = "delivered"]
        /\ cur' = [cur EXCEPT ![w] = NoConn] /\ pc' = [pc EXCEPT ![w] = "idle"]
    BY <1>4 DEF DialerDeliver, Goto, Moves, Delivered
  <2> HIDE DEF k
  <2>2. TypeOK'
    <3>1. want' \in [Wants -> [ready : BOOLEAN, conn : Conns \cup {NoConn}, err : BOOLEAN]]
      BY <1>1, <2>1 DEF TypeOK
    <3> QED
      BY <1>1, <1>2, <2>1, <3>1 DEF TypeOK, PCs, Places
  <2>3. CountExact'
    <3>1. CountedIn(place') = CountedIn(place)
      BY <1>1, <2>1 DEF CountedIn, TypeOK
    <3> QED
      BY <1>2, <3>1 DEF CountExact
  <2>4. AgentsCoherent'
    BY <1>1, <2>1, AgentDrops DEF k, Dialling, Holding
  <2>5. PoolCoherent' /\ ScratchCoherent'
    BY <1>1, <1>2, <2>1 DEF PoolCoherent, ScratchCoherent, TypeOK
  <2>6. WantsCoherent'
    BY <1>1, <1>2, <2>1, WantsDeliver
  <2>7. LockCoherent' /\ RolesCoherent'
    BY <1>1, <1>2, <2>1 DEF LockCoherent, RolesCoherent, TypeOK, Agents, Sweepers
  <2> QED
    BY <2>2, <2>3, <2>4, <2>5, <2>6, <2>7
<1> QED
  BY <1>3, <1>4

\* releaseConn up to the choice of a waiter.
LEMMA ReleaseConnCoherent ==
  ASSUME Coherent, NEW a \in Callers \cup Wants, ReleaseConn(a)
  PROVE  Coherent'
<1> USE HostClientAssumption DEF Coherent
<1> DEFINE k == cur[a]
<1>1. pc[a] = "release" /\ k \in Conns /\ place[k] = "held" /\ a \in Agents /\ Unlocked
  BY DEF ReleaseConn, AgentsCoherent, Holding, Agents
<1>2. UNCHANGED <<maxConns, allowed, connsCount, cleanerRun, want, mine, scratch, attempts, res>>
  BY DEF ReleaseConn
<1>3. Stale \in 0..Len(connsWait)
  BY StaleBound DEF TypeOK
<1>4. CASE ~Waiting \/ NoneWaiting
  <2>1. /\ conns' = Append(conns, k) /\ place' = [place EXCEPT ![k] = "idle"]
        /\ cur' = [cur EXCEPT ![a] = NoConn]
        /\ pc' = [pc EXCEPT ![a] = AfterAttempt(a)]
        /\ connsWait' = IF Waiting THEN <<>> ELSE connsWait
        /\ UNCHANGED <<connsLock, sel>>
    BY <1>4 DEF ReleaseConn, Goto, Moves
  <2>2. AfterAttempt(a) \in {"idle", "acquire"} /\ (a \in Wants => AfterAttempt(a) = "idle")
    BY DEF AfterAttempt, Sweepers
  <2> HIDE DEF k
  <2>3. TypeOK'
    BY <1>1, <1>2, <2>1, <2>2 DEF TypeOK, PCs, Places
  <2>4. CountExact'
    <3>1. CountedIn(place') = CountedIn(place)
      BY <1>1, <2>1 DEF CountedIn, TypeOK
    <3> QED
      BY <1>2, <3>1 DEF CountExact
  <2>5. AgentsCoherent'
    BY <1>1, <2>1, <2>2, AgentDrops DEF k, Dialling, Holding
  <2>6. PoolCoherent'
    BY <1>1, <2>1, PoolAppend DEF TypeOK
  <2>7. ScratchCoherent' /\ WantsCoherent'
    BY <1>1, <1>2, <2>1 DEF ScratchCoherent, WantsCoherent, TypeOK
  <2>8. LockCoherent' /\ RolesCoherent'
    BY <1>1, <1>2, <2>1, <2>2 DEF LockCoherent, RolesCoherent, TypeOK, Agents, Sweepers
  <2> QED
    BY <2>3, <2>4, <2>5, <2>6, <2>7, <2>8
<1>5. CASE Waiting /\ ~NoneWaiting
  <2>1. /\ sel' = FirstWaiting /\ connsWait' = AfterFirstWaiting /\ connsLock' = a
        /\ pc' = [pc EXCEPT ![a] = "releasing"] /\ UNCHANGED <<conns, cur, place>>
    BY <1>5 DEF ReleaseConn, Goto
  <2>2. FirstWaiting \in Wants /\ AfterFirstWaiting \in Seq(Wants)
    BY <1>3, <1>5 DEF TypeOK, NoneWaiting, FirstWaiting, AfterFirstWaiting
  <2>3. TypeOK'
    BY <1>1, <1>2, <2>1, <2>2 DEF TypeOK, PCs
  <2>4. LockCoherent'
    BY <1>1, <1>2, <2>1, <2>2 DEF LockCoherent, TypeOK, Agents, Sweepers, Unlocked
  <2>5. RolesCoherent'
    BY <1>1, <1>2, <2>1 DEF RolesCoherent, TypeOK, Agents, Sweepers
  <2>6. \A b \in Agents : /\ pc[b] \in Dialling <=> pc'[b] \in Dialling
                          /\ pc[b] \in Holding <=> pc'[b] \in Holding
                          /\ pc[b] = "netclose" <=> pc'[b] = "netclose"
    BY <1>1, <2>1 DEF TypeOK, Dialling, Holding
  <2> QED
    BY <1>2, <2>1, <2>3, <2>4, <2>5, <2>6, LocalStep
<1> QED
  BY <1>4, <1>5 DEF ReleaseConn

\* releaseConn delivers to the waiter it chose, or finds it cancelled.
LEMMA ReleaseDeliverCoherent ==
  ASSUME Coherent, NEW a \in Callers \cup Wants, ReleaseDeliver(a)
  PROVE  Coherent'
<1> USE HostClientAssumption DEF Coherent
<1> DEFINE k == cur[a]
<1>1. pc[a] = "releasing" /\ k \in Conns /\ place[k] = "held" /\ a \in Agents
  BY DEF ReleaseDeliver, AgentsCoherent, Holding, Agents
<1>2. /\ UNCHANGED <<maxConns, allowed, connsCount, connsWait, cleanerRun, mine, scratch, attempts, res>>
      /\ cur' = [cur EXCEPT ![a] = NoConn] /\ pc' = [pc EXCEPT ![a] = AfterAttempt(a)]
      /\ sel' = NoWant /\ connsLock' = NoAgent
  BY DEF ReleaseDeliver, Goto
<1>3. connsLock = a /\ sel \in Wants
  BY <1>1 DEF LockCoherent, TypeOK
<1>4. AfterAttempt(a) \in {"idle", "acquire"} /\ (a \in Wants => AfterAttempt(a) = "idle")
  BY DEF AfterAttempt, Sweepers
<1>5. \/ /\ want' = [want EXCEPT ![sel] = [ready |-> TRUE, conn |-> k, err |-> FALSE]]
         /\ place' = [place EXCEPT ![k] = "delivered"] /\ UNCHANGED conns
      \/ /\ conns' = Append(conns, k)
         /\ place' = [place EXCEPT ![k] = "idle"] /\ UNCHANGED want
  BY DEF ReleaseDeliver, Moves, Delivered
<1> HIDE DEF k
<1>6. TypeOK'
  <2>1. want' \in [Wants -> [ready : BOOLEAN, conn : Conns \cup {NoConn}, err : BOOLEAN]]
    <3>1. CASE UNCHANGED want
      BY <3>1 DEF TypeOK
    <3>2. CASE want' = [want EXCEPT ![sel] = [ready |-> TRUE, conn |-> k, err |-> FALSE]]
      BY <1>1, <1>3, <3>2 DEF TypeOK
    <3> QED
      BY <1>5, <3>1, <3>2
  <2>2. conns' \in Seq(Conns)
    <3>1. CASE UNCHANGED conns
      BY <3>1 DEF TypeOK
    <3>2. CASE conns' = Append(conns, k)
      BY <1>1, <3>2 DEF TypeOK
    <3> QED
      BY <1>5, <3>1, <3>2
  <2>3. place' \in [Conns -> Places]
    BY <1>1, <1>5 DEF TypeOK, Places
  <2> QED
    BY <1>1, <1>2, <1>4, <2>1, <2>2, <2>3 DEF TypeOK, PCs
<1>7. CountExact'
  <2>1. CountedIn(place') = CountedIn(place)
    BY <1>1, <1>5 DEF CountedIn, TypeOK
  <2> QED
    BY <1>2, <2>1 DEF CountExact
<1>8. AgentsCoherent'
  <2>1. AfterAttempt(a) \notin Dialling \cup Holding \cup {"netclose"}
    BY <1>4 DEF Dialling, Holding
  <2>2. \E x : place' = [place EXCEPT ![k] = x]
    BY <1>5
  <2> QED
    BY <1>1, <1>2, <2>1, <2>2, AgentDrops DEF k
<1>9. PoolCoherent'
  <2>1. CASE UNCHANGED conns /\ place' = [place EXCEPT ![k] = "delivered"]
    BY <1>1, <2>1 DEF PoolCoherent, TypeOK
  <2> QED
    BY <1>1, <1>5, <2>1, PoolAppend
<1>10. ScratchCoherent'
  BY <1>1, <1>2, <1>5 DEF ScratchCoherent, TypeOK
<1>11. WantsCoherent'
  <2>1. CASE UNCHANGED want /\ place' = [place EXCEPT ![k] = "idle"]
    BY <1>1, <1>2, <2>1 DEF WantsCoherent, TypeOK
  <2> QED
    BY <1>1, <1>2, <1>3, <1>5, <2>1, WantsDeliver
<1>12. LockCoherent' /\ RolesCoherent'
  BY <1>1, <1>2, <1>3, <1>4 DEF LockCoherent, RolesCoherent, TypeOK, Agents, Sweepers
<1> QED
  BY <1>6, <1>7, <1>8, <1>9, <1>10, <1>11, <1>12

-----------------------------------------------------------------------------
(* Steps that reserve, give up or pass on a slot.                          *)

\* acquireConn reserves a slot and starts to dial.
LEMMA AcquireCreateCoherent ==
  ASSUME Coherent, NEW p \in Callers, AcquireCreate(p)
  PROVE  Coherent'
<1> USE HostClientAssumption DEF Coherent
<1>1. PICK k \in Conns : /\ place[k] = "free" /\ cur' = [cur EXCEPT ![p] = k]
                         /\ place' = [place EXCEPT ![k] = "dialing"]
  BY DEF AcquireCreate, Moves
<1>2. /\ pc[p] = "acquire" /\ connsCount' = connsCount + 1
      /\ UNCHANGED <<maxConns, allowed, conns, connsWait, connsLock, want, mine, sel, scratch, attempts, res>>
  BY DEF AcquireCreate
<1>3. PICK c \in {"collect", pc[Cleaner]} :
        /\ pc' = [pc EXCEPT ![p] = "dial", ![Cleaner] = c]
        /\ cleanerRun' \in BOOLEAN
        /\ c # pc[Cleaner] => ~cleanerRun
        /\ cleanerRun' <=> c # "idle"
  <2>1. CASE ~cleanerRun /\ p \notin CloseCallers
    BY <2>1 DEF AcquireCreate, TypeOK, RolesCoherent
  <2>2. CASE cleanerRun \/ p \in CloseCallers
    BY <2>2 DEF AcquireCreate, TypeOK, RolesCoherent
  <2> QED
    BY <2>1, <2>2
<1>4. TypeOK'
  <2>1. pc' \in [Agents -> PCs]
    BY <1>3 DEF TypeOK, Agents, Sweepers, PCs
  <2>2. /\ cur' \in [Agents -> Conns \cup {NoConn}] /\ place' \in [Conns -> Places]
        /\ connsCount' \in Nat
    BY <1>1, <1>2 DEF TypeOK, Agents, Places
  <2> QED
    BY <1>2, <1>3, <2>1, <2>2 DEF TypeOK
<1>5. CountExact'
  BY <1>1, <1>2, CountAdd DEF CountExact, TypeOK, Occupied, Places
<1>6. AgentsCoherent'
  <2> DEFINE pcs == [pc EXCEPT ![Cleaner] = c]
  <2>1. pcs \in [Agents -> PCs] /\ Cleaner \in Agents /\ p \in Agents /\ p # Cleaner
    BY DEF TypeOK, PCs, Agents, Sweepers
  <2>2. \A b \in Agents : /\ pcs[b] \in Dialling <=> pc[b] \in Dialling
                          /\ pcs[b] \in Holding <=> pc[b] \in Holding
                          /\ pcs[b] = "netclose" <=> pc[b] = "netclose"
    BY <1>3, <2>1 DEF TypeOK, RolesCoherent, Dialling, Holding
  <2>3. pc' = [pcs EXCEPT ![p] = "dial"]
    BY <1>3, <2>1 DEF TypeOK
  <2> HIDE DEF pcs
  <2>4. AgentsIn(pcs, cur, place)
    BY <2>2 DEF AgentsIn, AgentsCoherent
  <2>5. place[k] \in {"free", "idle", "delivered"} /\ "dial" \in Dialling \cup Holding
    BY <1>1 DEF Dialling
  <2>6. cur \in [Agents -> Conns \cup {NoConn}] /\ place \in [Conns -> Places]
    BY DEF TypeOK
  <2>7. AgentsIn([pcs EXCEPT ![p] = "dial"], [cur EXCEPT ![p] = k], [place EXCEPT ![k] = StageOf("dial")])
    BY <2>1, <2>4, <2>5, <2>6, AgentTakesIn, Zenon
  <2>8. AgentsIn(pc', cur', place')
    BY <1>1, <2>3, <2>7 DEF StageOf, Dialling
  <2> QED
    BY <2>8 DEF AgentsCoherent, AgentsIn
<1>7. PoolCoherent' /\ ScratchCoherent' /\ WantsCoherent'
  BY <1>1, <1>2 DEF PoolCoherent, ScratchCoherent, WantsCoherent, TypeOK
<1>8. LockCoherent' /\ RolesCoherent'
  <2>1. \A b \in Agents : pc'[b] = (IF b = p THEN "dial" ELSE IF b = Cleaner THEN c ELSE pc[b])
    BY <1>3 DEF TypeOK, Agents, Sweepers
  <2>2. c # pc[Cleaner] => pc[Cleaner] = "idle" /\ scratch[Cleaner] = <<>>
    BY <1>3 DEF LockCoherent, RolesCoherent, Sweepers
  <2>3. /\ pc'[p] = "dial" /\ pc'[Cleaner] = c /\ c \in {"idle", "collect", "sweep", "netclose"}
        /\ \A b \in Wants \cup Closers : pc'[b] = pc[b]
        /\ \A b \in Callers : b # p => pc'[b] = pc[b]
    BY <1>3, <2>1 DEF RolesCoherent, Agents, Sweepers
  <2>4. \A b \in Agents : connsLock' = b <=> pc'[b] = "releasing"
    BY <1>2, <2>1, <2>3 DEF LockCoherent, RolesCoherent, Agents, Sweepers
  <2>5. \A b \in Sweepers : scratch'[b] # <<>> => pc'[b] \in {"sweep", "netclose"}
    BY <1>2, <1>3, <2>2, <2>3 DEF LockCoherent, Sweepers
  <2>6. LockCoherent'
    BY <1>2, <2>3, <2>4, <2>5 DEF LockCoherent
  <2>7. RolesCoherent'
    BY <1>3, <2>3 DEF RolesCoherent, Sweepers
  <2> QED
    BY <2>6, <2>7
<1> QED
  BY <1>4, <1>5, <1>6, <1>7, <1>8

\* decConnsCount: the slot is given up or passed on to the first waiter.  pcs,
\* cs and pl are what the caller of decConnsCount makes of pc, cur and place.
LEMMA GiveUpSlot ==
  ASSUME Coherent, Unlocked,
         NEW pcs \in [Agents -> PCs], NEW cs \in [Agents -> Conns \cup {NoConn}],
         NEW pl \in [Conns -> Places], AgentsIn(pcs, cs, pl),
         Cardinality(CountedIn(pl)) = connsCount - 1,
         \A j \in Conns : place[j] = "free" => pl[j] = "free",
         DecConnsCount(pcs, cs, pl)
  PROVE  /\ connsCount' \in Nat /\ connsWait' \in Seq(Wants)
         /\ pc' \in [Agents -> PCs] /\ cur' \in [Agents -> Conns \cup {NoConn}]
         /\ place' \in [Conns -> Places]
         /\ CountExact' /\ AgentsCoherent'
         /\ \A j \in Conns : place[j] # "free" => place'[j] = pl[j]
         /\ \A b \in Agents : pc'[b] = pcs[b] \/ (b \in Wants /\ pc'[b] = "dial")
<1> USE HostClientAssumption DEF Coherent
<1>1. CASE /\ connsCount' = connsCount - 1
           /\ connsWait' = IF Waiting THEN <<>> ELSE connsWait
           /\ pc' = pcs /\ cur' = cs /\ place' = pl
  <2>1. CountExact' /\ connsCount' \in Nat
    BY <1>1, CountNat DEF CountExact
  <2>2. AgentsCoherent'
    BY <1>1 DEF AgentsCoherent, AgentsIn
  <2> QED
    BY <1>1, <2>1, <2>2 DEF TypeOK
<1>2. CASE /\ Waiting /\ ~NoneWaiting
           /\ \E k \in Conns :
                /\ place[k] = "free"
                /\ pc' = [pcs EXCEPT ![FirstWaiting] = "dial"]
                /\ cur' = [cs EXCEPT ![FirstWaiting] = k]
                /\ place' = [pl EXCEPT ![k] = "dialing"]
           /\ connsWait' = AfterFirstWaiting
           /\ UNCHANGED connsCount
  <2>1. PICK k \in Conns :
          /\ place[k] = "free"
          /\ pc' = [pcs EXCEPT ![FirstWaiting] = "dial"]
          /\ cur' = [cs EXCEPT ![FirstWaiting] = k]
          /\ place' = [pl EXCEPT ![k] = "dialing"]
    BY <1>2
  <2>2. Stale \in 0..Len(connsWait)
    BY StaleBound DEF TypeOK
  <2>3. FirstWaiting \in Wants /\ AfterFirstWaiting \in Seq(Wants)
    BY <1>2, <2>2 DEF TypeOK, NoneWaiting, FirstWaiting, AfterFirstWaiting
  <2>4. FirstWaiting \in Agents
    BY <2>3 DEF Agents
  <2>5. CountExact' /\ connsCount' \in Nat
    <3>1. Cardinality(CountedIn(place')) = connsCount - 1 + 1
      BY <2>1, CountAdd, ZenonT(40) DEF Occupied, Places
    <3> QED
      BY <1>2, <3>1 DEF CountExact, TypeOK
  <2>6. AgentsIn(pc', cur', place')
    <3>1. pl[k] \in {"free", "idle", "delivered"} /\ "dial" \in Dialling \cup Holding
      BY <2>1 DEF Dialling
    <3>2. AgentsIn([pcs EXCEPT ![FirstWaiting] = "dial"], [cs EXCEPT ![FirstWaiting] = k],
                   [pl EXCEPT ![k] = StageOf("dial")])
      BY <2>4, <3>1, AgentTakesIn, Zenon
    <3>3. StageOf("dial") = "dialing"
      BY DEF StageOf, Dialling
    <3> QED
      BY <2>1, <3>2, <3>3
  <2>7. AgentsCoherent'
    BY <2>6 DEF AgentsCoherent, AgentsIn
  <2>8. /\ pc' \in [Agents -> PCs] /\ cur' \in [Agents -> Conns \cup {NoConn}]
        /\ place' \in [Conns -> Places]
    BY <2>1, <2>4 DEF PCs, Places
  <2>9. \A j \in Conns : place[j] # "free" => place'[j] = pl[j]
    BY <2>1
  <2>10. \A b \in Agents : pc'[b] = pcs[b] \/ (b \in Wants /\ pc'[b] = "dial")
    BY <2>1, <2>3
  <2> QED
    BY <1>2, <2>3, <2>5, <2>7, <2>8, <2>9, <2>10
<1> QED
  BY <1>1, <1>2 DEF DecConnsCount

\* closeConn, up to the Close of the connection, by a caller.
LEMMA CloseDecCoherent ==
  ASSUME Coherent, NEW p \in Callers, CloseDec(p)
  PROVE  Coherent'
<1> USE HostClientAssumption DEF Coherent
<1> DEFINE k == cur[p]
           pcs == [pc EXCEPT ![p] = "netclose"]
           pl == [place EXCEPT ![k] = "closing"]
<1>1. pc[p] = "close" /\ p \in Agents /\ k \in Conns /\ place[k] = "held"
  BY DEF CloseDec, AgentsCoherent, Holding, Agents
<1>2. UNCHANGED <<maxConns, allowed, conns, cleanerRun, connsLock, want, mine, sel, scratch, attempts, res>>
  BY DEF CloseDec
<1>3. DecConnsCount(pcs, cur, pl) /\ Unlocked
  BY DEF CloseDec
<1>4. pcs \in [Agents -> PCs] /\ pl \in [Conns -> Places] /\ cur \in [Agents -> Conns \cup {NoConn}]
  BY <1>1 DEF TypeOK, PCs, Places
<1>5. Cardinality(CountedIn(pl)) = connsCount - 1
  BY <1>1, CountRemove DEF CountExact, TypeOK, Occupied, Places
<1>6. \A j \in Conns : pl[j] = (IF j = k THEN "closing" ELSE place[j])
  BY DEF TypeOK
<1>7. \A b \in Agents : pcs[b] = (IF b = p THEN "netclose" ELSE pc[b])
  BY DEF TypeOK
<1>8. AgentsIn(pcs, cur, pl)
  <2> HIDE DEF pcs, pl
  <2>1. \A b \in Agents : b # p => cur[b] # k
    BY <1>1 DEF AgentsCoherent
  <2> QED
    BY <1>1, <1>6, <1>7, <2>1 DEF AgentsCoherent, AgentsIn, Dialling, Holding
<1> HIDE DEF pcs, pl, k
<1>9. /\ connsCount' \in Nat /\ connsWait' \in Seq(Wants)
      /\ pc' \in [Agents -> PCs] /\ cur' \in [Agents -> Conns \cup {NoConn}]
      /\ place' \in [Conns -> Places]
      /\ CountExact' /\ AgentsCoherent'
      /\ \A j \in Conns : place[j] # "free" => place'[j] = pl[j]
      /\ \A b \in Agents : pc'[b] = pcs[b] \/ (b \in Wants /\ pc'[b] = "dial")
  BY <1>1, <1>3, <1>4, <1>5, <1>6, <1>8, GiveUpSlot
<1>10. TypeOK'
  BY <1>2, <1>9 DEF TypeOK
<1>11. \A j \in Conns : place[j] \in {"idle", "scratch", "delivered"} => place'[j] = place[j]
  BY <1>1, <1>6, <1>9
<1>12. PoolCoherent' /\ ScratchCoherent' /\ WantsCoherent'
  BY <1>2, <1>11 DEF PoolCoherent, ScratchCoherent, WantsCoherent, TypeOK
<1>13. LockCoherent' /\ RolesCoherent'
  BY <1>1, <1>2, <1>3, <1>7, <1>9 DEF LockCoherent, RolesCoherent, Unlocked, Agents, Sweepers
<1> QED
  BY <1>9, <1>10, <1>12, <1>13

\* The slot of a failed dial is given up.
LEMMA DecAfterDialFailCoherent ==
  ASSUME Coherent, NEW a \in Callers \cup Wants, DecAfterDialFail(a)
  PROVE  Coherent'
<1> USE HostClientAssumption DEF Coherent
<1> DEFINE k == cur[a]
           pcs == [pc EXCEPT ![a] = "idle"]
           cs == [cur EXCEPT ![a] = NoConn]
           pl == [place EXCEPT ![k] = "free"]
<1>1. pc[a] = "dialfailed" /\ a \in Agents /\ k \in Conns /\ place[k] = "dialing"
  BY DEF DecAfterDialFail, AgentsCoherent, Dialling, Agents
<1>2. /\ UNCHANGED <<maxConns, allowed, conns, cleanerRun, connsLock, want, mine, sel, scratch, attempts>>
      /\ res' \in [Callers -> Results]
  BY DEF DecAfterDialFail, TypeOK, Results
<1>3. DecConnsCount(pcs, cs, pl) /\ Unlocked
  BY DEF DecAfterDialFail
<1>4. pcs \in [Agents -> PCs] /\ pl \in [Conns -> Places] /\ cs \in [Agents -> Conns \cup {NoConn}]
  BY <1>1 DEF TypeOK, PCs, Places
<1>5. Cardinality(CountedIn(pl)) = connsCount - 1
  BY <1>1, CountRemove DEF CountExact, TypeOK, Occupied, Places
<1>6. \A j \in Conns : pl[j] = (IF j = k THEN "free" ELSE place[j])
  BY DEF TypeOK
<1>7. \A b \in Agents : /\ pcs[b] = (IF b = a THEN "idle" ELSE pc[b])
                        /\ cs[b] = (IF b = a THEN NoConn ELSE cur[b])
  BY DEF TypeOK
<1>8. AgentsIn(pcs, cs, pl)
  <2> HIDE DEF pcs, cs, pl
  <2>1. \A b \in Agents : b # a => cur[b] # k
    BY <1>1 DEF AgentsCoherent
  <2> QED
    BY <1>1, <1>6, <1>7, <2>1 DEF AgentsCoherent, AgentsIn, Dialling, Holding
<1> HIDE DEF pcs, cs, pl, k
<1>9. /\ connsCount' \in Nat /\ connsWait' \in Seq(Wants)
      /\ pc' \in [Agents -> PCs] /\ cur' \in [Agents -> Conns \cup {NoConn}]
      /\ place' \in [Conns -> Places]
      /\ CountExact' /\ AgentsCoherent'
      /\ \A j \in Conns : place[j] # "free" => place'[j] = pl[j]
      /\ \A b \in Agents : pc'[b] = pcs[b] \/ (b \in Wants /\ pc'[b] = "dial")
  BY <1>1, <1>3, <1>4, <1>5, <1>6, <1>8, GiveUpSlot
<1>10. TypeOK'
  BY <1>2, <1>9 DEF TypeOK
<1>11. \A j \in Conns : place[j] \in {"idle", "scratch", "delivered"} => place'[j] = place[j]
  BY <1>1, <1>6, <1>9
<1>12. PoolCoherent' /\ ScratchCoherent' /\ WantsCoherent'
  BY <1>2, <1>11 DEF PoolCoherent, ScratchCoherent, WantsCoherent, TypeOK
<1>13. LockCoherent' /\ RolesCoherent'
  BY <1>1, <1>2, <1>3, <1>7, <1>9 DEF LockCoherent, RolesCoherent, Unlocked, Agents, Sweepers
<1> QED
  BY <1>9, <1>10, <1>12, <1>13

\* closeConn, up to the Close of the connection, by a sweeper.
LEMMA ScratchDecCoherent ==
  ASSUME Coherent, NEW a \in Sweepers, ScratchDec(a)
  PROVE  Coherent'
<1> USE HostClientAssumption DEF Coherent
<1> DEFINE k == Head(scratch[a])
           pcs == [pc EXCEPT ![a] = "netclose"]
           cs == [cur EXCEPT ![a] = k]
           pl == [place EXCEPT ![k] = "closing"]
<1>1. /\ pc[a] = "sweep" /\ a \in Agents /\ scratch[a] \in Seq(Conns) /\ scratch[a] # <<>>
      /\ scratch' = [scratch EXCEPT ![a] = Tail(@)]
  BY DEF ScratchDec, TypeOK, Agents, Sweepers
<1>2. k \in Conns /\ 1 \in DOMAIN scratch[a] /\ k = scratch[a][1] /\ place[k] = "scratch"
  <2>1. k \in Conns /\ 1 \in DOMAIN scratch[a] /\ k = scratch[a][1]
    BY <1>1
  <2> QED
    BY <2>1 DEF ScratchCoherent
<1>3. UNCHANGED <<maxConns, allowed, conns, cleanerRun, connsLock, want, mine, sel, attempts, res>>
  BY DEF ScratchDec
<1>4. DecConnsCount(pcs, cs, pl) /\ Unlocked
  BY DEF ScratchDec
<1>5. pcs \in [Agents -> PCs] /\ pl \in [Conns -> Places] /\ cs \in [Agents -> Conns \cup {NoConn}]
  BY <1>1, <1>2 DEF TypeOK, PCs, Places
<1>6. Cardinality(CountedIn(pl)) = connsCount - 1
  BY <1>2, CountRemove DEF CountExact, TypeOK, Occupied, Places
<1>7. \A j \in Conns : pl[j] = (IF j = k THEN "closing" ELSE place[j])
  BY DEF TypeOK
<1>8. \A b \in Agents : /\ pcs[b] = (IF b = a THEN "netclose" ELSE pc[b])
                        /\ cs[b] = (IF b = a THEN k ELSE cur[b])
  BY DEF TypeOK
<1> HIDE DEF pcs, cs, pl, k
<1>9. AgentsIn(pcs, cs, pl)
  <2>1. \A b \in Agents : cur[b] # k
    <3> SUFFICES ASSUME NEW b \in Agents, cur[b] = k PROVE FALSE
      OBVIOUS
    <3>1. pc[b] \in Dialling \cup Holding \cup {"netclose"}
      BY <1>2 DEF AgentsCoherent
    <3>2. place[cur[b]] \in {"dialing", "held", "closing"}
      BY <3>1 DEF AgentsCoherent
    <3> QED
      BY <1>2, <3>2
  <2>2. ASSUME NEW b \in Agents
        PROVE  /\ pcs[b] \in Dialling => cs[b] \in Conns /\ pl[cs[b]] = "dialing"
               /\ pcs[b] \in Holding => cs[b] \in Conns /\ pl[cs[b]] = "held"
               /\ pcs[b] = "netclose" => cs[b] \in Conns /\ pl[cs[b]] = "closing"
               /\ pcs[b] \notin Dialling \cup Holding \cup {"netclose"} => cs[b] = NoConn
    BY <1>2, <1>7, <1>8, <2>1 DEF AgentsCoherent, Dialling, Holding
  <2>3. \A b, c \in Agents : b # c /\ cs[b] # NoConn => cs[b] # cs[c]
    BY <1>8, <2>1 DEF AgentsCoherent
  <2> QED
    BY <2>2, <2>3 DEF AgentsIn
<1>10. /\ connsCount' \in Nat /\ connsWait' \in Seq(Wants)
       /\ pc' \in [Agents -> PCs] /\ cur' \in [Agents -> Conns \cup {NoConn}]
       /\ place' \in [Conns -> Places]
       /\ CountExact' /\ AgentsCoherent'
       /\ \A j \in Conns : place[j] # "free" => place'[j] = pl[j]
       /\ \A b \in Agents : pc'[b] = pcs[b] \/ (b \in Wants /\ pc'[b] = "dial")
  BY <1>2, <1>4, <1>5, <1>6, <1>7, <1>9, GiveUpSlot
<1>11. TypeOK'
  <2>1. scratch' \in [Sweepers -> Seq(Conns)]
    BY <1>1 DEF TypeOK
  <2> QED
    BY <1>3, <1>10, <2>1 DEF TypeOK
<1>12. \A j \in Conns : place[j] \in {"idle", "delivered"} => place'[j] = place[j]
  BY <1>2, <1>7, <1>10
<1>13. \A j \in Conns : place[j] = "scratch" /\ j # k => place'[j] = "scratch"
  BY <1>2, <1>7, <1>10
<1>14. PoolCoherent' /\ WantsCoherent'
  BY <1>3, <1>12 DEF PoolCoherent, WantsCoherent, TypeOK
<1>15. ScratchCoherent'
  <2>1. \A i \in DOMAIN scratch'[a] : i + 1 \in DOMAIN scratch[a] /\ scratch'[a][i] = scratch[a][i + 1]
    BY <1>1 DEF TypeOK
  <2>2. \A b \in Sweepers : b # a => scratch'[b] = scratch[b]
    BY <1>1 DEF TypeOK
  <2>3. \A b \in Sweepers : \A i \in DOMAIN scratch'[b] : i \in Nat \ {0}
    BY <1>11 DEF TypeOK
  <2> DEFINE at(b, i) == IF b = a THEN i + 1 ELSE i
  <2>4. \A b \in Sweepers : \A i \in DOMAIN scratch'[b] :
          at(b, i) \in DOMAIN scratch[b] /\ scratch'[b][i] = scratch[b][at(b, i)]
    BY <2>1, <2>2
  <2>5. \A b \in Sweepers : \A i \in DOMAIN scratch'[b] : scratch'[b][i] # k
    BY <1>2, <2>1, <2>2, <2>3 DEF ScratchCoherent
  <2>6. \A b \in Sweepers : \A i \in DOMAIN scratch'[b] : place'[scratch'[b][i]] = "scratch"
    <3> SUFFICES ASSUME NEW b \in Sweepers, NEW i \in DOMAIN scratch'[b]
                 PROVE  place'[scratch'[b][i]] = "scratch"
      OBVIOUS
    <3>1. scratch'[b][i] \in Conns
      BY <1>11 DEF TypeOK
    <3>2. place[scratch'[b][i]] = "scratch"
      BY <2>4 DEF ScratchCoherent
    <3> QED
      BY <1>13, <2>5, <3>1, <3>2
  <2>7. \A b, c \in Sweepers : \A i \in DOMAIN scratch'[b] : \A j \in DOMAIN scratch'[c] :
          scratch'[b][i] = scratch'[c][j] => b = c /\ at(b, i) = at(c, j)
    BY <2>4 DEF ScratchCoherent
  <2>8. \A b, c \in Sweepers : \A i \in DOMAIN scratch'[b] : \A j \in DOMAIN scratch'[c] :
          scratch'[b][i] = scratch'[c][j] => b = c /\ i = j
    BY <2>3, <2>7
  <2> QED
    BY <2>6, <2>8 DEF ScratchCoherent
<1>16. LockCoherent' /\ RolesCoherent'
  <2>1. \A b \in Sweepers : pc'[b] = pcs[b]
    BY <1>10 DEF Agents, Sweepers
  <2>2. \A b \in Sweepers : b # a => scratch'[b] = scratch[b]
    BY <1>1 DEF TypeOK
  <2>3. LockCoherent'
    BY <1>1, <1>3, <1>4, <1>8, <1>10, <2>1, <2>2, SMTT(20) DEF LockCoherent, Unlocked, Agents, Sweepers
  <2>4. RolesCoherent'
    BY <1>1, <1>3, <1>8, <1>10, <2>1 DEF RolesCoherent, Agents, Sweepers
  <2> QED
    BY <2>3, <2>4
<1> QED
  BY <1>10, <1>11, <1>14, <1>15, <1>16

\* A sweeper takes idle connections out of the pool.
LEMMA TakeIdleCoherent ==
  ASSUME Coherent, NEW a \in Sweepers, NEW n \in 0..Len(conns), TakeIdle(a, n),
         pc[a] = "collect" \/ (a \in Closers /\ pc[a] = "idle")
  PROVE  Coherent'
<1> USE HostClientAssumption DEF Coherent
<1>1. /\ scratch' = [scratch EXCEPT ![a] = SubSeq(conns, 1, n)]
      /\ conns' = SubSeq(conns, n + 1, Len(conns))
      /\ place' = [k \in Conns |-> IF \E i \in 1..n : conns[i] = k THEN "scratch" ELSE place[k]]
      /\ pc' = [pc EXCEPT ![a] = "sweep"] /\ Unlocked /\ a \in Agents
  BY DEF TakeIdle, Goto, Agents, Sweepers
<1>2. UNCHANGED <<maxConns, allowed, connsCount, connsWait, cleanerRun, connsLock, want,
                  cur, mine, sel, attempts, res>>
  BY DEF TakeIdle
<1>3. /\ conns \in Seq(Conns) /\ n \in Nat /\ n <= Len(conns)
      /\ scratch'[a] = SubSeq(conns, 1, n)
      /\ \A b \in Sweepers : b # a => scratch'[b] = scratch[b]
  BY <1>1 DEF TypeOK
<1>4. /\ scratch'[a] \in Seq(Conns) /\ Len(scratch'[a]) = n
      /\ \A i \in 1..n : scratch'[a][i] = conns[i]
  BY <1>3
<1>5. /\ conns' \in Seq(Conns) /\ Len(conns') = Len(conns) - n
      /\ \A i \in 1..(Len(conns) - n) : conns'[i] = conns[i + n]
  BY <1>1, <1>3
<1>6. \A k \in Conns : /\ place[k] # "idle" => place'[k] = place[k]
                       /\ place'[k] \in {place[k], "scratch"}
  BY <1>1, <1>3 DEF PoolCoherent
<1>7. TypeOK'
  <2>1. scratch' \in [Sweepers -> Seq(Conns)]
    BY <1>1, <1>3, <1>4 DEF TypeOK
  <2>2. place' \in [Conns -> Places]
    BY <1>1 DEF TypeOK, Places
  <2>3. pc' \in [Agents -> PCs]
    BY <1>1 DEF TypeOK, PCs
  <2> QED
    BY <1>2, <1>5, <2>1, <2>2, <2>3 DEF TypeOK
<1>8. CountExact'
  <2>1. \A k \in Conns : place[k] \in {"free", "closing"} <=> place'[k] \in {"free", "closing"}
    <3> SUFFICES ASSUME NEW k \in Conns
                 PROVE  place[k] \in {"free", "closing"} <=> place'[k] \in {"free", "closing"}
      OBVIOUS
    <3>1. CASE place[k] = "idle"
      BY <1>6, <3>1
    <3>2. CASE place[k] # "idle"
      BY <1>6, <3>2
    <3> QED
      BY <3>1, <3>2
  <2>2. CountedIn(place') = CountedIn(place)
    BY <2>1 DEF CountedIn
  <2> QED
    BY <1>2, <2>2 DEF CountExact
<1>9. AgentsCoherent'
  <2>1. \A b \in Agents : pc'[b] = (IF b = a THEN "sweep" ELSE pc[b])
    BY <1>1 DEF TypeOK
  <2>2. \A b \in Agents : cur[b] \in Conns => place'[cur[b]] = place[cur[b]]
    <3> SUFFICES ASSUME NEW b \in Agents, cur[b] \in Conns PROVE place[cur[b]] # "idle"
      BY <1>6
    <3>1. pc[b] \in Dialling \cup Holding \cup {"netclose"}
      BY DEF AgentsCoherent
    <3> QED
      BY <3>1 DEF AgentsCoherent
  <2> QED
    BY <1>2, <2>1, <2>2 DEF AgentsCoherent, Dialling, Holding
<1>10. PoolCoherent'
  <2>1. \A i \in DOMAIN conns' : i \in 1..(Len(conns) - n) /\ i + n \in DOMAIN conns
                                 /\ conns'[i] = conns[i + n]
    BY <1>3, <1>5
  <2>2. \A i \in DOMAIN conns' : \A j \in 1..n : conns[j] # conns'[i]
    BY <1>3, <2>1 DEF PoolCoherent
  <2>3. \A i \in DOMAIN conns' : conns'[i] \in Conns /\ place'[conns'[i]] = place[conns'[i]]
    BY <1>1, <1>5, <2>2, SMTT(30)
  <2>4. \A i \in DOMAIN conns' : place'[conns'[i]] = "idle"
    BY <2>1, <2>3 DEF PoolCoherent
  <2>5. \A i, j \in DOMAIN conns' : conns'[i] = conns'[j] => i = j
    BY <1>3, <2>1 DEF PoolCoherent
  <2> QED
    BY <2>4, <2>5 DEF PoolCoherent
<1>11. ScratchCoherent'
  <2>1. \A i \in DOMAIN scratch'[a] : /\ i \in 1..n /\ i \in DOMAIN conns
                                      /\ scratch'[a][i] = conns[i] /\ conns[i] \in Conns
    BY <1>3, <1>4
  <2>2. \A i \in DOMAIN scratch'[a] : place'[scratch'[a][i]] = "scratch" /\ place[scratch'[a][i]] = "idle"
    BY <1>1, <2>1 DEF PoolCoherent
  <2>3. \A b \in Sweepers : b # a => \A i \in DOMAIN scratch'[b] :
          scratch'[b][i] \in Conns /\ place[scratch'[b][i]] = "scratch" /\ place'[scratch'[b][i]] = "scratch"
    BY <1>3, <1>6 DEF ScratchCoherent, TypeOK
  <2>4. \A i, j \in DOMAIN scratch'[a] : scratch'[a][i] = scratch'[a][j] => i = j
    BY <2>1 DEF PoolCoherent
  <2>5. \A b, c \in Sweepers : b # a /\ c # a =>
          \A i \in DOMAIN scratch'[b] : \A j \in DOMAIN scratch'[c] :
            scratch'[b][i] = scratch'[c][j] => b = c /\ i = j
    BY <1>3 DEF ScratchCoherent
  <2>6. \A b, c \in Sweepers : \A i \in DOMAIN scratch'[b] : \A j \in DOMAIN scratch'[c] :
          scratch'[b][i] = scratch'[c][j] => b = c /\ i = j
    BY <2>2, <2>3, <2>4, <2>5
  <2> QED
    BY <2>2, <2>3, <2>6 DEF ScratchCoherent
<1>12. WantsCoherent'
  BY <1>2, <1>6 DEF WantsCoherent, TypeOK
<1>13. LockCoherent' /\ RolesCoherent'
  BY <1>1, <1>2, <1>3 DEF LockCoherent, RolesCoherent, TypeOK, Agents, Sweepers
<1> QED
  BY <1>7, <1>8, <1>9, <1>10, <1>11, <1>12, <1>13

\* SetMaxConns.
LEMMA SetMaxConnsCoherent ==
  ASSUME Coherent, NEW m \in MaxConnsValues, SetMaxConns(m)
  PROVE  Coherent'
<1> USE DEF SetMaxConns
<1>1. TypeOK'
  <2>1. allowed' \in Nat
    BY HostClientAssumption DEF Coherent, TypeOK, Limit
  <2> QED
    BY <2>1 DEF Coherent, TypeOK
<1>2. LockCoherent' /\ RolesCoherent'
  BY DEF Coherent, LockCoherent, RolesCoherent
<1>3. UNCHANGED <<connsCount, conns, want, cur, mine, scratch, place, pc>>
  OBVIOUS
<1> QED
  BY <1>1, <1>2, <1>3, LocalStep

-----------------------------------------------------------------------------
(* The theorems.                                                           *)

\* Every step keeps Coherent.
LEMMA NextCoherent == Coherent /\ [Next]_vars => Coherent'
<1> SUFFICES ASSUME Coherent, [Next]_vars PROVE Coherent'
  OBVIOUS
<1>1. ASSUME NEW p \in Callers, CallerNext(p) PROVE Coherent'
  BY <1>1, DoCoherent, DoTimeoutCoherent, AcquireIdleCoherent, AcquireCreateCoherent,
     AcquireFailCoherent, AcquireMustWaitCoherent, QueueForIdleCoherent, WaitReadyCoherent,
     WaitTimeoutCoherent, CancelCoherent, RoundTripKeepCoherent, RoundTripCloseCoherent,
     RoundTripErrorCoherent, CloseDecCoherent
     DEF CallerNext
<1>2. ASSUME NEW w \in Wants, DialerNext(w) PROVE Coherent'
  BY <1>2, DialerDeliverCoherent, DialerDeliverErrCoherent DEF DialerNext
<1>3. ASSUME NEW a \in Callers \cup Wants, DialNext(a) \/ ReleaseNext(a) PROVE Coherent'
  BY <1>3, DialOkCoherent, DialFailCoherent, DecAfterDialFailCoherent, ReleaseConnCoherent,
     ReleaseDeliverCoherent DEF DialNext, ReleaseNext
<1>4. CASE CleanerNext
  BY <1>4, TakeIdleCoherent, CleanerCheckCoherent DEF CleanerNext, Collect, Sweepers
<1>5. ASSUME NEW a \in Closers, CloseIdleConnections(a) \/ CloserDone(a) PROVE Coherent'
  <2>1. Len(conns) \in 0..Len(conns) /\ a \in Sweepers
    BY DEF Coherent, TypeOK, Sweepers
  <2> QED
    BY <1>5, <2>1, TakeIdleCoherent, CloserDoneCoherent DEF CloseIdleConnections
<1>6. ASSUME NEW a \in Sweepers, ScratchDec(a) PROVE Coherent'
  BY <1>6, ScratchDecCoherent
<1>7. ASSUME NEW a \in Callers \cup Sweepers, NetClose(a) PROVE Coherent'
  BY <1>7, NetCloseCoherent
<1>8. ASSUME NEW m \in MaxConnsValues, SetMaxConns(m) PROVE Coherent'
  BY <1>8, SetMaxConnsCoherent
<1>9. CASE UNCHANGED vars
  <2> USE <1>9 DEF vars, Coherent
  <2>1. TypeOK' /\ CountExact'
    BY DEF TypeOK, CountExact
  <2>2. AgentsCoherent' /\ PoolCoherent' /\ ScratchCoherent' /\ WantsCoherent'
    BY DEF AgentsCoherent, PoolCoherent, ScratchCoherent, WantsCoherent
  <2>3. LockCoherent' /\ RolesCoherent'
    BY DEF LockCoherent, RolesCoherent
  <2> QED
    BY <2>1, <2>2, <2>3
<1> QED
  BY <1>1, <1>2, <1>3, <1>4, <1>5, <1>6, <1>7, <1>8, <1>9 DEF Next

\* Every reachable state of the client is coherent: each connection is in the
\* stage of its life that the goroutine, list or wantConn holding it implies.
THEOREM ClientCoherent == Spec => []Coherent
  BY InitCoherent, NextCoherent, PTL DEF Spec

\* The types of the model's variables are kept by every step.
THEOREM ClientTypeOK == Spec => []TypeOK
<1>1. Coherent => TypeOK
  BY DEF Coherent
<1> QED
  BY <1>1, ClientCoherent, PTL

\* HostClient.connsCount counts exactly the connections that occupy a slot,
\* whatever the number of goroutines and in every interleaving.
THEOREM ClientCountExact == Spec => []CountExact
<1>1. Coherent => CountExact
  BY DEF Coherent
<1> QED
  BY <1>1, ClientCoherent, PTL

\* In a coherent state no two places refer to one connection.
LEMMA CoherentExclusive == Coherent => ExclusiveUse
<1> SUFFICES ASSUME Coherent, NEW k \in Conns
             PROVE  /\ \A r, s \in Refs(k) : r = s
                    /\ place[k] = "free" => Refs(k) = {}
  BY DEF ExclusiveUse
<1> USE HostClientAssumption DEF Coherent
<1> DEFINE InCur(r) == \E a \in Agents : cur[a] = k /\ r = <<"cur", a, 0>>
           InPool(r) == \E i \in DOMAIN conns : conns[i] = k /\ r = <<"idle", Cleaner, i>>
           InWant(r) == \E w \in Wants : want[w].conn = k /\ Owned(w) /\ r = <<"want", w, 0>>
           InScratch(r) == \E a \in Sweepers : \E i \in DOMAIN scratch[a] :
                             scratch[a][i] = k /\ r = <<"scratch", a, i>>
<1>1. \A r \in Refs(k) : InCur(r) \/ InPool(r) \/ InWant(r) \/ InScratch(r)
  BY DEF Refs
<1>2. (\E r : InCur(r)) => place[k] \in {"dialing", "held", "closing"}
  <2> SUFFICES ASSUME NEW a \in Agents, cur[a] = k
               PROVE  place[k] \in {"dialing", "held", "closing"}
    OBVIOUS
  <2>1. pc[a] \in Dialling \cup Holding \cup {"netclose"}
    BY DEF AgentsCoherent
  <2> QED
    BY <2>1 DEF AgentsCoherent
<1>3. (\E r : InPool(r)) => place[k] = "idle"
  BY DEF PoolCoherent
<1>4. (\E r : InWant(r)) => place[k] = "delivered"
  <2> SUFFICES ASSUME NEW w \in Wants, want[w].conn = k, Owned(w)
               PROVE  place[k] = "delivered"
    OBVIOUS
  <2>1. PICK p \in Callers : mine[p] = w
    BY DEF Owned
  <2> QED
    BY <2>1 DEF WantsCoherent
<1>5. (\E r : InScratch(r)) => place[k] = "scratch"
  BY DEF ScratchCoherent
<1>6. \A r, s : InCur(r) /\ InCur(s) => r = s
  BY DEF AgentsCoherent
<1>7. \A r, s : InPool(r) /\ InPool(s) => r = s
  BY DEF PoolCoherent
<1>8. \A r, s : InWant(r) /\ InWant(s) => r = s
  <2> SUFFICES ASSUME NEW v \in Wants, want[v].conn = k, Owned(v),
                      NEW w \in Wants, want[w].conn = k, Owned(w)
               PROVE  v = w
    OBVIOUS
  <2>1. PICK p \in Callers : mine[p] = v
    BY DEF Owned
  <2>2. PICK q \in Callers : mine[q] = w
    BY DEF Owned
  <2> QED
    BY <2>1, <2>2 DEF WantsCoherent
<1>9. \A r, s : InScratch(r) /\ InScratch(s) => r = s
  BY DEF ScratchCoherent
<1> HIDE DEF InCur, InPool, InWant, InScratch
<1> QED
  BY <1>1, <1>2, <1>3, <1>4, <1>5, <1>6, <1>7, <1>8, <1>9

\* No connection is ever in the hands of two requests, of a request and the
\* pool, or of a request and a sweeper, and none is used after its Close.
THEOREM ClientExclusiveUse == Spec => []ExclusiveUse
  BY CoherentExclusive, ClientCoherent, PTL

\* WithinLimit, with what AcquireCreate relies on: the limit in force is allowed.
LimitInv == WithinLimit /\ Limit(maxConns) <= allowed

\* The slots in use stay within the limit in force, or within what they were
\* when SetMaxConns lowered it.
THEOREM ClientWithinLimit == Spec => []WithinLimit
<1>1. Init => LimitInv
  BY HostClientAssumption DEF Init, LimitInv, WithinLimit, Limit
<1>2. Coherent /\ LimitInv /\ [Next]_vars => LimitInv'
  <2> SUFFICES ASSUME Coherent, LimitInv, [Next]_vars PROVE LimitInv'
    OBVIOUS
  <2>1. connsCount \in Nat /\ allowed \in Nat /\ maxConns \in MaxConnsValues
    BY DEF Coherent, TypeOK
  <2>2. \A m \in MaxConnsValues : Limit(m) \in Nat
    BY HostClientAssumption DEF Limit
  <2>3. ASSUME connsCount' = connsCount \/ connsCount' = connsCount - 1,
               UNCHANGED <<maxConns, allowed>>
        PROVE  LimitInv'
    <3>1. Limit(maxConns)' = Limit(maxConns)
      BY <2>3 DEF Limit
    <3> QED
      BY <2>1, <2>2, <2>3, <3>1 DEF LimitInv, WithinLimit
  <2>4. ASSUME NEW p \in Callers, AcquireCreate(p) PROVE LimitInv'
    <3>1. /\ connsCount' = connsCount + 1 /\ connsCount < Limit(maxConns)
          /\ UNCHANGED <<maxConns, allowed>>
      BY <2>4 DEF AcquireCreate
    <3>2. Limit(maxConns)' = Limit(maxConns)
      BY <3>1 DEF Limit
    <3> QED
      BY <2>1, <2>2, <3>1, <3>2 DEF LimitInv, WithinLimit
  <2>5. ASSUME NEW m \in MaxConnsValues, SetMaxConns(m) PROVE LimitInv'
    <3>1. /\ maxConns' = m /\ connsCount' = connsCount
          /\ allowed' = IF connsCount > Limit(m) THEN connsCount ELSE Limit(m)
      BY <2>5 DEF SetMaxConns
    <3>2. Limit(maxConns)' = Limit(m)
      BY <3>1 DEF Limit
    <3> QED
      BY <2>1, <2>2, <3>1, <3>2 DEF LimitInv, WithinLimit
  <2>6. \/ /\ connsCount' = connsCount \/ connsCount' = connsCount - 1
           /\ UNCHANGED <<maxConns, allowed>>
        \/ \E p \in Callers : AcquireCreate(p)
        \/ \E m \in MaxConnsValues : SetMaxConns(m)
    <3> DEFINE Less == /\ connsCount' = connsCount \/ connsCount' = connsCount - 1
                       /\ UNCHANGED <<maxConns, allowed>>
    <3>1. ASSUME NEW p \in Callers, CallerNext(p)
          PROVE  Less \/ AcquireCreate(p)
      BY <3>1 DEF CallerNext, Do, DoTimeout, AcquireIdle, AcquireFail, AcquireMustWait,
                  QueueForIdle, WaitReady, WaitTimeout, Cancel, RoundTripKeep, RoundTripClose,
                  RoundTripError, CloseDec, DecConnsCount
    <3>2. ASSUME NEW a, \/ DialerNext(a) \/ DialNext(a) \/ ReleaseNext(a) \/ CleanerNext
                        \/ CloseIdleConnections(a) \/ CloserDone(a) \/ ScratchDec(a) \/ NetClose(a)
                        \/ UNCHANGED vars
          PROVE  Less
      BY <3>2 DEF DialerNext, DialerDeliver, DialerDeliverErr, DialNext, DialOk, DialFail,
                  DecAfterDialFail, ReleaseNext, ReleaseConn, ReleaseDeliver, CleanerNext,
                  Collect, TakeIdle, CleanerCheck, CloseIdleConnections, CloserDone, ScratchDec,
                  NetClose, DecConnsCount, vars
    <3> QED
      BY <3>1, <3>2 DEF Next
  <2> QED
    BY <2>3, <2>4, <2>5, <2>6
<1>3. LimitInv => WithinLimit
  BY DEF LimitInv
<1> QED
  BY <1>1, <1>2, <1>3, ClientCoherent, PTL DEF Spec

-----------------------------------------------------------------------------
(* Waiters: the queue connsWait and who answers a wantConn.                *)

\* A wantConn that somebody has or is about to answer.
Served(w) ==
  \/ w \in Elems(connsWait)
  \/ pc[w] \in {"dial", "deliver", "deliverErr"}
  \/ sel = w

NoDuplicate(s) == \A i, j \in DOMAIN s : s[i] = s[j] => i = j

\* A closed ready channel means an answer.
Answers == \A w \in Wants : want[w].ready => ~Deliverable(w)

\* The queue holds a wantConn once, and no dialConnFor runs for it yet.
QueueOnce ==
  /\ NoDuplicate(connsWait)
  /\ \A w \in Elems(connsWait) : pc[w] = "idle"

\* A caller has a wantConn only while it waits; one that will be answered and
\* still can be belongs to a caller; releaseConn has one in hand only while it
\* holds connsLock.
Owners ==
  /\ \A p \in Callers : mine[p] # NoWant => pc[p] \in {"wait", "cancel"}
  /\ \A w \in Wants : Deliverable(w) /\ Served(w) => Owned(w)
  /\ Unlocked => sel = NoWant

\* The inductive invariant behind NoWaiterDropped.
Waiters == Coherent /\ Answers /\ QueueOnce /\ Owners /\ NoWaiterDropped

\* There are n numbers up to n.
LEMMA IntervalSize ==
  ASSUME NEW n \in Nat
  PROVE  IsFiniteSet(1..n) /\ Cardinality(1..n) = n
<1>1. 1 \in Int /\ n \in Int
  OBVIOUS
<1>2. IsFiniteSet(1..n) /\ Cardinality(1..n) = IF 1 > n THEN 0 ELSE n - 1 + 1
  BY <1>1, FS_Interval, Zenon
<1> QED
  BY <1>2

\* The wantConns the front of the queue skips are ready.
LEMMA StalePrefix ==
  ASSUME connsWait \in Seq(Wants)
  PROVE  \A i \in 1..Stale : ~IsWaiting(connsWait[i])
<1> DEFINE S == {i \in DOMAIN connsWait : \A j \in 1..i : ~IsWaiting(connsWait[j])}
<1> SUFFICES ASSUME NEW i \in 1..Stale, IsWaiting(connsWait[i])
             PROVE  FALSE
  OBVIOUS
<1>0. Stale \in Nat /\ i \in Nat /\ 1 <= i /\ i <= Stale /\ Stale <= Len(connsWait)
  BY StaleBound
<1>1. S \in SUBSET (1..(i - 1))
  BY <1>0
<1> HIDE DEF S
<1>2. PICK n \in Nat : n = i - 1
  BY <1>0
<1>3. IsFiniteSet(1..n) /\ Cardinality(1..n) = n
  BY IntervalSize
<1>4. Cardinality(S) <= n
  BY <1>1, <1>2, <1>3, FS_Subset
<1>5. IsFiniteSet(S) /\ Cardinality(S) \in Nat
  BY <1>1, <1>2, <1>3, FS_Subset, FS_CardinalityType
<1> QED
  BY <1>0, <1>2, <1>4, <1>5 DEF Stale, S

\* Dropping a prefix of a queue without duplicates.
LEMMA DropPrefix ==
  ASSUME NEW s \in Seq(Wants), NEW n \in 0..Len(s), NoDuplicate(s)
  PROVE  LET t == SubSeq(s, n + 1, Len(s))
         IN /\ t \in Seq(Wants) /\ NoDuplicate(t)
            /\ Elems(t) \subseteq Elems(s)
            /\ \A w \in Elems(s) : w \in Elems(t) \/ \E i \in 1..n : w = s[i]
            /\ \A i \in 1..n : s[i] \notin Elems(t)
<1> DEFINE t == SubSeq(s, n + 1, Len(s))
<1>1. t \in Seq(Wants) /\ Len(t) = Len(s) - n /\ DOMAIN t = 1..(Len(s) - n) /\ DOMAIN s = 1..Len(s)
  OBVIOUS
<1>2. \A i \in DOMAIN t : t[i] = s[i + n] /\ i + n \in DOMAIN s
  OBVIOUS
<1> HIDE DEF t
<1>3. NoDuplicate(t)
  BY <1>1, <1>2 DEF NoDuplicate
<1>4. Elems(t) \subseteq Elems(s)
  BY <1>2 DEF Elems
<1>5. ASSUME NEW w \in Elems(s) PROVE w \in Elems(t) \/ \E i \in 1..n : w = s[i]
  <2>1. PICK i \in DOMAIN s : w = s[i]
    BY DEF Elems
  <2>2. CASE i \in 1..n
    BY <2>1, <2>2
  <2>3. CASE i \notin 1..n
    <3>1. i - n \in DOMAIN t /\ (i - n) + n = i
      BY <1>1, <2>3
    <3>2. t[i - n] = s[i]
      BY <1>2, <3>1
    <3> QED
      BY <2>1, <3>1, <3>2 DEF Elems
  <2> QED
    BY <2>2, <2>3
<1>6. ASSUME NEW i \in 1..n, s[i] \in Elems(t) PROVE FALSE
  <2>1. PICK j \in DOMAIN t : s[i] = t[j]
    BY <1>6 DEF Elems
  <2>2. s[i] = s[j + n] /\ j + n \in DOMAIN s /\ i \in DOMAIN s
    BY <1>1, <1>2, <2>1
  <2>3. i # j + n
    BY <1>1
  <2> QED
    BY <2>2, <2>3 DEF NoDuplicate
<1>7. \A i \in 1..n : s[i] \notin Elems(t)
  BY <1>6
<1>8. \A w \in Elems(s) : w \in Elems(t) \/ \E i \in 1..n : w = s[i]
  BY <1>5
<1> QED
  BY <1>1, <1>3, <1>4, <1>7, <1>8 DEF t

\* A wantConn among the skipped ones cannot be delivered to any more.
LEMMA SkippedAnswered ==
  ASSUME Waiters, NEW i \in 1..Stale
  PROVE  connsWait[i] \in Wants /\ ~Deliverable(connsWait[i])
<1>1. connsWait \in Seq(Wants)
  BY DEF Waiters, Coherent, TypeOK
<1>2. Stale \in 0..Len(connsWait)
  BY <1>1, StaleBound
<1>3. connsWait[i] \in Wants
  BY <1>1, <1>2
<1>4. want[connsWait[i]].ready
  BY <1>1, StalePrefix DEF IsWaiting
<1> QED
  BY <1>3, <1>4 DEF Waiters, Answers

\* releaseConn and decConnsCount that find no waiter may drop the whole queue.
LEMMA QueueEmpty ==
  ASSUME Waiters, NoneWaiting
  PROVE  \A w \in Elems(connsWait) : ~Deliverable(w)
<1> SUFFICES ASSUME NEW w \in Elems(connsWait) PROVE ~Deliverable(w)
  OBVIOUS
<1>1. PICK i \in DOMAIN connsWait : w = connsWait[i]
  BY DEF Elems
<1>2. i \in 1..Stale
  BY DEF NoneWaiting, Waiters, Coherent, TypeOK
<1> QED
  BY <1>1, <1>2, SkippedAnswered

\* clearFront keeps every wantConn that can still be answered.
LEMMA QueueClear ==
  ASSUME Waiters
  PROVE  /\ Cleared \in Seq(Wants) /\ NoDuplicate(Cleared)
         /\ Elems(Cleared) \subseteq Elems(connsWait)
         /\ \A w \in Elems(connsWait) : w \in Elems(Cleared) \/ ~Deliverable(w)
<1>1. connsWait \in Seq(Wants) /\ NoDuplicate(connsWait)
  BY DEF Waiters, Coherent, TypeOK, QueueOnce
<1>2. Stale \in 0..Len(connsWait)
  BY <1>1, StaleBound
<1>3. /\ Cleared \in Seq(Wants) /\ NoDuplicate(Cleared)
      /\ Elems(Cleared) \subseteq Elems(connsWait)
      /\ \A w \in Elems(connsWait) : w \in Elems(Cleared) \/ \E i \in 1..Stale : w = connsWait[i]
  BY <1>1, <1>2, DropPrefix DEF Cleared
<1>4. \A i \in 1..Stale : ~Deliverable(connsWait[i])
  BY SkippedAnswered
<1> QED
  BY <1>3, <1>4

\* Popping the first wantConn that waits drops only answered ones.
LEMMA QueuePop ==
  ASSUME Waiters, ~NoneWaiting
  PROVE  /\ FirstWaiting \in Elems(connsWait) /\ FirstWaiting \in Wants
         /\ AfterFirstWaiting \in Seq(Wants) /\ NoDuplicate(AfterFirstWaiting)
         /\ Elems(AfterFirstWaiting) \subseteq Elems(connsWait) \ {FirstWaiting}
         /\ \A w \in Elems(connsWait) :
              w = FirstWaiting \/ w \in Elems(AfterFirstWaiting) \/ ~Deliverable(w)
<1>1. connsWait \in Seq(Wants) /\ NoDuplicate(connsWait)
  BY DEF Waiters, Coherent, TypeOK, QueueOnce
<1>2. Stale \in 0..Len(connsWait) /\ Stale # Len(connsWait)
  BY <1>1, StaleBound DEF NoneWaiting
<1>3. Stale + 1 \in 0..Len(connsWait) /\ Stale + 1 \in DOMAIN connsWait
      /\ (Stale + 1) + 1 = Stale + 2 /\ Stale + 1 \in 1..(Stale + 1)
  BY <1>1, <1>2
<1>4. FirstWaiting \in Elems(connsWait) /\ FirstWaiting \in Wants
  BY <1>1, <1>3 DEF FirstWaiting, Elems
<1>5. /\ AfterFirstWaiting \in Seq(Wants) /\ NoDuplicate(AfterFirstWaiting)
      /\ Elems(AfterFirstWaiting) \subseteq Elems(connsWait)
      /\ \A w \in Elems(connsWait) :
           w \in Elems(AfterFirstWaiting) \/ \E i \in 1..(Stale + 1) : w = connsWait[i]
      /\ \A i \in 1..(Stale + 1) : connsWait[i] \notin Elems(AfterFirstWaiting)
  BY <1>1, <1>3, DropPrefix DEF AfterFirstWaiting
<1>6. FirstWaiting \notin Elems(AfterFirstWaiting)
  BY <1>3, <1>5 DEF FirstWaiting
<1>7. \A i \in 1..(Stale + 1) : i = Stale + 1 \/ i \in 1..Stale
  BY <1>2
<1>8. \A i \in 1..Stale : ~Deliverable(connsWait[i])
  BY SkippedAnswered
<1> QED
  BY <1>4, <1>5, <1>6, <1>7, <1>8 DEF FirstWaiting

\* A step that takes care of every waiter it touches: a wantConn is changed
\* only by answering it, starts being served only when it is queued, and stops
\* being served only when it is answered; a caller gives up a wantConn only
\* when that is answered.
LEMMA WaitersStep ==
  ASSUME Waiters, Coherent',
         NoDuplicate(connsWait'), \A w \in Elems(connsWait') : pc'[w] = "idle",
         \A w \in Wants : want'[w] = want[w] \/ ~Deliverable(w)',
         \A w \in Wants : Served(w)' => Served(w),
         \A w \in Wants : Served(w) /\ Deliverable(w)' => Served(w)',
         \A p \in Callers : mine'[p] # NoWant => mine'[p] = mine[p] /\ pc'[p] \in {"wait", "cancel"},
         \A p \in Callers : pc'[p] = "wait" => pc[p] = "wait",
         \A p \in Callers : \A w \in Wants : mine[p] = w /\ Deliverable(w)' => mine'[p] = w,
         connsLock' = NoAgent => sel' = NoWant
  PROVE  Waiters'
<1> USE DEF Waiters
<1>1. Answers'
  BY DEF Answers, Deliverable
<1>2. QueueOnce'
  BY DEF QueueOnce
<1>3. \A w \in Wants : Deliverable(w)' => Deliverable(w)
  BY DEF Deliverable
<1>4. ASSUME NEW w \in Wants, Deliverable(w)', Served(w)' PROVE Owned(w)'
  <2>1. PICK p \in Callers : mine[p] = w
    BY <1>3, <1>4 DEF Owners, Owned
  <2>2. mine'[p] = w
    BY <1>4, <2>1
  <2> QED
    BY <2>2 DEF Owned
<1>5. Owners'
  BY <1>4 DEF Owners, Unlocked
<1>6. NoWaiterDropped'
  <2> SUFFICES ASSUME NEW p \in Callers, pc'[p] = "wait", NEW w \in Wants, mine'[p] = w,
                      Deliverable(w)'
               PROVE  Served(w)'
    <3>1. \A p \in Callers : pc'[p] = "wait" => mine'[p] \in Wants
      BY DEF Coherent, LockCoherent, TypeOK
    <3>2. \A p \in Callers : \A w \in Wants :
            pc'[p] = "wait" /\ mine'[p] = w /\ Deliverable(w)' => Served(w)'
      OBVIOUS
    <3> QED
      BY <3>1, <3>2 DEF NoWaiterDropped, Served, Deliverable
  <2>1. w # NoWant
    BY HostClientAssumption
  <2>2. mine[p] = w /\ pc[p] = "wait"
    BY <2>1
  <2>3. Served(w)
    BY <1>3, <2>2 DEF NoWaiterDropped, Served
  <2> QED
    BY <2>3
<1> QED
  BY <1>1, <1>2, <1>5, <1>6

\* A step that neither answers nor queues a wantConn: no dialConnFor starts or
\* ends, and callers that wait go on waiting or begin to cancel.
LEMMA WaitersApart ==
  ASSUME Waiters, Coherent', UNCHANGED <<want, connsWait, mine, sel, connsLock>>,
         \A w \in Wants : /\ pc[w] = "idle" => pc'[w] = "idle"
                          /\ pc'[w] \in {"dial", "deliver", "deliverErr"}
                               <=> pc[w] \in {"dial", "deliver", "deliverErr"},
         \A p \in Callers : /\ mine[p] # NoWant => pc'[p] \in {"wait", "cancel"}
                            /\ pc'[p] = "wait" => pc[p] = "wait"
  PROVE  Waiters'
<1>1. NoDuplicate(connsWait')
  BY DEF Waiters, QueueOnce
<1>2. \A w \in Elems(connsWait') : pc'[w] = "idle"
  BY DEF Waiters, QueueOnce, Coherent, TypeOK, Elems
<1>3. \A w \in Wants : Served(w)' <=> Served(w)
  BY DEF Served
<1>4. connsLock' = NoAgent => sel' = NoWant
  BY DEF Waiters, Owners, Unlocked
<1>5. \A w \in Wants : want'[w] = want[w]
  OBVIOUS
<1>6. \A p \in Callers : mine'[p] # NoWant => mine'[p] = mine[p] /\ pc'[p] \in {"wait", "cancel"}
  OBVIOUS
<1> QED
  BY <1>1, <1>2, <1>3, <1>4, <1>5, <1>6, WaitersStep

\* A goroutine that does not wait moves on by itself.
LEMMA WaitersAgentMoves ==
  ASSUME Waiters, Coherent', UNCHANGED <<want, connsWait, mine, sel, connsLock>>,
         NEW a \in Callers \cup Sweepers, NEW l, l # "wait",
         pc' = [pc EXCEPT ![a] = l], pc[a] \notin {"wait", "cancel"} \/ l = "cancel"
  PROVE  Waiters'
<1>1. \A b \in Agents : pc'[b] = IF b = a THEN l ELSE pc[b]
  BY DEF Waiters, Coherent, TypeOK
<1>2. \A w \in Wants : w \in Agents /\ w # a
  BY HostClientAssumption DEF Agents
<1>3. \A p \in Callers : p \in Agents /\ (mine[p] # NoWant => pc[p] \in {"wait", "cancel"})
  BY DEF Agents, Waiters, Owners
<1> QED
  BY <1>1, <1>2, <1>3, WaitersApart

\* The steps of a caller that leave the queue and the wantConns alone.
LEMMA WaitersCaller ==
  ASSUME Waiters, Coherent', NEW p \in Callers,
         \/ Do(p) \/ DoTimeout(p) \/ AcquireIdle(p) \/ AcquireFail(p) \/ AcquireMustWait(p)
         \/ WaitTimeout(p) \/ RoundTripKeep(p) \/ RoundTripClose(p) \/ RoundTripError(p)
  PROVE  Waiters'
<1> DEFINE Apart == UNCHANGED <<want, connsWait, mine, sel, connsLock>>
           Steps == \E l : /\ l # "wait" /\ pc' = [pc EXCEPT ![p] = l]
                           /\ pc[p] \notin {"wait", "cancel"} \/ l = "cancel"
<1>1. CASE Do(p) \/ DoTimeout(p) \/ AcquireFail(p) \/ AcquireMustWait(p)
  <2>1. Apart /\ Steps
    BY <1>1 DEF Do, DoTimeout, AcquireFail, AcquireMustWait, Goto
  <2> QED
    BY <2>1, WaitersAgentMoves
<1>2. CASE AcquireIdle(p)
  <2>1. Apart /\ Steps
    BY <1>2 DEF AcquireIdle, Goto
  <2> QED
    BY <2>1, WaitersAgentMoves
<1>3. CASE WaitTimeout(p)
  <2>1. Apart /\ Steps
    BY <1>3 DEF WaitTimeout, Goto
  <2> QED
    BY <2>1, WaitersAgentMoves
<1>4. CASE RoundTripKeep(p) \/ RoundTripClose(p) \/ RoundTripError(p)
  <2>1. Apart /\ Steps
    BY <1>4 DEF RoundTripKeep, RoundTripClose, RoundTripError, Goto
  <2> QED
    BY <2>1, WaitersAgentMoves
<1> QED
  BY <1>1, <1>2, <1>3, <1>4

\* A slot is reserved, and the cleaner started.
LEMMA WaitersCreate ==
  ASSUME Waiters, Coherent', NEW p \in Callers, AcquireCreate(p)
  PROVE  Waiters'
<1>1. UNCHANGED <<want, connsWait, mine, sel, connsLock>> /\ pc[p] = "acquire"
  BY DEF AcquireCreate
<1>2. \A b \in Agents : b # p /\ b # Cleaner => pc'[b] = pc[b]
  BY DEF AcquireCreate, Waiters, Coherent, TypeOK
<1>3. pc'[p] = "dial"
  BY HostClientAssumption DEF AcquireCreate, Waiters, Coherent, TypeOK, Agents, Sweepers
<1>4. \A b \in Callers \cup Wants : b \in Agents /\ b # Cleaner /\ (b \in Wants => b # p)
  BY HostClientAssumption DEF Agents, Sweepers
<1>5. \A q \in Callers : mine[q] # NoWant => pc[q] \in {"wait", "cancel"}
  BY DEF Waiters, Owners
<1> QED
  BY <1>1, <1>2, <1>3, <1>4, <1>5, WaitersApart

\* The sweepers take connections from the pool, close them, loop or stop.
LEMMA WaitersSweeper ==
  ASSUME Waiters, Coherent', NEW a \in Callers \cup Sweepers,
         \/ NetClose(a)
         \/ a \in Sweepers /\ \E n \in Nat : TakeIdle(a, n)
         \/ a = Cleaner /\ CleanerCheck
         \/ a \in Closers /\ CloserDone(a)
  PROVE  Waiters'
<1>1. AfterAttempt(a) # "wait"
  BY DEF AfterAttempt
<1>2. \A b \in Sweepers : b \in Agents /\ pc[b] \notin {"wait", "cancel"}
  BY DEF Waiters, Coherent, RolesCoherent, Agents, Sweepers
<1>3. CASE NetClose(a)
  <2>1. /\ UNCHANGED <<want, connsWait, mine, sel, connsLock>>
        /\ pc' = [pc EXCEPT ![a] = AfterAttempt(a)] /\ pc[a] \notin {"wait", "cancel"}
    BY <1>3 DEF NetClose, Goto
  <2> QED
    BY <1>1, <2>1, WaitersAgentMoves
<1>4. CASE a \in Sweepers /\ \E n \in Nat : TakeIdle(a, n)
  <2>1. UNCHANGED <<want, connsWait, mine, sel, connsLock>> /\ pc' = [pc EXCEPT ![a] = "sweep"]
    BY <1>4 DEF TakeIdle, Goto
  <2> QED
    BY <1>2, <1>4, <2>1, WaitersAgentMoves
<1>5. CASE a = Cleaner /\ CleanerCheck
  <2>1. /\ UNCHANGED <<want, connsWait, mine, sel, connsLock>> /\ a \in Sweepers
        /\ \E l \in {"idle", "collect"} : pc' = [pc EXCEPT ![a] = l]
    BY <1>5 DEF CleanerCheck, Goto, Sweepers
  <2> QED
    BY <1>2, <2>1, WaitersAgentMoves
<1>6. CASE a \in Closers /\ CloserDone(a)
  <2>1. /\ UNCHANGED <<want, connsWait, mine, sel, connsLock>> /\ a \in Sweepers
        /\ pc' = [pc EXCEPT ![a] = "idle"]
    BY <1>6 DEF CloserDone, Goto, Sweepers
  <2> QED
    BY <1>2, <2>1, WaitersAgentMoves
<1> QED
  BY <1>3, <1>4, <1>5, <1>6

\* A dial ends: the dialer of a wantConn now has something to deliver.
LEMMA WaitersDial ==
  ASSUME Waiters, Coherent', NEW a \in Callers \cup Wants, DialOk(a) \/ DialFail(a)
  PROVE  Waiters'
<1>1. UNCHANGED <<want, connsWait, mine, sel, connsLock>> /\ pc[a] = "dial"
  BY DEF DialOk, DialFail
<1>2. \A b \in Agents : b # a => pc'[b] = pc[b]
  BY DEF DialOk, DialFail, Goto, Waiters, Coherent, TypeOK
<1>3. a \in Wants => pc'[a] \in {"deliver", "deliverErr"}
  BY HostClientAssumption DEF DialOk, DialFail, Goto, Waiters, Coherent, TypeOK, Agents
<1>4. a \in Callers => pc'[a] \in {"inuse", "dialfailed"}
  BY HostClientAssumption DEF DialOk, DialFail, Goto, Waiters, Coherent, TypeOK, Agents
<1>5. \A q \in Callers : q \in Agents /\ (mine[q] # NoWant => pc[q] \in {"wait", "cancel"})
  BY DEF Waiters, Owners, Agents
<1>6. \A w \in Wants : w \in Agents /\ (a \in Callers => w # a)
  BY HostClientAssumption DEF Agents
<1>7. \A w \in Wants : /\ pc[w] = "idle" => pc'[w] = "idle"
                       /\ pc'[w] \in {"dial", "deliver", "deliverErr"}
                            <=> pc[w] \in {"dial", "deliver", "deliverErr"}
  BY <1>1, <1>2, <1>3, <1>6
<1>8. \A q \in Callers : /\ mine[q] # NoWant => pc'[q] \in {"wait", "cancel"}
                         /\ pc'[q] = "wait" => pc[q] = "wait"
  BY <1>1, <1>2, <1>4, <1>5
<1> QED
  BY <1>1, <1>7, <1>8, WaitersApart

\* decConnsCount starts a dialConnFor for the wantConn it pops, or drops a
\* queue in which nobody waits.
LEMMA WaitersGiveUp ==
  ASSUME Waiters, Coherent', UNCHANGED <<want, mine, sel, connsLock>>,
         NEW a \in Agents, pc[a] \in {"close", "dialfailed", "sweep"},
         NEW l \in {"netclose", "idle"}, NEW cs, NEW pl,
         DecConnsCount([pc EXCEPT ![a] = l], cs, pl)
  PROVE  Waiters'
<1> DEFINE pcs == [pc EXCEPT ![a] = l]
<1>1. \A b \in Agents : pcs[b] = IF b = a THEN l ELSE pc[b]
  BY DEF Waiters, Coherent, TypeOK
<1>2. pcs \in [Agents -> {pcs[b] : b \in Agents}]
  BY DEF Waiters, Coherent, TypeOK
<1>3. DecConnsCount(pcs, cs, pl)
  OBVIOUS
<1> HIDE DEF pcs
<1>4. \A w \in Wants : w \in Agents
  BY DEF Agents
<1>5. \A p \in Callers : p \in Agents /\ p \notin Wants /\ (mine[p] # NoWant => pc[p] \in {"wait", "cancel"})
  BY HostClientAssumption DEF Agents, Waiters, Owners
<1>6. NoDuplicate(connsWait) /\ \A w \in Elems(connsWait) : w \in Wants /\ pc[w] = "idle"
  BY DEF Waiters, QueueOnce, Coherent, TypeOK, Elems
<1>7. a \notin Elems(connsWait)
  BY <1>6
<1>8. \A w \in Wants : want'[w] = want[w] /\ (Deliverable(w)' <=> Deliverable(w))
  BY DEF Deliverable
<1>9. connsLock' = NoAgent => sel' = NoWant
  BY DEF Waiters, Owners, Unlocked
<1>10. CASE /\ ~Waiting \/ NoneWaiting
            /\ connsWait' = IF Waiting THEN <<>> ELSE connsWait
            /\ pc' = pcs
  <2>1. \/ connsWait' = connsWait
        \/ connsWait' = <<>> /\ \A w \in Elems(connsWait) : ~Deliverable(w)
    BY <1>10, QueueEmpty
  <2>2. NoDuplicate(connsWait') /\ Elems(connsWait') \subseteq Elems(connsWait)
    BY <1>6, <2>1 DEF NoDuplicate, Elems
  <2>3. \A w \in Elems(connsWait') : pc'[w] = "idle"
    BY <1>1, <1>4, <1>6, <1>7, <1>10, <2>2
  <2>4. \A w \in Wants : pc'[w] \in {"dial", "deliver", "deliverErr"}
                           <=> pc[w] \in {"dial", "deliver", "deliverErr"}
    BY <1>1, <1>4, <1>10
  <2>5. \A w \in Wants : Served(w)' => Served(w)
    BY <2>2, <2>4 DEF Served
  <2>6. \A w \in Wants : Served(w) /\ Deliverable(w)' => Served(w)'
    BY <1>8, <2>1, <2>4 DEF Served
  <2>7. \A p \in Callers : /\ mine[p] # NoWant => pc'[p] \in {"wait", "cancel"}
                           /\ pc'[p] = "wait" => pc[p] = "wait"
    BY <1>1, <1>5, <1>10
  <2> QED
    BY <1>8, <1>9, <2>2, <2>3, <2>5, <2>6, <2>7, WaitersStep
<1>11. CASE /\ Waiting /\ ~NoneWaiting
            /\ pc' = [pcs EXCEPT ![FirstWaiting] = "dial"]
            /\ connsWait' = AfterFirstWaiting
  <2>1. PICK f \in Wants : f = FirstWaiting
    BY <1>11, QueuePop
  <2>2. /\ f \in Elems(connsWait) /\ NoDuplicate(connsWait')
        /\ Elems(connsWait') \subseteq Elems(connsWait) \ {f}
        /\ \A w \in Elems(connsWait) : w = f \/ w \in Elems(connsWait') \/ ~Deliverable(w)
    BY <1>11, <2>1, QueuePop
  <2>3. f # a /\ f \in Agents
    BY <1>4, <1>7, <2>2
  <2>4. \A b \in Agents : pc'[b] = IF b = f THEN "dial" ELSE IF b = a THEN l ELSE pc[b]
    BY <1>1, <1>2, <1>11, <2>1, <2>3
  <2>5. \A w \in Elems(connsWait') : pc'[w] = "idle"
    BY <1>4, <1>6, <1>7, <2>2, <2>4
  <2>6. \A w \in Wants : w # f =>
          (pc'[w] \in {"dial", "deliver", "deliverErr"} <=> pc[w] \in {"dial", "deliver", "deliverErr"})
    BY <1>4, <2>4
  <2>7. Served(f) /\ Served(f)'
    BY <2>2, <2>3, <2>4 DEF Served
  <2>8. \A w \in Wants : Served(w)' => Served(w)
    BY <2>2, <2>6, <2>7 DEF Served
  <2>9. \A w \in Wants : Served(w) /\ Deliverable(w)' => Served(w)'
    BY <1>8, <2>2, <2>6, <2>7 DEF Served
  <2>10. \A p \in Callers : /\ mine[p] # NoWant => pc'[p] \in {"wait", "cancel"}
                            /\ pc'[p] = "wait" => pc[p] = "wait"
    BY <1>5, <2>1, <2>4
  <2> QED
    BY <1>8, <1>9, <2>2, <2>5, <2>8, <2>9, <2>10, WaitersStep
<1> QED
  BY <1>3, <1>10, <1>11 DEF DecConnsCount

\* A waiter is queued, behind those that still wait.
LEMMA WaitersQueue ==
  ASSUME Waiters, Coherent', NEW p \in Callers, QueueForIdle(p)
  PROVE  Waiters'
<1>1. PICK w \in Wants : /\ Fresh(w) /\ want' = [want EXCEPT ![w] = Unset]
                         /\ connsWait' = Append(Cleared, w) /\ mine' = [mine EXCEPT ![p] = w]
  BY DEF QueueForIdle
<1>2. /\ Cleared \in Seq(Wants) /\ NoDuplicate(Cleared)
      /\ Elems(Cleared) \subseteq Elems(connsWait)
      /\ \A v \in Elems(connsWait) : v \in Elems(Cleared) \/ ~Deliverable(v)
  BY QueueClear
<1>3. NoDuplicate(connsWait') /\ Elems(connsWait') = Elems(Cleared) \cup {w}
  <2>1. w \notin Elems(Cleared)
    BY <1>1, <1>2 DEF Fresh
  <2>2. PICK s \in Seq(Wants) : s = Cleared
    BY <1>2
  <2>3. /\ Len(Append(s, w)) = Len(s) + 1 /\ Append(s, w)[Len(s) + 1] = w
        /\ \A i \in 1..Len(s) : Append(s, w)[i] = s[i]
        /\ DOMAIN s = 1..Len(s) /\ DOMAIN Append(s, w) = 1..(Len(s) + 1) /\ Len(s) \in Nat
    OBVIOUS
  <2>4. NoDuplicate(Append(s, w))
    BY <1>2, <2>1, <2>2, <2>3 DEF NoDuplicate, Elems
  <2>5. Elems(Append(s, w)) = Elems(s) \cup {w}
    BY <2>3 DEF Elems
  <2> QED
    BY <1>1, <2>2, <2>4, <2>5
<1>4. \A v \in Elems(connsWait) : v \in Wants /\ pc[v] = "idle"
  BY DEF Waiters, QueueOnce, Coherent, TypeOK, Elems
<1>5. p \in Agents /\ p \notin Wants /\ pc[p] = "enqueue" /\ mine[p] = NoWant
  BY HostClientAssumption DEF Agents, QueueForIdle, Waiters, Owners
<1>6. \A b \in Agents : pc'[b] = IF b = p THEN "wait" ELSE pc[b]
  BY DEF QueueForIdle, Goto, Waiters, Coherent, TypeOK
<1>7. \A v \in Wants : v \in Agents /\ pc'[v] = pc[v]
  BY <1>5, <1>6 DEF Agents
<1>8. \A q \in Callers : q \in Agents /\ mine'[q] = IF q = p THEN w ELSE mine[q]
  BY <1>1 DEF Waiters, Coherent, TypeOK, Agents
<1>9. \A v \in Wants : v # w => want'[v] = want[v] /\ (Deliverable(v)' <=> Deliverable(v))
  BY <1>1 DEF Waiters, Coherent, TypeOK, Deliverable
<1>10. want'[w] = Unset /\ Deliverable(w)' /\ ~want'[w].ready
  BY <1>1 DEF Waiters, Coherent, TypeOK, Deliverable, Unset
<1>11. sel' = sel /\ connsLock' = connsLock
  BY DEF QueueForIdle
<1>12. Answers'
  <2>1. \A v \in Wants : want'[v].ready => ~Deliverable(v)'
    BY <1>9, <1>10 DEF Waiters, Answers
  <2> QED
    BY <2>1 DEF Answers
<1>13. QueueOnce'
  BY <1>1, <1>2, <1>3, <1>4, <1>7 DEF QueueOnce, Fresh
<1>14. \A v \in Wants : v # w =>
         (Served(v)' => Served(v)) /\ (Served(v) /\ Deliverable(v) => Served(v)')
  BY <1>2, <1>3, <1>7, <1>11 DEF Served
<1>15. Owned(w)' /\ Served(w)'
  BY <1>3, <1>8 DEF Owned, Served
<1>16. \A v \in Wants : Deliverable(v)' /\ Served(v)' => Owned(v)'
  <2> SUFFICES ASSUME NEW v \in Wants, v # w, Deliverable(v)', Served(v)' PROVE Owned(v)'
    BY <1>15
  <2>1. PICK q \in Callers : mine[q] = v
    BY <1>9, <1>14 DEF Waiters, Owners, Owned
  <2>2. mine'[q] = v
    BY <1>5, <1>8, <2>1, HostClientAssumption
  <2> QED
    BY <2>2 DEF Owned
<1>17. \A q \in Callers : mine'[q] # NoWant => pc'[q] \in {"wait", "cancel"}
  BY <1>6, <1>8 DEF Waiters, Owners
<1>18. Owners'
  BY <1>11, <1>16, <1>17 DEF Owners, Waiters, Unlocked
<1>19. \A q \in Callers : \A v \in Wants :
         pc'[q] = "wait" /\ mine'[q] = v /\ Deliverable(v)' => Served(v)'
  <2> SUFFICES ASSUME NEW q \in Callers, NEW v \in Wants, v # w,
                      pc'[q] = "wait", mine'[q] = v, Deliverable(v)'
               PROVE  Served(v)'
    BY <1>15
  <2>1. mine[q] = v /\ pc[q] = "wait"
    BY <1>6, <1>8
  <2>2. Deliverable(v) /\ Served(v)
    BY <1>9, <2>1 DEF Waiters, NoWaiterDropped, Served
  <2> QED
    BY <1>14, <2>2
<1>20. NoWaiterDropped'
  <2>1. \A q \in Callers : pc'[q] = "wait" => mine'[q] \in Wants
    BY DEF Coherent, LockCoherent, TypeOK
  <2> QED
    BY <1>19, <2>1 DEF NoWaiterDropped, Served, Deliverable
<1> QED
  BY <1>12, <1>13, <1>18, <1>20 DEF Waiters

\* Only the wantConn w is answered, and nobody else moves it in the queue.
LEMMA WaitersAnswer ==
  ASSUME Waiters, Coherent', UNCHANGED connsWait, NEW w \in Wants,
         want' = want \/ ~Deliverable(w)',
         \A v \in Wants : v # w => want'[v] = want[v],
         \A v \in Wants : Served(v)' => Served(v),
         \A v \in Wants : v # w /\ Served(v) => Served(v)',
         Deliverable(w)' /\ Served(w) => Served(w)',
         \A p \in Callers : mine'[p] # NoWant => mine'[p] = mine[p] /\ pc'[p] \in {"wait", "cancel"},
         \A p \in Callers : pc'[p] = "wait" => pc[p] = "wait",
         \A p \in Callers : mine'[p] = mine[p] \/ (mine[p] = w /\ ~Deliverable(w)'),
         \A v \in Wants : pc[v] = "idle" => pc'[v] = "idle",
         connsLock' = NoAgent => sel' = NoWant
  PROVE  Waiters'
<1>1. NoDuplicate(connsWait')
  BY DEF Waiters, QueueOnce
<1>2. \A v \in Elems(connsWait') : pc'[v] = "idle"
  BY DEF Waiters, QueueOnce, Coherent, TypeOK, Elems
<1>3. \A v \in Wants : want'[v] = want[v] \/ ~Deliverable(v)'
  OBVIOUS
<1>4. \A v \in Wants : Served(v) /\ Deliverable(v)' => Served(v)'
  OBVIOUS
<1>5. \A p \in Callers : \A v \in Wants : mine[p] = v /\ Deliverable(v)' => mine'[p] = v
  OBVIOUS
<1> QED
  BY <1>1, <1>2, <1>3, <1>4, <1>5, WaitersStep

\* The caller takes the answer, a connection or an error.
LEMMA WaitersReady ==
  ASSUME Waiters, Coherent', NEW p \in Callers, WaitReady(p)
  PROVE  Waiters'
<1>1. /\ pc[p] = "wait" /\ UNCHANGED <<want, connsWait, sel, connsLock>>
      /\ want[mine[p]].ready
  BY DEF WaitReady
<1>2. PICK w \in Wants : w = mine[p]
  BY <1>1 DEF Waiters, Coherent, LockCoherent, TypeOK
<1>3. ~Deliverable(w) /\ ~Deliverable(w)'
  BY <1>1, <1>2 DEF Waiters, Answers, Deliverable
<1>4. p \in Agents /\ p \notin Wants
  BY HostClientAssumption DEF Agents
<1>5. \/ pc' = [pc EXCEPT ![p] = "inuse"] /\ mine' = [mine EXCEPT ![p] = NoWant]
      \/ pc' = [pc EXCEPT ![p] = "cancel"] /\ mine' = mine
  BY DEF WaitReady, Goto
<1>6. \A b \in Agents : b # p => pc'[b] = pc[b]
  BY <1>5 DEF Waiters, Coherent, TypeOK
<1>7. \A q \in Callers : q # p => mine'[q] = mine[q]
  BY <1>5 DEF Waiters, Coherent, TypeOK
<1>8. \/ pc'[p] = "inuse" /\ mine'[p] = NoWant
      \/ pc'[p] = "cancel" /\ mine'[p] = mine[p]
  BY <1>4, <1>5 DEF Waiters, Coherent, TypeOK
<1>9. \A v \in Wants : pc'[v] = pc[v]
  BY <1>4, <1>6 DEF Agents
<1>10. \A v \in Wants : Served(v)' <=> Served(v)
  BY <1>1, <1>9 DEF Served
<1>11. \A q \in Callers : /\ mine'[q] # NoWant => mine'[q] = mine[q] /\ pc'[q] \in {"wait", "cancel"}
                          /\ pc'[q] = "wait" => pc[q] = "wait"
                          /\ mine'[q] = mine[q] \/ mine[q] = w
  BY <1>1, <1>2, <1>6, <1>7, <1>8 DEF Waiters, Owners, Agents
<1>12. connsLock' = NoAgent => sel' = NoWant
  BY <1>1 DEF Waiters, Owners, Unlocked
<1> QED
  BY <1>1, <1>3, <1>9, <1>10, <1>11, <1>12, WaitersAnswer

\* cancel marks the wantConn, whatever had been delivered to it.
LEMMA WaitersCancel ==
  ASSUME Waiters, Coherent', NEW p \in Callers, Cancel(p)
  PROVE  Waiters'
<1>1. /\ pc[p] = "cancel" /\ UNCHANGED <<connsWait, sel, connsLock>>
      /\ want' = [want EXCEPT ![mine[p]] = [ready |-> TRUE, conn |-> NoConn, err |-> TRUE]]
      /\ mine' = [mine EXCEPT ![p] = NoWant]
  BY DEF Cancel
<1>2. PICK w \in Wants : w = mine[p]
  BY <1>1 DEF Waiters, Coherent, LockCoherent, TypeOK
<1>3. ~Deliverable(w)' /\ \A v \in Wants : v # w => want'[v] = want[v]
  BY <1>1, <1>2 DEF Waiters, Coherent, TypeOK, Deliverable
<1>4. p \in Agents /\ p \notin Wants
  BY HostClientAssumption DEF Agents
<1>5. pc' = [pc EXCEPT ![p] = "release"] \/ pc' = [pc EXCEPT ![p] = "idle"]
  BY DEF Cancel, Goto
<1>6. (\A b \in Agents : b # p => pc'[b] = pc[b]) /\ pc'[p] # "wait"
  BY <1>4, <1>5 DEF Waiters, Coherent, TypeOK
<1>7. (\A q \in Callers : q # p => mine'[q] = mine[q]) /\ mine'[p] = NoWant
  BY <1>1 DEF Waiters, Coherent, TypeOK
<1>8. \A v \in Wants : pc'[v] = pc[v]
  BY <1>4, <1>6 DEF Agents
<1>9. \A v \in Wants : Served(v)' <=> Served(v)
  BY <1>1, <1>8 DEF Served
<1>10. \A q \in Callers : /\ mine'[q] # NoWant => mine'[q] = mine[q] /\ pc'[q] \in {"wait", "cancel"}
                          /\ pc'[q] = "wait" => pc[q] = "wait"
                          /\ mine'[q] = mine[q] \/ mine[q] = w
  BY <1>1, <1>2, <1>6, <1>7 DEF Waiters, Owners, Agents
<1>11. connsLock' = NoAgent => sel' = NoWant
  BY <1>1 DEF Waiters, Owners, Unlocked
<1> QED
  BY <1>1, <1>3, <1>8, <1>9, <1>10, <1>11, WaitersAnswer

\* dialConnFor delivers its connection or its error.
LEMMA WaitersDialer ==
  ASSUME Waiters, Coherent', NEW w \in Wants, DialerNext(w)
  PROVE  Waiters'
<1>1. pc[w] \in {"deliver", "deliverErr"} /\ UNCHANGED <<connsWait, mine, sel, connsLock>>
  BY DEF DialerNext, DialerDeliver, DialerDeliverErr
<1>2. /\ want' = want \/ ~Deliverable(w)'
      /\ \A v \in Wants : v # w => want'[v] = want[v]
      /\ ~Deliverable(w)'
  <2>1. CASE DialerDeliver(w)
    <3>1. cur[w] \in Conns
      BY <2>1 DEF DialerDeliver, Waiters, Coherent, AgentsCoherent, Holding, Agents
    <3> QED
      BY <2>1, <3>1, HostClientAssumption
         DEF DialerDeliver, Delivered, Deliverable, Waiters, Coherent, TypeOK
  <2>2. CASE DialerDeliverErr(w)
    BY <2>2 DEF DialerDeliverErr, Deliverable, Waiters, Coherent, TypeOK
  <2> QED
    BY <2>1, <2>2 DEF DialerNext
<1>3. \A b \in Agents : b # w => pc'[b] = pc[b]
  BY DEF DialerNext, DialerDeliver, DialerDeliverErr, Goto, Waiters, Coherent, TypeOK
<1>4. \A q \in Callers : q \in Agents /\ q # w /\ pc'[q] = pc[q]
  BY <1>3, HostClientAssumption DEF Agents
<1>5. \A v \in Wants : v # w => pc'[v] = pc[v]
  BY <1>3 DEF Agents
<1>6. \A v \in Wants : pc[v] = "idle" => pc'[v] = "idle"
  BY <1>1, <1>5
<1>7. \A v \in Wants : v # w => (Served(v)' <=> Served(v))
  BY <1>1, <1>5 DEF Served
<1>8. Served(w)
  BY <1>1 DEF Served
<1>9. \A q \in Callers : mine[q] # NoWant => pc'[q] \in {"wait", "cancel"}
  BY <1>4 DEF Waiters, Owners
<1>10. connsLock' = NoAgent => sel' = NoWant
  BY <1>1 DEF Waiters, Owners, Unlocked
<1> QED
  BY <1>1, <1>2, <1>4, <1>6, <1>7, <1>8, <1>9, <1>10, WaitersAnswer

\* releaseConn gives its connection to the wantConn it popped.
LEMMA WaitersReleased ==
  ASSUME Waiters, Coherent', NEW a \in Callers \cup Wants, ReleaseDeliver(a)
  PROVE  Waiters'
<1>1. /\ pc[a] = "releasing" /\ UNCHANGED <<connsWait, mine>>
      /\ pc' = [pc EXCEPT ![a] = AfterAttempt(a)] /\ sel' = NoWant
  BY DEF ReleaseDeliver, Goto
<1>2. a \in Agents /\ cur[a] \in Conns /\ connsLock = a /\ connsLock # NoAgent
  BY <1>1, HostClientAssumption DEF Agents, Waiters, Coherent, AgentsCoherent, LockCoherent, Holding
<1>3. PICK w \in Wants : w = sel
  BY <1>2 DEF Waiters, Coherent, LockCoherent, TypeOK
<1>4. /\ \A v \in Wants : v # w => want'[v] = want[v]
      /\ ~Deliverable(w)'
  BY <1>2, <1>3, HostClientAssumption
     DEF ReleaseDeliver, Delivered, Deliverable, Waiters, Coherent, TypeOK
<1>5. AfterAttempt(a) \in {"idle", "acquire"} /\ (a \in Wants => AfterAttempt(a) = "idle")
  BY HostClientAssumption DEF AfterAttempt
<1>6. \A b \in Agents : pc'[b] = IF b = a THEN AfterAttempt(a) ELSE pc[b]
  BY <1>1 DEF Waiters, Coherent, TypeOK
<1>7. \A v \in Wants : /\ pc[v] = "idle" => pc'[v] = "idle"
                       /\ pc'[v] \in {"dial", "deliver", "deliverErr"}
                            <=> pc[v] \in {"dial", "deliver", "deliverErr"}
  BY <1>1, <1>5, <1>6 DEF Agents
<1>8. \A v \in Wants : Served(v)' => Served(v)
  BY <1>1, <1>7, HostClientAssumption DEF Served
<1>9. \A v \in Wants : v # w /\ Served(v) => Served(v)'
  BY <1>1, <1>3, <1>7 DEF Served
<1>10. \A q \in Callers : /\ mine[q] # NoWant => pc'[q] \in {"wait", "cancel"}
                          /\ pc'[q] = "wait" => pc[q] = "wait"
  BY <1>1, <1>5, <1>6 DEF Waiters, Owners, Agents
<1> QED
  BY <1>1, <1>4, <1>7, <1>8, <1>9, <1>10, WaitersAnswer

\* releaseConn pops the wantConn it will answer, or finds nobody that waits.
LEMMA WaitersRelease ==
  ASSUME Waiters, Coherent', NEW a \in Callers \cup Wants, ReleaseConn(a)
  PROVE  Waiters'
<1>1. pc[a] = "release" /\ UNCHANGED <<want, mine>> /\ sel = NoWant /\ a \in Agents
  BY DEF ReleaseConn, Waiters, Owners, Agents
<1>2. \A w \in Wants : w \in Agents
  BY DEF Agents
<1>3. \A p \in Callers : p \in Agents /\ (mine[p] # NoWant => pc[p] \in {"wait", "cancel"})
  BY DEF Agents, Waiters, Owners
<1>4. NoDuplicate(connsWait) /\ \A w \in Elems(connsWait) : w \in Wants /\ pc[w] = "idle"
  BY DEF Waiters, QueueOnce, Coherent, TypeOK, Elems
<1>5. a \notin Elems(connsWait)
  BY <1>1, <1>4
<1>6. \A w \in Wants : want'[w] = want[w] /\ (Deliverable(w)' <=> Deliverable(w))
  BY <1>1 DEF Deliverable
<1>7. CASE /\ ~Waiting \/ NoneWaiting
           /\ connsWait' = IF Waiting THEN <<>> ELSE connsWait
           /\ pc' = [pc EXCEPT ![a] = AfterAttempt(a)]
           /\ UNCHANGED <<connsLock, sel>>
  <2>1. \/ connsWait' = connsWait
        \/ connsWait' = <<>> /\ \A w \in Elems(connsWait) : ~Deliverable(w)
    BY <1>7, QueueEmpty
  <2>2. NoDuplicate(connsWait') /\ Elems(connsWait') \subseteq Elems(connsWait)
    BY <1>4, <2>1 DEF NoDuplicate, Elems
  <2>3. AfterAttempt(a) \in {"idle", "acquire"}
    BY HostClientAssumption DEF AfterAttempt
  <2>4. \A b \in Agents : pc'[b] = IF b = a THEN AfterAttempt(a) ELSE pc[b]
    BY <1>7 DEF Waiters, Coherent, TypeOK
  <2>5. \A w \in Elems(connsWait') : pc'[w] = "idle"
    BY <1>2, <1>4, <1>5, <2>2, <2>4
  <2>6. \A w \in Wants : pc'[w] \in {"dial", "deliver", "deliverErr"}
                           <=> pc[w] \in {"dial", "deliver", "deliverErr"}
    BY <1>1, <1>2, <2>3, <2>4
  <2>7. \A w \in Wants : Served(w)' => Served(w)
    BY <1>7, <2>2, <2>6 DEF Served
  <2>8. \A w \in Wants : Served(w) /\ Deliverable(w)' => Served(w)'
    BY <1>6, <1>7, <2>1, <2>6 DEF Served
  <2>9. \A p \in Callers : /\ mine[p] # NoWant => pc'[p] \in {"wait", "cancel"}
                           /\ pc'[p] = "wait" => pc[p] = "wait"
    BY <1>1, <1>3, <2>3, <2>4
  <2>10. connsLock' = NoAgent => sel' = NoWant
    BY <1>1, <1>7
  <2> QED
    BY <1>1, <1>6, <2>2, <2>5, <2>7, <2>8, <2>9, <2>10, WaitersStep
<1>8. CASE /\ Waiting /\ ~NoneWaiting /\ sel' = FirstWaiting
           /\ connsWait' = AfterFirstWaiting /\ connsLock' = a
           /\ pc' = [pc EXCEPT ![a] = "releasing"]
  <2>1. PICK f \in Wants : f = FirstWaiting
    BY <1>8, QueuePop
  <2>2. /\ f \in Elems(connsWait) /\ NoDuplicate(connsWait') /\ sel' = f
        /\ Elems(connsWait') \subseteq Elems(connsWait) \ {f}
        /\ \A w \in Elems(connsWait) : w = f \/ w \in Elems(connsWait') \/ ~Deliverable(w)
    BY <1>8, <2>1, QueuePop
  <2>3. \A b \in Agents : pc'[b] = IF b = a THEN "releasing" ELSE pc[b]
    BY <1>8 DEF Waiters, Coherent, TypeOK
  <2>4. \A w \in Elems(connsWait') : pc'[w] = "idle"
    BY <1>2, <1>4, <1>5, <2>2, <2>3
  <2>5. \A w \in Wants : pc'[w] \in {"dial", "deliver", "deliverErr"}
                           <=> pc[w] \in {"dial", "deliver", "deliverErr"}
    BY <1>1, <1>2, <2>3
  <2>6. Served(f) /\ Served(f)'
    BY <2>2 DEF Served
  <2>7. \A w \in Wants : Served(w)' => Served(w)
    BY <2>2, <2>5, <2>6 DEF Served
  <2>8. \A w \in Wants : Served(w) /\ Deliverable(w)' => Served(w)'
    BY <1>1, <1>6, <2>2, <2>5, <2>6, HostClientAssumption DEF Served
  <2>9. \A p \in Callers : /\ mine[p] # NoWant => pc'[p] \in {"wait", "cancel"}
                           /\ pc'[p] = "wait" => pc[p] = "wait"
    BY <1>1, <1>3, <2>3
  <2>10. connsLock' # NoAgent
    BY <1>1, <1>8, HostClientAssumption
  <2> QED
    BY <1>1, <1>6, <2>2, <2>4, <2>7, <2>8, <2>9, <2>10, WaitersStep
<1> QED
  BY <1>7, <1>8 DEF ReleaseConn, Goto

\* The initial state.
LEMMA InitWaiters == Init => Waiters
<1> SUFFICES ASSUME Init PROVE Waiters
  OBVIOUS
<1>1. Coherent
  BY InitCoherent
<1>2. Answers
  BY DEF Init, Answers, Unset
<1>3. Elems(connsWait) = {} /\ NoDuplicate(connsWait)
  BY DEF Init, Elems, NoDuplicate
<1>4. \A w \in Wants : ~Served(w)
  BY <1>3, HostClientAssumption DEF Init, Served, Agents
<1>5. QueueOnce /\ Owners
  BY <1>3, <1>4 DEF Init, QueueOnce, Owners
<1>6. NoWaiterDropped
  BY DEF Init, NoWaiterDropped, Agents
<1> QED
  BY <1>1, <1>2, <1>5, <1>6 DEF Waiters

\* Every step takes care of the waiters.
LEMMA NextWaiters == Waiters /\ [Next]_vars => Waiters'
<1> SUFFICES ASSUME Waiters, [Next]_vars PROVE Waiters'
  OBVIOUS
<1>0. Coherent'
  BY NextCoherent DEF Waiters
<1>1. ASSUME NEW p \in Callers, CallerNext(p) PROVE Waiters'
  <2>1. CASE CloseDec(p)
    <3>1. /\ pc[p] = "close" /\ UNCHANGED <<want, mine, sel, connsLock>> /\ p \in Agents
          /\ DecConnsCount([pc EXCEPT ![p] = "netclose"], cur, [place EXCEPT ![cur[p]] = "closing"])
      BY <2>1 DEF CloseDec, Agents
    <3> QED
      BY <1>0, <3>1, WaitersGiveUp
  <2> QED
    BY <1>0, <1>1, <2>1, WaitersCaller, WaitersCreate, WaitersQueue, WaitersReady, WaitersCancel
       DEF CallerNext
<1>2. ASSUME NEW w \in Wants, DialerNext(w) PROVE Waiters'
  BY <1>0, <1>2, WaitersDialer
<1>3. ASSUME NEW a \in Callers \cup Wants, DialNext(a) \/ ReleaseNext(a) PROVE Waiters'
  <2>1. CASE DecAfterDialFail(a)
    <3>1. /\ pc[a] = "dialfailed" /\ UNCHANGED <<want, mine, sel, connsLock>> /\ a \in Agents
          /\ DecConnsCount([pc EXCEPT ![a] = "idle"], [cur EXCEPT ![a] = NoConn],
                           [place EXCEPT ![cur[a]] = "free"])
      BY <2>1 DEF DecAfterDialFail, Agents
    <3> QED
      BY <1>0, <3>1, WaitersGiveUp
  <2> QED
    BY <1>0, <1>3, <2>1, WaitersDial, WaitersRelease, WaitersReleased DEF DialNext, ReleaseNext
<1>4. CASE CleanerNext
  <2>1. Cleaner \in Sweepers /\ Len(conns) \in Nat
    BY DEF Sweepers, Waiters, Coherent, TypeOK
  <2> QED
    BY <1>0, <1>4, <2>1, WaitersSweeper DEF CleanerNext, Collect
<1>5. ASSUME NEW a \in Closers, CloseIdleConnections(a) \/ CloserDone(a) PROVE Waiters'
  <2>1. a \in Sweepers /\ Len(conns) \in Nat
    BY DEF Sweepers, Waiters, Coherent, TypeOK
  <2> QED
    BY <1>0, <1>5, <2>1, WaitersSweeper DEF CloseIdleConnections
<1>6. ASSUME NEW a \in Sweepers, ScratchDec(a) PROVE Waiters'
  <2>1. /\ pc[a] = "sweep" /\ UNCHANGED <<want, mine, sel, connsLock>> /\ a \in Agents
        /\ \E cs, pl : DecConnsCount([pc EXCEPT ![a] = "netclose"], cs, pl)
    BY <1>6 DEF ScratchDec, Agents, Sweepers
  <2> QED
    BY <1>0, <2>1, WaitersGiveUp
<1>7. ASSUME NEW a \in Callers \cup Sweepers, NetClose(a) PROVE Waiters'
  BY <1>0, <1>7, WaitersSweeper
<1>8. CASE (\E m \in MaxConnsValues : SetMaxConns(m)) \/ UNCHANGED vars
  <2>1. UNCHANGED <<want, connsWait, mine, sel, connsLock, pc>>
    BY <1>8 DEF SetMaxConns, vars
  <2>2. \A p \in Callers : mine[p] # NoWant => pc[p] \in {"wait", "cancel"}
    BY DEF Waiters, Owners
  <2> QED
    BY <1>0, <2>1, <2>2, WaitersApart
<1> QED
  BY <1>1, <1>2, <1>3, <1>4, <1>5, <1>6, <1>7, <1>8 DEF Next

\* No waiter is dropped: whoever waits in acquireConn is queued, dialled for
\* or about to be delivered to, in every interleaving of releases, closes,
\* failed dials, time-outs and cancellations.
THEOREM ClientNoWaiterDropped == Spec => []NoWaiterDropped
<1>1. Waiters => NoWaiterDropped
  BY DEF Waiters
<1> QED
  BY <1>1, InitWaiters, NextWaiters, PTL DEF Spec

-----------------------------------------------------------------------------
(* Connections that are open are within somebody's reach.                  *)

InHand(k) == \E a \in Agents : cur[a] = k
InPool(k) == k \in Elems(conns)
InWant(k) == \E w \in Wants : Owned(w) /\ want[w].conn = k
InScratch(k) == \E a \in Sweepers : k \in Elems(scratch[a])
Reached(k) == InHand(k) \/ InPool(k) \/ InWant(k) \/ InScratch(k)

\* The inductive invariant behind NoConnForgotten.
Located == \A k \in Conns : place[k] # "free" => Reached(k)

\* Whatever can be reached is referred to.
LEMMA ReachedRefs ==
  ASSUME NEW k \in Conns, Reached(k)
  PROVE  Refs(k) # {}
<1>1. CASE InHand(k)
  BY <1>1 DEF InHand, Refs
<1>2. CASE InPool(k)
  <2>1. PICK i \in DOMAIN conns : conns[i] = k
    BY <1>2 DEF InPool, Elems
  <2>2. <<"idle", Cleaner, i>> \in {<<"idle", Cleaner, j>> : j \in {l \in DOMAIN conns : conns[l] = k}}
    BY <2>1
  <2> QED
    BY <2>2 DEF Refs
<1>3. CASE InWant(k)
  BY <1>3 DEF InWant, Refs
<1>4. CASE InScratch(k)
  <2>1. PICK a \in Sweepers : k \in Elems(scratch[a])
    BY <1>4 DEF InScratch
  <2>2. PICK i \in DOMAIN scratch[a] : scratch[a][i] = k
    BY <2>1 DEF Elems
  <2>3. <<"scratch", a, i>> \in {<<"scratch", a, j>> : j \in {l \in DOMAIN scratch[a] : scratch[a][l] = k}}
    BY <2>2
  <2>4. <<"scratch", a, i>> \in
          UNION {{<<"scratch", b, j>> : j \in {l \in DOMAIN scratch[b] : scratch[b][l] = k}} :
                 b \in Sweepers}
    BY <2>2, <2>3
  <2> QED
    BY <2>4 DEF Refs
<1> QED
  BY <1>1, <1>2, <1>3, <1>4 DEF Reached

\* Agent a may lose what it had in hand, nobody else does.
LEMMA HandsKept ==
  ASSUME TypeOK, NEW a \in Agents, NEW x, cur' = [cur EXCEPT ![a] = x]
  PROVE  /\ \A k \in Conns : InHand(k) /\ cur[a] # k => InHand(k)'
         /\ x \in Conns => InHand(x)'
<1>1. cur'[a] = x /\ \A b \in Agents : b # a => cur'[b] = cur[b]
  BY DEF TypeOK
<1> QED
  BY <1>1 DEF InHand

\* A step that leaves the pool, the answers and the scratch lists alone and
\* puts every connection it opens in somebody's hand.
LEMMA LocatedHands ==
  ASSUME Waiters, Located, UNCHANGED <<conns, want, mine, scratch>>,
         \A k \in Conns : InHand(k) /\ place'[k] # "free" => InHand(k)',
         \A k \in Conns : place[k] = "free" /\ place'[k] # "free" => InHand(k)'
  PROVE  Located'
<1>1. \A k \in Conns : /\ InPool(k)' <=> InPool(k)
                       /\ InWant(k)' <=> InWant(k)
                       /\ InScratch(k)' <=> InScratch(k)
  BY DEF InPool, InWant, Owned, InScratch
<1> QED
  BY <1>1 DEF Located, Reached

\* acquireConn takes an idle connection into its hand.
LEMMA LocatedAcquire ==
  ASSUME Waiters, Located, NEW p \in Callers, AcquireIdle(p)
  PROVE  Located'
<1>1. TypeOK /\ p \in Agents /\ cur[p] = NoConn
  BY DEF Waiters, Coherent, AgentsCoherent, AcquireIdle, Dialling, Holding, Agents
<1>2. PICK k \in Conns :
        /\ cur' = [cur EXCEPT ![p] = k] /\ place' = [place EXCEPT ![k] = "held"]
        /\ \A j \in Conns : j \in Elems(conns) /\ j # k => j \in Elems(conns')
        /\ place[k] = "idle"
  <2> DEFINE n == Len(conns)
  <2>1. conns \in Seq(Conns) /\ n \in Nat /\ n >= 1 /\ DOMAIN conns = 1..n
    BY <1>1 DEF AcquireIdle, TypeOK
  <2>2. CASE Lifo
    <3>1. /\ cur' = [cur EXCEPT ![p] = conns[n]] /\ place' = [place EXCEPT ![conns[n]] = "held"]
          /\ conns' = SubSeq(conns, 1, n - 1)
      BY <2>2 DEF AcquireIdle, Moves
    <3>2. conns[n] \in Conns /\ place[conns[n]] = "idle"
      BY <2>1 DEF Waiters, Coherent, PoolCoherent
    <3>3. \A i \in 1..(n - 1) : i \in DOMAIN conns' /\ conns'[i] = conns[i]
      BY <2>1, <3>1
    <3>4. \A j \in Conns : j \in Elems(conns) /\ j # conns[n] => j \in Elems(conns')
      <4> SUFFICES ASSUME NEW i \in DOMAIN conns, conns[i] # conns[n]
                   PROVE  conns[i] \in Elems(conns')
        BY DEF Elems
      <4>1. i \in 1..(n - 1)
        BY <2>1
      <4> QED
        BY <3>3, <4>1 DEF Elems
    <3> QED
      BY <3>1, <3>2, <3>4
  <2>3. CASE ~Lifo
    <3>1. /\ cur' = [cur EXCEPT ![p] = conns[1]] /\ place' = [place EXCEPT ![conns[1]] = "held"]
          /\ conns' = Tail(conns)
      BY <2>3 DEF AcquireIdle, Moves
    <3>2. conns[1] \in Conns /\ place[conns[1]] = "idle"
      BY <2>1 DEF Waiters, Coherent, PoolCoherent
    <3>3. \A i \in 2..n : i - 1 \in DOMAIN conns' /\ conns'[i - 1] = conns[i]
      BY <2>1, <3>1
    <3>4. \A j \in Conns : j \in Elems(conns) /\ j # conns[1] => j \in Elems(conns')
      <4> SUFFICES ASSUME NEW i \in DOMAIN conns, conns[i] # conns[1]
                   PROVE  conns[i] \in Elems(conns')
        BY DEF Elems
      <4>1. i \in 2..n
        BY <2>1
      <4> QED
        BY <3>3, <4>1 DEF Elems
    <3> QED
      BY <3>1, <3>2, <3>4
  <2> QED
    BY <2>2, <2>3
<1>3. InHand(k)' /\ \A j \in Conns : InHand(j) => InHand(j)'
  BY <1>1, <1>2, HandsKept, HostClientAssumption
<1>4. \A j \in Conns : j # k => place'[j] = place[j]
  BY <1>1, <1>2 DEF TypeOK
<1>5. UNCHANGED <<want, mine, scratch>>
  BY DEF AcquireIdle
<1>6. \A j \in Conns : (InWant(j) => InWant(j)') /\ (InScratch(j) => InScratch(j)')
  BY <1>5 DEF InWant, Owned, InScratch
<1>7. \A j \in Conns : j # k /\ InPool(j) => InPool(j)'
  BY <1>2 DEF InPool
<1> QED
  BY <1>3, <1>4, <1>6, <1>7 DEF Located, Reached

\* acquireConn reserves a slot and dials.
LEMMA LocatedCreate ==
  ASSUME Waiters, Located, NEW p \in Callers, AcquireCreate(p)
  PROVE  Located'
<1>1. TypeOK /\ p \in Agents /\ cur[p] = NoConn
  BY DEF Waiters, Coherent, AgentsCoherent, AcquireCreate, Dialling, Holding, Agents
<1>2. PICK k \in Conns : cur' = [cur EXCEPT ![p] = k] /\ place' = [place EXCEPT ![k] = "dialing"]
  BY DEF AcquireCreate, Moves
<1>3. InHand(k)' /\ \A j \in Conns : InHand(j) => InHand(j)'
  BY <1>1, <1>2, HandsKept, HostClientAssumption
<1>4. \A j \in Conns : j # k => place'[j] = place[j]
  BY <1>1, <1>2 DEF TypeOK
<1>5. UNCHANGED <<conns, want, mine, scratch>>
  BY DEF AcquireCreate
<1> QED
  BY <1>3, <1>4, <1>5, LocatedHands

\* A wantConn that is used again was out of everybody's reach.
LEMMA LocatedQueue ==
  ASSUME Waiters, Located, NEW p \in Callers, QueueForIdle(p)
  PROVE  Located'
<1>1. PICK w \in Wants : /\ Fresh(w) /\ want' = [want EXCEPT ![w] = Unset]
                         /\ mine' = [mine EXCEPT ![p] = w]
  BY DEF QueueForIdle
<1>2. UNCHANGED <<conns, cur, scratch, place>> /\ mine[p] = NoWant
  BY DEF QueueForIdle, Waiters, Owners
<1>3. ~Owned(w) /\ \A v \in Wants : v # w => want'[v] = want[v]
  BY <1>1 DEF Fresh, Owned, Waiters, Coherent, TypeOK
<1>4. \A q \in Callers : q # p => mine'[q] = mine[q]
  BY <1>1 DEF Waiters, Coherent, TypeOK
<1>5. \A v \in Wants : Owned(v) => Owned(v)' /\ v # w
  <2> SUFFICES ASSUME NEW v \in Wants, Owned(v) PROVE Owned(v)' /\ v # w
    OBVIOUS
  <2>1. PICK q \in Callers : mine[q] = v
    BY DEF Owned
  <2>2. q # p
    BY <1>2, <2>1, HostClientAssumption
  <2> QED
    BY <1>3, <1>4, <2>1, <2>2 DEF Owned
<1>6. \A k \in Conns : InWant(k) => InWant(k)'
  BY <1>3, <1>5 DEF InWant
<1>7. \A k \in Conns : (InHand(k) => InHand(k)') /\ (InPool(k) => InPool(k)') /\ (InScratch(k) => InScratch(k)')
  BY <1>2 DEF InHand, InPool, InScratch
<1> QED
  BY <1>2, <1>6, <1>7 DEF Located, Reached

\* A caller that gives up its wantConn takes the connection in it along.
LEMMA LocatedTaken ==
  ASSUME Waiters, Located, NEW p \in Callers, NEW w \in Wants, mine[p] = w,
         cur[p] = NoConn, mine' = [mine EXCEPT ![p] = NoWant],
         \A v \in Wants : v # w => want'[v] = want[v],
         UNCHANGED <<conns, scratch>>,
         \/ /\ want[w].conn = NoConn /\ UNCHANGED <<cur, place>>
         \/ /\ want[w].conn # NoConn
            /\ cur' = [cur EXCEPT ![p] = want[w].conn]
            /\ place' = [place EXCEPT ![want[w].conn] = "held"]
  PROVE  Located'
<1>1. TypeOK /\ p \in Agents
  BY DEF Waiters, Coherent, Agents
<1>2. \A q \in Callers : q # p => mine'[q] = mine[q]
  BY <1>1 DEF TypeOK
<1>3. \A v \in Wants : v # w /\ Owned(v) => Owned(v)'
  <2> SUFFICES ASSUME NEW v \in Wants, v # w, Owned(v) PROVE Owned(v)'
    OBVIOUS
  <2>1. PICK q \in Callers : mine[q] = v
    BY DEF Owned
  <2>2. q # p
    BY <2>1
  <2> QED
    BY <1>2, <2>1, <2>2 DEF Owned
<1>4. \A k \in Conns : InWant(k) /\ want[w].conn # k => InWant(k)'
  BY <1>3 DEF InWant
<1>5. \A k \in Conns : (InPool(k) => InPool(k)') /\ (InScratch(k) => InScratch(k)')
  BY DEF InPool, InScratch
<1>6. CASE want[w].conn = NoConn /\ UNCHANGED <<cur, place>>
  <2>1. \A k \in Conns : (InHand(k) => InHand(k)') /\ want[w].conn # k
    BY <1>6, HostClientAssumption DEF InHand
  <2> QED
    BY <1>4, <1>5, <1>6, <2>1 DEF Located, Reached
<1>7. CASE /\ want[w].conn # NoConn
           /\ cur' = [cur EXCEPT ![p] = want[w].conn]
           /\ place' = [place EXCEPT ![want[w].conn] = "held"]
  <2>1. PICK k \in Conns : k = want[w].conn
    BY <1>1, <1>7 DEF TypeOK
  <2>2. InHand(k)' /\ \A j \in Conns : InHand(j) => InHand(j)'
    BY <1>1, <1>7, <2>1, HandsKept, HostClientAssumption
  <2>3. \A j \in Conns : j # k => place'[j] = place[j]
    BY <1>1, <1>7, <2>1 DEF TypeOK
  <2> QED
    BY <1>4, <1>5, <2>1, <2>2, <2>3 DEF Located, Reached
<1> QED
  BY <1>6, <1>7

\* The select receives an answer.
LEMMA LocatedReady ==
  ASSUME Waiters, Located, NEW p \in Callers, WaitReady(p)
  PROVE  Located'
<1>1. pc[p] = "wait" /\ cur[p] = NoConn
  BY DEF WaitReady, Waiters, Coherent, AgentsCoherent, Dialling, Holding, Agents
<1>2. PICK w \in Wants : w = mine[p]
  BY <1>1 DEF Waiters, Coherent, LockCoherent, TypeOK
<1>3. CASE want[w].conn # NoConn
  <2>1. /\ cur' = [cur EXCEPT ![p] = want[w].conn] /\ mine' = [mine EXCEPT ![p] = NoWant]
        /\ place' = [place EXCEPT ![want[w].conn] = "held"]
        /\ UNCHANGED <<conns, scratch, want>>
    BY <1>2, <1>3 DEF WaitReady, Moves
  <2> QED
    BY <1>1, <1>2, <1>3, <2>1, LocatedTaken
<1>4. CASE want[w].conn = NoConn
  <2>1. UNCHANGED <<conns, cur, want, mine, scratch, place>>
    BY <1>2, <1>4 DEF WaitReady
  <2>2. \A k \in Conns : InHand(k) => InHand(k)'
    BY <2>1 DEF InHand
  <2> QED
    BY <2>1, <2>2, LocatedHands
<1> QED
  BY <1>3, <1>4

\* cancel gives back what was delivered.
LEMMA LocatedCancel ==
  ASSUME Waiters, Located, NEW p \in Callers, Cancel(p)
  PROVE  Located'
<1>1. pc[p] = "cancel" /\ cur[p] = NoConn
  BY DEF Cancel, Waiters, Coherent, AgentsCoherent, Dialling, Holding, Agents
<1>2. PICK w \in Wants : w = mine[p]
  BY <1>1 DEF Waiters, Coherent, LockCoherent, TypeOK
<1>3. \A v \in Wants : v # w => want'[v] = want[v]
  BY <1>2 DEF Cancel, Waiters, Coherent, TypeOK
<1>4. mine' = [mine EXCEPT ![p] = NoWant] /\ UNCHANGED <<conns, scratch>>
  BY DEF Cancel
<1>5. \/ /\ want[w].conn = NoConn /\ UNCHANGED <<cur, place>>
      \/ /\ want[w].conn # NoConn
         /\ cur' = [cur EXCEPT ![p] = want[w].conn]
         /\ place' = [place EXCEPT ![want[w].conn] = "held"]
  BY <1>2 DEF Cancel, Moves
<1> QED
  BY <1>1, <1>2, <1>3, <1>4, <1>5, LocatedTaken

\* A connection is delivered to a wantConn some caller waits on.
LEMMA LocatedDelivered ==
  ASSUME Waiters, Located, NEW a \in Agents, NEW w \in Wants, Owned(w), Deliverable(w),
         cur[a] \in Conns, want' = Delivered(w, cur[a]), cur' = [cur EXCEPT ![a] = NoConn],
         place' = [place EXCEPT ![cur[a]] = "delivered"], UNCHANGED <<conns, mine, scratch>>
  PROVE  Located'
<1>1. TypeOK
  BY DEF Waiters, Coherent
<1>2. PICK k \in Conns : k = cur[a]
  OBVIOUS
<1>3. want'[w].conn = k /\ \A v \in Wants : v # w => want'[v] = want[v]
  BY <1>1, <1>2 DEF Delivered, TypeOK
<1>4. \A v \in Wants : Owned(v)' <=> Owned(v)
  BY DEF Owned
<1>5. InWant(k)' /\ \A j \in Conns : InWant(j) => InWant(j)'
  BY <1>3, <1>4, HostClientAssumption DEF InWant, Deliverable
<1>6. \A j \in Conns : InHand(j) /\ j # k => InHand(j)'
  BY <1>1, <1>2, HandsKept
<1>7. \A j \in Conns : j # k => place'[j] = place[j]
  BY <1>1, <1>2 DEF TypeOK
<1>8. \A j \in Conns : (InPool(j) => InPool(j)') /\ (InScratch(j) => InScratch(j)')
  BY DEF InPool, InScratch
<1> QED
  BY <1>5, <1>6, <1>7, <1>8 DEF Located, Reached

\* A connection goes back to the pool.
LEMMA LocatedPooled ==
  ASSUME Waiters, Located, NEW a \in Agents, cur[a] \in Conns,
         conns' = Append(conns, cur[a]), cur' = [cur EXCEPT ![a] = NoConn],
         place' = [place EXCEPT ![cur[a]] = "idle"], UNCHANGED <<want, mine, scratch>>
  PROVE  Located'
<1>1. TypeOK
  BY DEF Waiters, Coherent
<1>2. PICK k \in Conns : k = cur[a]
  OBVIOUS
<1>3. InPool(k)' /\ \A j \in Conns : InPool(j) => InPool(j)'
  <2>1. conns \in Seq(Conns) /\ Len(conns) \in Nat /\ DOMAIN conns = 1..Len(conns)
    BY <1>1 DEF TypeOK
  <2>2. /\ DOMAIN conns' = 1..(Len(conns) + 1) /\ conns'[Len(conns) + 1] = k
        /\ \A i \in DOMAIN conns : conns'[i] = conns[i] /\ i \in DOMAIN conns'
    BY <1>2, <2>1
  <2>3. Len(conns) + 1 \in DOMAIN conns'
    BY <2>1, <2>2
  <2> QED
    BY <2>2, <2>3 DEF InPool, Elems
<1>4. \A j \in Conns : InHand(j) /\ j # k => InHand(j)'
  BY <1>1, <1>2, HandsKept
<1>5. \A j \in Conns : j # k => place'[j] = place[j]
  BY <1>1, <1>2 DEF TypeOK
<1>6. \A j \in Conns : (InWant(j) => InWant(j)') /\ (InScratch(j) => InScratch(j)')
  BY DEF InWant, Owned, InScratch
<1> QED
  BY <1>3, <1>4, <1>5, <1>6 DEF Located, Reached

\* dialConnFor and releaseConn hand a connection on, or keep it.
LEMMA LocatedHandOn ==
  ASSUME Waiters, Located, NEW a \in Callers \cup Wants,
         (a \in Wants /\ DialerNext(a)) \/ ReleaseNext(a)
  PROVE  Located'
<1>1. a \in Agents
  BY DEF Agents
<1>2. ASSUME UNCHANGED <<conns, cur, mine, scratch, place>>,
             \A w \in Wants : want'[w].conn = want[w].conn
      PROVE  Located'
  <2>1. \A j \in Conns : /\ InHand(j) => InHand(j)'
                         /\ InPool(j) => InPool(j)'
                         /\ InWant(j) => InWant(j)'
                         /\ InScratch(j) => InScratch(j)'
    BY <1>2 DEF InHand, InPool, InWant, Owned, InScratch
  <2> QED
    BY <1>2, <2>1 DEF Located, Reached
<1>3. ASSUME a \in Wants, DialerDeliver(a) PROVE Located'
  <2>1. cur[a] \in Conns /\ pc[a] = "deliver"
    BY <1>1, <1>3 DEF DialerDeliver, Waiters, Coherent, AgentsCoherent, Holding
  <2>2. CASE Deliverable(a)
    <3>1. Owned(a)
      BY <1>3, <2>1, <2>2 DEF Waiters, Owners, Served
    <3>2. /\ want' = Delivered(a, cur[a]) /\ cur' = [cur EXCEPT ![a] = NoConn]
          /\ place' = [place EXCEPT ![cur[a]] = "delivered"] /\ UNCHANGED <<conns, mine, scratch>>
      BY <1>3, <2>2 DEF DialerDeliver, Moves
    <3> QED
      BY <1>1, <1>3, <2>1, <2>2, <3>1, <3>2, LocatedDelivered
  <2>3. CASE ~Deliverable(a)
    <3>1. UNCHANGED <<conns, cur, want, mine, scratch, place>>
      BY <1>3, <2>3 DEF DialerDeliver
    <3> QED
      BY <1>2, <3>1
  <2> QED
    BY <2>2, <2>3
<1>4. ASSUME a \in Wants, DialerDeliverErr(a) PROVE Located'
  <2>1. UNCHANGED <<conns, cur, mine, scratch, place>>
    BY <1>4 DEF DialerDeliverErr
  <2>2. \A w \in Wants : want'[w].conn = want[w].conn
    BY <1>4 DEF DialerDeliverErr, Deliverable, Waiters, Coherent, TypeOK
  <2> QED
    BY <1>2, <2>1, <2>2
<1>5. CASE ReleaseConn(a)
  <2>1. cur[a] \in Conns
    BY <1>1, <1>5 DEF ReleaseConn, Waiters, Coherent, AgentsCoherent, Holding
  <2>2. CASE ~Waiting \/ NoneWaiting
    <3>1. /\ conns' = Append(conns, cur[a]) /\ cur' = [cur EXCEPT ![a] = NoConn]
          /\ place' = [place EXCEPT ![cur[a]] = "idle"] /\ UNCHANGED <<want, mine, scratch>>
      BY <1>5, <2>2 DEF ReleaseConn, Moves
    <3> QED
      BY <1>1, <2>1, <3>1, LocatedPooled
  <2>3. CASE Waiting /\ ~NoneWaiting
    <3>1. UNCHANGED <<conns, cur, want, mine, scratch, place>>
      BY <1>5, <2>3 DEF ReleaseConn
    <3> QED
      BY <1>2, <3>1
  <2> QED
    BY <2>2, <2>3
<1>6. CASE ReleaseDeliver(a)
  <2>1. cur[a] \in Conns /\ connsLock = a /\ connsLock # NoAgent
    BY <1>1, <1>6, HostClientAssumption
       DEF ReleaseDeliver, Waiters, Coherent, AgentsCoherent, LockCoherent, Holding
  <2>2. PICK w \in Wants : w = sel
    BY <2>1 DEF Waiters, Coherent, LockCoherent, TypeOK
  <2>3. CASE Deliverable(w)
    <3>1. Owned(w)
      BY <2>2, <2>3 DEF Waiters, Owners, Served
    <3>2. /\ want' = Delivered(w, cur[a]) /\ cur' = [cur EXCEPT ![a] = NoConn]
          /\ place' = [place EXCEPT ![cur[a]] = "delivered"] /\ UNCHANGED <<conns, mine, scratch>>
      BY <1>6, <2>2, <2>3 DEF ReleaseDeliver, Moves
    <3> QED
      BY <1>1, <2>1, <2>3, <3>1, <3>2, LocatedDelivered
  <2>4. CASE ~Deliverable(w)
    <3>1. /\ conns' = Append(conns, cur[a]) /\ cur' = [cur EXCEPT ![a] = NoConn]
          /\ place' = [place EXCEPT ![cur[a]] = "idle"] /\ UNCHANGED <<want, mine, scratch>>
      BY <1>6, <2>2, <2>4 DEF ReleaseDeliver, Moves
    <3> QED
      BY <1>1, <2>1, <3>1, LocatedPooled
  <2> QED
    BY <2>3, <2>4
<1> QED
  BY <1>3, <1>4, <1>5, <1>6 DEF DialerNext, ReleaseNext

\* decConnsCount puts the connection it lets a dialConnFor open in its hand,
\* and takes nothing out of a hand.
LEMMA GiveUpHands ==
  ASSUME Waiters, NEW pcs, NEW cs \in [Agents -> Conns \cup {NoConn}],
         NEW pl \in [Conns -> Places], DecConnsCount(pcs, cs, pl),
         \A w \in Wants : pc[w] = "idle" => cs[w] = NoConn
  PROVE  /\ \A k \in Conns : (\E b \in Agents : cs[b] = k) => InHand(k)'
         /\ \A k \in Conns : place'[k] = pl[k] \/ InHand(k)'
<1>1. CASE cur' = cs /\ place' = pl
  BY <1>1 DEF InHand
<1>2. CASE /\ ~NoneWaiting
           /\ \E k \in Conns : /\ cur' = [cs EXCEPT ![FirstWaiting] = k]
                               /\ place' = [pl EXCEPT ![k] = "dialing"]
  <2>1. PICK k \in Conns : /\ cur' = [cs EXCEPT ![FirstWaiting] = k]
                           /\ place' = [pl EXCEPT ![k] = "dialing"]
    BY <1>2
  <2>2. PICK f \in Wants : f = FirstWaiting /\ f \in Elems(connsWait)
    BY <1>2, QueuePop
  <2>3. f \in Agents /\ cs[f] = NoConn
    BY <2>2 DEF Waiters, QueueOnce, Agents
  <2>4. cur'[f] = k /\ \A b \in Agents : b # f => cur'[b] = cs[b]
    BY <2>1, <2>2, <2>3
  <2>5. InHand(k)' /\ \A j \in Conns : (\E b \in Agents : cs[b] = j) => InHand(j)'
    BY <2>3, <2>4, HostClientAssumption DEF InHand
  <2>6. \A j \in Conns : j # k => place'[j] = pl[j]
    BY <2>1
  <2> QED
    BY <2>5, <2>6
<1> QED
  BY <1>1, <1>2 DEF DecConnsCount

\* A slot is given up: by closeConn, or after a failed dial.
LEMMA LocatedGiveUp ==
  ASSUME Waiters, Located, NEW a \in Callers \cup Wants,
         (a \in Callers /\ CloseDec(a)) \/ DecAfterDialFail(a)
  PROVE  Located'
<1>1. TypeOK /\ a \in Agents
  BY DEF Waiters, Coherent, Agents
<1>2. \A w \in Wants : pc[w] = "idle" => cur[w] = NoConn
  BY DEF Waiters, Coherent, AgentsCoherent, Dialling, Holding, Agents
<1>3. ASSUME a \in Callers, CloseDec(a) PROVE Located'
  <2> DEFINE pl == [place EXCEPT ![cur[a]] = "closing"]
  <2>1. /\ DecConnsCount([pc EXCEPT ![a] = "netclose"], cur, pl)
        /\ UNCHANGED <<conns, want, mine, scratch>>
    BY <1>3 DEF CloseDec
  <2>2. cur[a] \in Conns /\ place[cur[a]] = "held"
    BY <1>1, <1>3 DEF CloseDec, Waiters, Coherent, AgentsCoherent, Holding
  <2>3. pl \in [Conns -> Places] /\ \A k \in Conns : place[k] = "free" => pl[k] = "free"
    BY <1>1, <2>2 DEF TypeOK, Places
  <2>4. cur \in [Agents -> Conns \cup {NoConn}]
    BY <1>1 DEF TypeOK
  <2> HIDE DEF pl
  <2>5. /\ \A k \in Conns : (\E b \in Agents : cur[b] = k) => InHand(k)'
        /\ \A k \in Conns : place'[k] = pl[k] \/ InHand(k)'
    BY <1>2, <2>1, <2>3, <2>4, GiveUpHands
  <2>6. \A k \in Conns : InHand(k) => InHand(k)'
    BY <2>5 DEF InHand
  <2> QED
    BY <2>1, <2>3, <2>5, <2>6, LocatedHands
<1>4. CASE DecAfterDialFail(a)
  <2> DEFINE cs == [cur EXCEPT ![a] = NoConn]
             pl == [place EXCEPT ![cur[a]] = "free"]
  <2>1. /\ DecConnsCount([pc EXCEPT ![a] = "idle"], cs, pl)
        /\ UNCHANGED <<conns, want, mine, scratch>>
    BY <1>4 DEF DecAfterDialFail
  <2>2. cur[a] \in Conns
    BY <1>1, <1>4 DEF DecAfterDialFail, Waiters, Coherent, AgentsCoherent, Dialling
  <2>3. /\ pl \in [Conns -> Places] /\ pl[cur[a]] = "free"
        /\ \A k \in Conns : place[k] = "free" => pl[k] = "free"
    BY <1>1, <2>2 DEF TypeOK, Places
  <2>4. /\ cs \in [Agents -> Conns \cup {NoConn}]
        /\ \A b \in Agents : b # a => cs[b] = cur[b]
        /\ cs[a] = NoConn
    BY <1>1 DEF TypeOK
  <2>5. \A w \in Wants : pc[w] = "idle" => cs[w] = NoConn
    BY <1>2, <2>4 DEF Agents
  <2> HIDE DEF cs, pl
  <2>6. /\ \A k \in Conns : (\E b \in Agents : cs[b] = k) => InHand(k)'
        /\ \A k \in Conns : place'[k] = pl[k] \/ InHand(k)'
    BY <2>1, <2>3, <2>4, <2>5, GiveUpHands
  <2>7. \A k \in Conns : InHand(k) /\ place'[k] # "free" => InHand(k)'
    <3> SUFFICES ASSUME NEW k \in Conns, InHand(k), place'[k] # "free" PROVE InHand(k)'
      OBVIOUS
    <3>1. CASE k = cur[a]
      BY <2>3, <2>6, <3>1
    <3>2. CASE k # cur[a]
      BY <2>4, <2>6, <3>2 DEF InHand
    <3> QED
      BY <3>1, <3>2
  <2> QED
    BY <2>1, <2>3, <2>6, <2>7, LocatedHands
<1> QED
  BY <1>3, <1>4

\* closeConn on the head of a scratch list takes it into the sweeper's hand.
LEMMA LocatedScratch ==
  ASSUME Waiters, Located, NEW a \in Sweepers, ScratchDec(a)
  PROVE  Located'
<1>1. TypeOK /\ a \in Agents /\ scratch[a] \in Seq(Conns) /\ scratch[a] # <<>> /\ cur[a] = NoConn
  BY DEF Waiters, Coherent, TypeOK, Agents, Sweepers, ScratchDec, AgentsCoherent, Dialling, Holding
<1>2. PICK k \in Conns : k = Head(scratch[a])
  BY <1>1
<1> DEFINE cs == [cur EXCEPT ![a] = k]
           pl == [place EXCEPT ![k] = "closing"]
<1>3. /\ DecConnsCount([pc EXCEPT ![a] = "netclose"], cs, pl)
      /\ UNCHANGED <<conns, want, mine>>
      /\ scratch' = [scratch EXCEPT ![a] = Tail(scratch[a])]
  BY <1>2 DEF ScratchDec
<1>4. k \in Elems(scratch[a]) /\ place[k] = "scratch"
  <2>1. 1 \in DOMAIN scratch[a] /\ scratch[a][1] = k
    BY <1>1, <1>2
  <2> QED
    BY <2>1 DEF Elems, Waiters, Coherent, ScratchCoherent
<1>5. pl \in [Conns -> Places] /\ \A j \in Conns : j # k => pl[j] = place[j]
  BY <1>1 DEF TypeOK, Places
<1>6. /\ cs \in [Agents -> Conns \cup {NoConn}] /\ cs[a] = k
      /\ \A b \in Agents : b # a => cs[b] = cur[b]
  BY <1>1 DEF TypeOK
<1>7. \A w \in Wants : pc[w] = "idle" => cs[w] = NoConn
  <2>1. \A w \in Wants : w # a /\ w \in Agents
    BY HostClientAssumption DEF Agents
  <2> QED
    BY <1>6, <2>1 DEF Waiters, Coherent, AgentsCoherent, Dialling, Holding
<1> HIDE DEF cs, pl
<1>8. /\ \A j \in Conns : (\E b \in Agents : cs[b] = j) => InHand(j)'
      /\ \A j \in Conns : place'[j] = pl[j] \/ InHand(j)'
  BY <1>3, <1>5, <1>6, <1>7, GiveUpHands
<1>9. InHand(k)' /\ \A j \in Conns : InHand(j) => InHand(j)'
  BY <1>1, <1>6, <1>8, HostClientAssumption DEF InHand
<1>10. \A j \in Conns : j # k /\ InScratch(j) => InScratch(j)'
  <2> SUFFICES ASSUME NEW j \in Conns, j # k, NEW b \in Sweepers, j \in Elems(scratch[b])
               PROVE  InScratch(j)'
    BY DEF InScratch
  <2>1. CASE b # a
    <3>1. scratch'[b] = scratch[b]
      BY <1>1, <1>3, <2>1 DEF TypeOK
    <3> QED
      BY <3>1 DEF InScratch
  <2>2. CASE b = a
    <3>1. PICK i \in DOMAIN scratch[a] : scratch[a][i] = j
      BY <2>2 DEF Elems
    <3>2. i # 1
      BY <1>1, <1>2, <3>1
    <3>3. scratch'[a] = Tail(scratch[a])
      BY <1>1, <1>3 DEF TypeOK
    <3>4. i - 1 \in DOMAIN scratch'[a] /\ scratch'[a][i - 1] = j
      BY <1>1, <3>1, <3>2, <3>3
    <3>5. j \in Elems(scratch'[a])
      BY <3>4 DEF Elems
    <3> QED
      BY <3>5 DEF InScratch
  <2> QED
    BY <2>1, <2>2
<1>11. \A j \in Conns : (InPool(j) => InPool(j)') /\ (InWant(j) => InWant(j)')
  BY <1>3 DEF InPool, InWant, Owned
<1>12. \A j \in Conns : place'[j] # "free" => place[j] # "free" \/ InHand(j)'
  BY <1>5, <1>8, <1>9
<1> QED
  BY <1>9, <1>10, <1>11, <1>12 DEF Located, Reached

\* A sweeper takes connections from the pool into its scratch list.
LEMMA LocatedTakeIdle ==
  ASSUME Waiters, Located, NEW a \in Sweepers, pc[a] \in {"idle", "collect"},
         NEW n \in 0..Len(conns), TakeIdle(a, n)
  PROVE  Located'
<1>1. TypeOK /\ scratch[a] = <<>> /\ conns \in Seq(Conns) /\ Len(conns) \in Nat
  <2>1. scratch[a] # <<>> => pc[a] \in {"sweep", "netclose"}
    BY DEF Waiters, Coherent, LockCoherent
  <2>2. TypeOK /\ conns \in Seq(Conns)
    BY DEF Waiters, Coherent, TypeOK
  <2> QED
    BY <2>1, <2>2
<1>2. /\ scratch' = [scratch EXCEPT ![a] = SubSeq(conns, 1, n)]
      /\ conns' = SubSeq(conns, n + 1, Len(conns))
      /\ UNCHANGED <<cur, want, mine>>
      /\ place' = [k \in Conns |-> IF \E i \in 1..n : conns[i] = k THEN "scratch" ELSE place[k]]
  BY DEF TakeIdle
<1>3. scratch'[a] = SubSeq(conns, 1, n) /\ \A b \in Sweepers : b # a => scratch'[b] = scratch[b]
  BY <1>1, <1>2 DEF TypeOK
<1>4. \A i \in 1..n : i \in DOMAIN scratch'[a] /\ scratch'[a][i] = conns[i]
  BY <1>1, <1>3
<1>5. \A i \in (n + 1)..Len(conns) : i - n \in DOMAIN conns' /\ conns'[i - n] = conns[i]
  BY <1>1, <1>2

<1>6. ASSUME NEW k \in Conns, InPool(k) PROVE InPool(k)' \/ InScratch(k)'
  <2>1. PICK i \in DOMAIN conns : conns[i] = k
    BY <1>6 DEF InPool, Elems
  <2>2. CASE i \in 1..n
    <3>1. k \in Elems(scratch'[a])
      BY <1>4, <2>1, <2>2 DEF Elems
    <3> QED
      BY <3>1 DEF InScratch
  <2>3. CASE i \in (n + 1)..Len(conns)
    <3>1. k \in Elems(conns')
      BY <1>5, <2>1, <2>3 DEF Elems
    <3> QED
      BY <3>1 DEF InPool
  <2>4. i \in 1..n \/ i \in (n + 1)..Len(conns)
    BY <1>1
  <2> QED
    BY <2>2, <2>3, <2>4
<1>7. ASSUME NEW k \in Conns, InScratch(k) PROVE InScratch(k)'
  <2>1. PICK b \in Sweepers : k \in Elems(scratch[b])
    BY <1>7 DEF InScratch
  <2>2. b # a
    BY <1>1, <2>1 DEF Elems
  <2> QED
    BY <1>3, <2>1, <2>2 DEF InScratch
<1>8. \A k \in Conns : place[k] = "free" => place'[k] = "free"
  <2>1. \A i \in 1..n : i \in DOMAIN conns
    BY <1>1
  <2>2. \A i \in 1..n : place[conns[i]] = "idle"
    BY <2>1 DEF Waiters, Coherent, PoolCoherent
  <2> QED
    BY <1>2, <2>2
<1>9. \A k \in Conns : (InHand(k) => InHand(k)') /\ (InWant(k) => InWant(k)')
  BY <1>2 DEF InHand, InWant, Owned
<1> QED
  BY <1>6, <1>7, <1>8, <1>9 DEF Located, Reached

\* A dial succeeds, or a connection is closed.
LEMMA LocatedInHand ==
  ASSUME Waiters, Located, NEW a \in Agents, DialOk(a) \/ NetClose(a)
  PROVE  Located'
<1>1. TypeOK /\ cur[a] \in Conns /\ place[cur[a]] # "free"
  BY DEF Waiters, Coherent, AgentsCoherent, Dialling, DialOk, NetClose
<1>2. UNCHANGED <<conns, want, mine, scratch>>
  BY DEF DialOk, NetClose
<1>3. CASE DialOk(a)
  <2>1. cur' = cur /\ place' = [place EXCEPT ![cur[a]] = "held"]
    BY <1>3 DEF DialOk, Moves
  <2>2. \A k \in Conns : InHand(k) => InHand(k)'
    BY <2>1 DEF InHand
  <2>3. \A k \in Conns : place[k] = "free" => place'[k] = "free"
    BY <1>1, <2>1 DEF TypeOK
  <2> QED
    BY <1>2, <2>2, <2>3, LocatedHands
<1>4. CASE NetClose(a)
  <2>1. cur' = [cur EXCEPT ![a] = NoConn] /\ place' = [place EXCEPT ![cur[a]] = "free"]
    BY <1>4 DEF NetClose, Moves
  <2>2. \A k \in Conns : InHand(k) /\ cur[a] # k => InHand(k)'
    BY <1>1, <2>1, HandsKept
  <2>3. place'[cur[a]] = "free" /\ \A k \in Conns : place[k] = "free" => place'[k] = "free"
    BY <1>1, <2>1 DEF TypeOK
  <2> QED
    BY <1>2, <2>2, <2>3, LocatedHands
<1> QED
  BY <1>3, <1>4

\* Every other step leaves the connections where they are.
LEMMA LocatedApart ==
  ASSUME Located, UNCHANGED <<conns, cur, want, mine, scratch, place>>
  PROVE  Located'
<1>1. \A k \in Conns : /\ InHand(k)' <=> InHand(k)
                       /\ InPool(k)' <=> InPool(k)
                       /\ InWant(k)' <=> InWant(k)
                       /\ InScratch(k)' <=> InScratch(k)
  BY DEF InHand, InPool, InWant, Owned, InScratch
<1> QED
  BY <1>1 DEF Located, Reached

\* No step loses a connection.
LEMMA NextLocated == Waiters /\ Located /\ [Next]_vars => Located'
<1> SUFFICES ASSUME Waiters, Located, [Next]_vars PROVE Located'
  OBVIOUS
<1>1. ASSUME NEW p \in Callers, CallerNext(p) PROVE Located'
  <2>1. CASE Do(p) \/ DoTimeout(p) \/ AcquireFail(p) \/ AcquireMustWait(p) \/ WaitTimeout(p)
    BY <2>1, LocatedApart DEF Do, DoTimeout, AcquireFail, AcquireMustWait, WaitTimeout
  <2>2. CASE RoundTripKeep(p) \/ RoundTripClose(p) \/ RoundTripError(p)
    BY <2>2, LocatedApart DEF RoundTripKeep, RoundTripClose, RoundTripError
  <2> QED
    BY <1>1, <2>1, <2>2, LocatedAcquire, LocatedCreate, LocatedQueue, LocatedReady, LocatedCancel,
       LocatedGiveUp DEF CallerNext
<1>2. ASSUME NEW w \in Wants, DialerNext(w) PROVE Located'
  BY <1>2, LocatedHandOn
<1>3. ASSUME NEW a \in Callers \cup Wants, DialNext(a) \/ ReleaseNext(a) PROVE Located'
  <2>1. CASE DialFail(a)
    BY <2>1, LocatedApart DEF DialFail
  <2>2. a \in Agents
    BY DEF Agents
  <2> QED
    BY <1>3, <2>1, <2>2, LocatedInHand, LocatedGiveUp, LocatedHandOn DEF DialNext
<1>4. CASE CleanerNext
  <2>1. CASE CleanerCheck
    BY <2>1, LocatedApart DEF CleanerCheck
  <2>2. ASSUME NEW n \in 0..Len(conns), Collect(n) PROVE Located'
    BY <2>2, LocatedTakeIdle DEF Collect, Sweepers
  <2> QED
    BY <1>4, <2>1, <2>2 DEF CleanerNext
<1>5. ASSUME NEW a \in Closers, CloseIdleConnections(a) \/ CloserDone(a) PROVE Located'
  <2>1. CASE CloserDone(a)
    BY <2>1, LocatedApart DEF CloserDone
  <2>2. CASE CloseIdleConnections(a)
    <3>1. Len(conns) \in 0..Len(conns) /\ a \in Sweepers /\ pc[a] = "idle" /\ TakeIdle(a, Len(conns))
      BY <2>2 DEF Waiters, Coherent, TypeOK, Sweepers, CloseIdleConnections
    <3> QED
      BY <3>1, LocatedTakeIdle
  <2> QED
    BY <1>5, <2>1, <2>2
<1>6. ASSUME NEW a \in Sweepers, ScratchDec(a) PROVE Located'
  BY <1>6, LocatedScratch
<1>7. ASSUME NEW a \in Callers \cup Sweepers, NetClose(a) PROVE Located'
  BY <1>7, LocatedInHand DEF Agents, Sweepers
<1>8. CASE (\E m \in MaxConnsValues : SetMaxConns(m)) \/ UNCHANGED vars
  BY <1>8, LocatedApart DEF SetMaxConns, vars
<1> QED
  BY <1>1, <1>2, <1>3, <1>4, <1>5, <1>6, <1>7, <1>8 DEF Next

\* No connection is forgotten: one that has been opened and not closed is in
\* the hands of a goroutine, in the pool, in a wantConn its caller will look
\* into, or on a sweeper's list, even when the timer and the delivery race.
THEOREM ClientNoConnForgotten == Spec => []NoConnForgotten
<1>1. Init => Located
  BY DEF Init, Located
<1>2. Located => NoConnForgotten
  BY ReachedRefs DEF Located, NoConnForgotten
<1> QED
  BY <1>1, <1>2, InitWaiters, NextWaiters, NextLocated, PTL DEF Spec
=============================================================================
