--------------------------- MODULE ClientsProofs ----------------------------
(***************************************************************************)
(* Proofs about Client, LBClient and TCPDialer, for any number of          *)
(* goroutines, hosts, clients and addresses.                               *)
(***************************************************************************)
EXTENDS Client, LBClient, TCPDialer, SeqLemmas, FiniteSetTheorems, TLAPS

-----------------------------------------------------------------------------
(* LBClient.                                                               *)

LBStates == {"idle", "panic", "get", "do", "undo", "after"}
LBCalls == [pc : LBStates, c : LBClients \cup {NoClient}, load : Nat \X Nat, next : Nat, n : Nat]

\* A call inside get has found a client of cs and looks at another one.
Looks == \A p \in LBCallers : lbCall[p].pc = "get" =>
           lbStarted /\ lbCall[p].c \in LBClients /\ lbCall[p].next \in 1..Len(cs)

LBTyped ==
  /\ cs \in Seq(LBClients)
  /\ penalty \in [LBClients -> Nat]
  /\ total \in [LBClients -> Nat]
  /\ timers \in [LBClients -> Nat]
  /\ lbCall \in [LBCallers -> LBCalls]
  /\ \A p \in LBCallers : lbCall[p].pc \in {"do", "undo", "after"} => lbCall[p].c \in LBClients
  /\ Looks

\* The calls that are at l with client c when the calls are f.
CallsAt(f, l, c) == {p \in LBCallers : f[p].pc = l /\ f[p].c = c}
Afters(f, c) == Cardinality(CallsAt(f, "after", c))
Undos(f, c) == Cardinality(CallsAt(f, "undo", c))

\* PenaltyPaid of one client.
Paid(f, c) == /\ penalty[c] = timers[c] + Afters(f, c) + Undos(f, c)
              /\ penalty[c] - Undos(f, c) <= maxPenalty
AllPaid == \A c \in LBClients : Paid(lbCall, c)

LBInv == LBTyped /\ AllPaid

LEMMA PaidIsPaid == AllPaid <=> PenaltyPaid
  BY DEF AllPaid, PenaltyPaid, Paid, LBAt, CallsAt, Afters, Undos

\* One of the elements of T moves: it is counted where it arrives and no longer
\* where it was.
LEMMA OneMoves ==
  ASSUME NEW T, IsFiniteSet(T), NEW A \in SUBSET T, NEW B \in SUBSET T, NEW p \in T,
         \A q \in T : q # p => (q \in A <=> q \in B)
  PROVE  /\ Cardinality(A) \in Nat /\ Cardinality(B) \in Nat
         /\ (p \in A <=> p \in B) => Cardinality(A) = Cardinality(B)
         /\ p \in A /\ p \notin B => Cardinality(A) = Cardinality(B) + 1
         /\ p \notin A /\ p \in B => Cardinality(B) = Cardinality(A) + 1
<1>1. IsFiniteSet(A) /\ IsFiniteSet(B)
  BY FS_Subset
<1>2. Cardinality(A) \in Nat /\ Cardinality(B) \in Nat
  BY <1>1, FS_CardinalityType
<1>3. ASSUME p \in A <=> p \in B PROVE Cardinality(A) = Cardinality(B)
  <2>1. A = B
    BY <1>3
  <2> QED
    BY <2>1
<1>4. ASSUME p \in A, p \notin B PROVE Cardinality(A) = Cardinality(B) + 1
  <2>1. A = B \cup {p}
    BY <1>4
  <2> QED
    BY <1>1, <1>4, <2>1, FS_AddElement
<1>5. ASSUME p \notin A, p \in B PROVE Cardinality(B) = Cardinality(A) + 1
  <2>1. B = A \cup {p}
    BY <1>5
  <2> QED
    BY <1>1, <1>5, <2>1, FS_AddElement
<1> QED
  BY <1>2, <1>3, <1>4, <1>5

\* From calls f to calls g only p moves.
Moves(p, f, g) == \A q \in LBCallers : q # p => g[q] = f[q]

\* One call moves.
LEMMA CallMoves ==
  ASSUME NEW p \in LBCallers, NEW f, NEW g, Moves(p, f, g), NEW l, NEW c
  PROVE  /\ Cardinality(CallsAt(f, l, c)) \in Nat /\ Cardinality(CallsAt(g, l, c)) \in Nat
         /\ (f[p].pc = l /\ f[p].c = c <=> g[p].pc = l /\ g[p].c = c)
            => Cardinality(CallsAt(f, l, c)) = Cardinality(CallsAt(g, l, c))
         /\ f[p].pc = l /\ f[p].c = c /\ ~(g[p].pc = l /\ g[p].c = c)
            => Cardinality(CallsAt(f, l, c)) = Cardinality(CallsAt(g, l, c)) + 1
         /\ ~(f[p].pc = l /\ f[p].c = c) /\ g[p].pc = l /\ g[p].c = c
            => Cardinality(CallsAt(g, l, c)) = Cardinality(CallsAt(f, l, c)) + 1
<1> DEFINE A == CallsAt(f, l, c)
           B == CallsAt(g, l, c)
<1>2. A \in SUBSET LBCallers /\ B \in SUBSET LBCallers
  BY DEF CallsAt
<1>3. \A q \in LBCallers : q # p => (q \in A <=> q \in B)
  BY DEF CallsAt, Moves
<1>4. (p \in A <=> f[p].pc = l /\ f[p].c = c) /\ (p \in B <=> g[p].pc = l /\ g[p].c = c)
  BY DEF CallsAt
<1>5. IsFiniteSet(LBCallers)
  BY LBAssumption
<1> HIDE DEF A, B
<1>6. /\ Cardinality(A) \in Nat /\ Cardinality(B) \in Nat
      /\ (p \in A <=> p \in B) => Cardinality(A) = Cardinality(B)
      /\ p \in A /\ p \notin B => Cardinality(A) = Cardinality(B) + 1
      /\ p \notin A /\ p \in B => Cardinality(B) = Cardinality(A) + 1
  BY <1>2, <1>3, <1>5, OneMoves
<1> QED
  BY <1>4, <1>6 DEF A, B

\* What a move does to the two accounts of a client: nothing when neither place
\* counts, one less for the call that leaves and one more for the call that comes.
LEMMA Accounts ==
  ASSUME NEW p \in LBCallers, NEW f, NEW g, Moves(p, f, g), NEW c
  PROVE  /\ Afters(f, c) \in Nat /\ Afters(g, c) \in Nat /\ Undos(f, c) \in Nat /\ Undos(g, c) \in Nat
         /\ f[p].c # c /\ g[p].c # c => Afters(g, c) = Afters(f, c) /\ Undos(g, c) = Undos(f, c)
         /\ f[p].pc \notin {"after", "undo"} /\ g[p].pc \notin {"after", "undo"}
            => Afters(g, c) = Afters(f, c) /\ Undos(g, c) = Undos(f, c)
         /\ f[p].pc = "after" /\ f[p].c = c /\ g[p].pc \notin {"after", "undo"}
            => Afters(f, c) = Afters(g, c) + 1 /\ Undos(g, c) = Undos(f, c)
         /\ f[p].pc = "undo" /\ f[p].c = c /\ g[p].pc \notin {"after", "undo"}
            => Undos(f, c) = Undos(g, c) + 1 /\ Afters(g, c) = Afters(f, c)
         /\ f[p].pc \notin {"after", "undo"} /\ g[p].pc = "after" /\ g[p].c = c
            => Afters(g, c) = Afters(f, c) + 1 /\ Undos(g, c) = Undos(f, c)
         /\ f[p].pc \notin {"after", "undo"} /\ g[p].pc = "undo" /\ g[p].c = c
            => Undos(g, c) = Undos(f, c) + 1 /\ Afters(g, c) = Afters(f, c)
<1>1. /\ Afters(f, c) \in Nat /\ Afters(g, c) \in Nat
      /\ (f[p].pc = "after" /\ f[p].c = c <=> g[p].pc = "after" /\ g[p].c = c) => Afters(f, c) = Afters(g, c)
      /\ f[p].pc = "after" /\ f[p].c = c /\ ~(g[p].pc = "after" /\ g[p].c = c) => Afters(f, c) = Afters(g, c) + 1
      /\ ~(f[p].pc = "after" /\ f[p].c = c) /\ g[p].pc = "after" /\ g[p].c = c => Afters(g, c) = Afters(f, c) + 1
  BY CallMoves DEF Afters
<1>2. /\ Undos(f, c) \in Nat /\ Undos(g, c) \in Nat
      /\ (f[p].pc = "undo" /\ f[p].c = c <=> g[p].pc = "undo" /\ g[p].c = c) => Undos(f, c) = Undos(g, c)
      /\ f[p].pc = "undo" /\ f[p].c = c /\ ~(g[p].pc = "undo" /\ g[p].c = c) => Undos(f, c) = Undos(g, c) + 1
      /\ ~(f[p].pc = "undo" /\ f[p].c = c) /\ g[p].pc = "undo" /\ g[p].c = c => Undos(g, c) = Undos(f, c) + 1
  BY CallMoves DEF Undos
<1> QED
  BY <1>1, <1>2

\* The calls at a place are finitely many.
LEMMA AtFinite ==
  ASSUME NEW l, NEW c
  PROVE  IsFiniteSet(LBAt(l, c)) /\ Cardinality(LBAt(l, c)) \in Nat
<1>1. IsFiniteSet(LBAt(l, c))
  BY LBAssumption, FS_Subset DEF LBAt
<1> QED
  BY <1>1, FS_CardinalityType

LEMMA CountFinite ==
  ASSUME NEW f, NEW c
  PROVE  Afters(f, c) \in Nat /\ Undos(f, c) \in Nat
<1>1. ASSUME NEW l PROVE Cardinality(CallsAt(f, l, c)) \in Nat
  <2>1. CallsAt(f, l, c) \subseteq LBCallers /\ IsFiniteSet(LBCallers)
    BY LBAssumption DEF CallsAt
  <2> QED
    BY <2>1, FS_Subset, FS_CardinalityType
<1> QED
  BY <1>1 DEF Afters, Undos

\* What get reads of a client.
LEMMA LoadTyped ==
  ASSUME LBTyped, NEW c \in LBClients
  PROVE  Load(c) \in Nat \X Nat
<1>1. Cardinality(LBAt("do", c)) \in Nat /\ penalty[c] \in Nat /\ total[c] \in Nat
  BY AtFinite DEF LBTyped
<1>2. LBPending(c) \in Nat
  BY <1>1 DEF LBPending
<1> QED
  BY <1>1, <1>2 DEF Load

\* After a look at a client get goes on with the next one, or calls the client
\* it has found.
LEMMA ChosenTyped ==
  ASSUME NEW s \in Seq(LBClients), NEW call \in LBCalls, NEW c \in LBClients,
         NEW load \in Nat \X Nat, NEW i \in Nat, i > 0
  PROVE  LET r == Chosen(call, s, c, load, i)
         IN  r \in LBCalls /\ r.c = c /\ (r.pc = "do" \/ (r.pc = "get" /\ r.next \in 1..Len(s)))
<1>1. CASE i <= Len(s)
  <2> DEFINE r == [call EXCEPT !.pc = "get", !.c = c, !.load = load, !.next = i]
  <2>1. r \in LBCalls /\ r.c = c /\ r.pc = "get" /\ r.next = i
    BY DEF LBCalls, LBStates
  <2>2. i \in 1..Len(s) /\ Chosen(call, s, c, load, i) = r
    BY <1>1 DEF Chosen
  <2> HIDE DEF r
  <2> QED
    BY <2>1, <2>2
<1>2. CASE ~(i <= Len(s))
  <2> DEFINE r == [call EXCEPT !.pc = "do", !.c = c, !.load = <<0, 0>>, !.next = 0, !.n = @ + 1]
  <2>0. <<0, 0>> \in Nat \X Nat /\ call.n + 1 \in Nat /\ 0 \in Nat
    BY DEF LBCalls
  <2>1. r \in LBCalls /\ r.c = c /\ r.pc = "do"
    BY <2>0 DEF LBCalls, LBStates
  <2>2. Chosen(call, s, c, load, i) = r
    BY <1>2 DEF Chosen
  <2> HIDE DEF r
  <2> QED
    BY <2>1, <2>2
<1> QED
  BY <1>1, <1>2

\* A step of get: no account counts the call, before it or after it.
LEMMA GetStep ==
  ASSUME LBInv, NEW p \in LBCallers, NEW r \in LBCalls, lbCall' = [lbCall EXCEPT ![p] = r],
         lbCall[p].pc \in {"idle", "get"}, r.pc \in {"get", "do", "panic"},
         r.pc \in {"get", "do"} => r.c \in LBClients,
         r.pc = "get" => r.next \in 1..Len(cs'),
         cs' \in Seq(LBClients), lbStarted', lbStarted => cs' = cs,
         UNCHANGED <<penalty, total, timers>>
  PROVE  LBInv'
<1>1. /\ lbCall' \in [LBCallers -> LBCalls] /\ lbCall'[p] = r
      /\ \A q \in LBCallers : q # p => lbCall'[q] = lbCall[q]
  BY DEF LBInv, LBTyped
<1>2. Looks'
  BY <1>1 DEF LBInv, LBTyped, Looks
<1>3. LBTyped'
  BY <1>1, <1>2 DEF LBInv, LBTyped
<1>4. AllPaid'
  <2> SUFFICES ASSUME NEW c \in LBClients PROVE Paid(lbCall, c)'
    BY DEF AllPaid
  <2>0. lbCall[p].pc \notin {"after", "undo"} /\ lbCall'[p].pc \notin {"after", "undo"}
    BY <1>1
  <2>1. Moves(p, lbCall, lbCall')
    BY <1>1 DEF Moves
  <2>2. Afters(lbCall', c) = Afters(lbCall, c) /\ Undos(lbCall', c) = Undos(lbCall, c)
    <3>1. PICK f, g : f = lbCall /\ g = lbCall'
      OBVIOUS
    <3>2. Moves(p, f, g) /\ f[p].pc \notin {"after", "undo"} /\ g[p].pc \notin {"after", "undo"}
      BY <2>0, <2>1, <3>1
    <3>3. Afters(g, c) = Afters(f, c) /\ Undos(g, c) = Undos(f, c)
      BY ONLY <3>2, Accounts, p \in LBCallers
    <3> QED
      BY <3>1, <3>3
  <2> QED
    BY <2>2 DEF LBInv, AllPaid, Paid
<1> QED
  BY <1>3, <1>4 DEF LBInv

\* A call enters get and reads the first client.
LEMMA GetKeeps ==
  ASSUME LBInv, NEW p \in LBCallers, LBGet(p)
  PROVE  LBInv'
<1> DEFINE s == IF lbStarted THEN cs ELSE cs \o Balanced
<1>1. /\ s \in Seq(LBClients) /\ cs' = s /\ lbStarted' /\ (lbStarted => cs' = cs)
      /\ UNCHANGED <<penalty, total, timers>>
  BY LBAssumption DEF LBGet, LBInv, LBTyped
<1>2. LBTyped /\ lbCall[p] \in LBCalls /\ lbCall[p].pc = "idle"
  BY DEF LBGet, LBInv, LBTyped
<1>3. PICK r \in LBCalls : /\ lbCall' = [lbCall EXCEPT ![p] = r]
                           /\ r.pc \in {"get", "do", "panic"} /\ (r.pc \in {"get", "do"} => r.c \in LBClients)
                           /\ r.pc = "get" => r.next \in 1..Len(s)
  <2>1. CASE s = <<>>
    <3> DEFINE r == [lbCall[p] EXCEPT !.pc = "panic"]
    <3>1. r \in LBCalls /\ r.pc = "panic"
      BY <1>2 DEF LBCalls, LBStates
    <3>2. lbCall' = [lbCall EXCEPT ![p] = r]
      BY <2>1 DEF LBGet
    <3> HIDE DEF r
    <3> QED
      BY <3>1, <3>2
  <2>2. CASE s # <<>>
    <3>1. s[1] \in LBClients
      BY <1>1, <2>2
    <3> DEFINE r == Chosen(lbCall[p], s, s[1], Load(s[1]), 2)
    <3>2. lbCall' = [lbCall EXCEPT ![p] = r]
      BY <2>2 DEF LBGet
    <3> HIDE DEF s
    <3>3. Load(s[1]) \in Nat \X Nat
      BY <1>2, <3>1, LoadTyped
    <3>4. r \in LBCalls /\ r.c = s[1] /\ (r.pc = "do" \/ (r.pc = "get" /\ r.next \in 1..Len(s)))
      BY <1>1, <1>2, <3>1, <3>3, ChosenTyped
    <3> HIDE DEF r
    <3> QED
      BY <3>1, <3>2, <3>4
  <2> QED
    BY <2>1, <2>2
<1> HIDE DEF s
<1> QED
  BY <1>1, <1>2, <1>3, GetStep

\* It looks at another client.
LEMMA LookKeeps ==
  ASSUME LBInv, NEW p \in LBCallers, LBLook(p)
  PROVE  LBInv'
<1>1. /\ LBTyped /\ Looks /\ lbCall[p] \in LBCalls /\ lbCall[p].pc = "get"
      /\ cs \in Seq(LBClients) /\ UNCHANGED <<cs, lbStarted, penalty, total, timers>>
  BY DEF LBLook, LBInv, LBTyped
<1>2. PICK i \in Nat : i = lbCall[p].next /\ i \in 1..Len(cs) /\ lbStarted /\ lbCall[p].c \in LBClients
  BY <1>1 DEF Looks
<1>3. cs[i] \in LBClients /\ lbCall[p].load \in Nat \X Nat
  BY <1>1, <1>2 DEF LBCalls
<1>4. Load(cs[i]) \in Nat \X Nat
  BY <1>1, <1>3, LoadTyped
<1> DEFINE less == Less(Load(cs[i]), lbCall[p].load)
           c == IF less THEN cs[i] ELSE lbCall[p].c
           load == IF less THEN Load(cs[i]) ELSE lbCall[p].load
           r == Chosen(lbCall[p], cs, c, load, i + 1)
<1>5. lbCall' = [lbCall EXCEPT ![p] = r]
  BY <1>2 DEF LBLook
<1>6. c \in LBClients /\ load \in Nat \X Nat
  BY <1>2, <1>3, <1>4
<1> HIDE DEF c, load
<1>7. r \in LBCalls /\ r.c = c /\ (r.pc = "do" \/ (r.pc = "get" /\ r.next \in 1..Len(cs)))
  <2>1. i + 1 \in Nat /\ i + 1 > 0
    BY <1>2
  <2> QED
    BY <1>1, <1>6, <2>1, ChosenTyped
<1> HIDE DEF r
<1> QED
  BY <1>1, <1>2, <1>5, <1>6, <1>7, GetStep

\* A call that has a client moves on.
LEMMA CallGoes ==
  ASSUME LBTyped, NEW p \in LBCallers, lbCall[p].pc \in {"do", "undo", "after"},
         NEW r \in LBCalls, lbCall' = [lbCall EXCEPT ![p] = r], r.pc # "get",
         r.pc = "idle" \/ r.c = lbCall[p].c, UNCHANGED <<cs, lbStarted>>
  PROVE  /\ lbCall[p].c \in LBClients /\ Moves(p, lbCall, lbCall') /\ lbCall'[p] = r
         /\ lbCall' \in [LBCallers -> LBCalls]
         /\ \A q \in LBCallers : lbCall'[q].pc \in {"do", "undo", "after"} => lbCall'[q].c \in LBClients
         /\ Looks'
<1>1. lbCall[p].c \in LBClients
  BY DEF LBTyped
<1>2. lbCall' \in [LBCallers -> LBCalls] /\ lbCall'[p] = r /\ \A q \in LBCallers : q # p => lbCall'[q] = lbCall[q]
  BY DEF LBTyped
<1>3. \A q \in LBCallers : lbCall'[q].pc \in {"do", "undo", "after"} => lbCall'[q].c \in LBClients
  BY <1>1, <1>2 DEF LBTyped
<1>4. Looks'
  BY <1>2 DEF LBTyped, Looks
<1> QED
  BY <1>1, <1>2, <1>3, <1>4 DEF Moves

\* A healthy answer is counted; the accounts stay.
LEMMA HealthyKeeps ==
  ASSUME LBInv, NEW p \in LBCallers, LBHealthy(p)
  PROVE  LBInv'
<1>1. LBTyped /\ lbCall[p] \in LBCalls /\ lbCall[p].pc = "do"
  BY DEF LBHealthy, LBInv, LBTyped
<1>2. PICK r \in LBCalls : r.pc = "idle" /\ r.c = NoClient /\ lbCall' = [lbCall EXCEPT ![p] = r]
  <2> DEFINE r == [lbCall[p] EXCEPT !.pc = "idle", !.c = NoClient]
  <2>1. r \in LBCalls /\ r.pc = "idle" /\ r.c = NoClient
    BY <1>1 DEF LBCalls, LBStates
  <2>2. lbCall' = [lbCall EXCEPT ![p] = r]
    BY DEF LBHealthy
  <2> QED
    BY <2>1, <2>2
<1>3. PICK d : d = lbCall[p].c
  OBVIOUS
<1>4. UNCHANGED <<cs, lbStarted, penalty, timers>> /\ total' = [total EXCEPT ![d] = @ + 1]
  BY <1>3 DEF LBHealthy
<1>5. /\ d \in LBClients /\ Moves(p, lbCall, lbCall') /\ lbCall'[p] = r
      /\ lbCall' \in [LBCallers -> LBCalls]
      /\ \A q \in LBCallers : lbCall'[q].pc \in {"do", "undo", "after"} => lbCall'[q].c \in LBClients
      /\ Looks'
  BY <1>1, <1>2, <1>3, <1>4, CallGoes
<1>6. LBTyped'
  BY <1>1, <1>4, <1>5 DEF LBTyped
<1>7. AllPaid'
  <2> SUFFICES ASSUME NEW c \in LBClients PROVE Paid(lbCall, c)'
    BY DEF AllPaid
  <2>1. lbCall[p].pc \notin {"after", "undo"} /\ lbCall'[p].pc \notin {"after", "undo"}
    BY <1>1, <1>2, <1>5
  <2>2. Afters(lbCall', c) = Afters(lbCall, c) /\ Undos(lbCall', c) = Undos(lbCall, c)
    BY <1>5, <2>1, Accounts
  <2> QED
    BY <1>4, <2>2 DEF LBInv, AllPaid, Paid
<1> QED
  BY <1>6, <1>7 DEF LBInv

\* The penalty above the limit is taken back by the call that paid it.
LEMMA UndoKeeps ==
  ASSUME LBInv, NEW p \in LBCallers, LBUndo(p)
  PROVE  LBInv'
<1>1. LBTyped /\ lbCall[p] \in LBCalls /\ lbCall[p].pc = "undo"
  BY DEF LBUndo, LBInv, LBTyped
<1>2. PICK r \in LBCalls : r.pc = "idle" /\ r.c = NoClient /\ lbCall' = [lbCall EXCEPT ![p] = r]
  <2> DEFINE r == [lbCall[p] EXCEPT !.pc = "idle", !.c = NoClient]
  <2>1. r \in LBCalls /\ r.pc = "idle" /\ r.c = NoClient
    BY <1>1 DEF LBCalls, LBStates
  <2>2. lbCall' = [lbCall EXCEPT ![p] = r]
    BY DEF LBUndo
  <2> QED
    BY <2>1, <2>2
<1>3. PICK d : d = lbCall[p].c
  OBVIOUS
<1>4. UNCHANGED <<cs, lbStarted, timers>> /\ penalty' = [penalty EXCEPT ![d] = @ - 1] /\ total' = [total EXCEPT ![d] = @ + 1]
  BY <1>3 DEF LBUndo
<1>5. /\ d \in LBClients /\ Moves(p, lbCall, lbCall') /\ lbCall'[p] = r
      /\ lbCall' \in [LBCallers -> LBCalls]
      /\ \A q \in LBCallers : lbCall'[q].pc \in {"do", "undo", "after"} => lbCall'[q].c \in LBClients
      /\ Looks'
  BY <1>1, <1>2, <1>3, <1>4, CallGoes
<1>6. ASSUME NEW c \in LBClients PROVE Paid(lbCall, c)' /\ penalty'[c] \in Nat
  <2>1. lbCall'[p].pc \notin {"after", "undo"} /\ lbCall'[p].c # c
    BY <1>2, <1>5, LBAssumption
  <2>2. PICK pe \in Nat, ti \in Nat, af \in Nat, un \in Nat, af2 \in Nat, un2 \in Nat :
          /\ pe = penalty[c] /\ ti = timers[c] /\ af = Afters(lbCall, c) /\ un = Undos(lbCall, c)
          /\ af2 = Afters(lbCall', c) /\ un2 = Undos(lbCall', c)
    <3>1. Afters(lbCall, c) \in Nat /\ Undos(lbCall, c) \in Nat /\ Afters(lbCall', c) \in Nat /\ Undos(lbCall', c) \in Nat
      BY <1>5, Accounts
    <3> QED
      BY <1>1, <3>1 DEF LBTyped
  <2>3. maxPenalty \in Nat /\ pe = ti + af + un /\ pe - un <= maxPenalty
    BY <2>2, LBAssumption DEF LBInv, AllPaid, Paid
  <2>4. CASE c = d
    <3>1. af2 = af /\ un = un2 + 1
      BY <1>1, <1>3, <1>5, <2>1, <2>2, <2>4, Accounts
    <3>2. penalty'[c] = pe - 1 /\ timers'[c] = ti
      BY <1>1, <1>4, <2>2, <2>4 DEF LBTyped
    <3>3. pe - 1 = ti + af2 + un2 /\ (pe - 1) - un2 <= maxPenalty /\ pe - 1 \in Nat
      BY <2>3, <3>1
    <3> QED
      BY <2>2, <3>2, <3>3 DEF Paid
  <2>5. CASE c # d
    <3>1. af2 = af /\ un2 = un
      BY <1>3, <1>5, <2>1, <2>2, <2>5, Accounts
    <3>2. penalty'[c] = pe /\ timers'[c] = ti
      BY <1>1, <1>4, <2>2, <2>5 DEF LBTyped
    <3> QED
      BY <2>2, <2>3, <3>1, <3>2 DEF Paid
  <2> QED
    BY <2>4, <2>5
<1>7. AllPaid'
  BY <1>6 DEF AllPaid
<1>8. LBTyped'
  BY <1>1, <1>4, <1>5, <1>6 DEF LBTyped
<1> QED
  BY <1>7, <1>8 DEF LBInv

\* The penalty is handed to its timer.
LEMMA AfterKeeps ==
  ASSUME LBInv, NEW p \in LBCallers, LBAfter(p)
  PROVE  LBInv'
<1>1. LBTyped /\ lbCall[p] \in LBCalls /\ lbCall[p].pc = "after"
  BY DEF LBAfter, LBInv, LBTyped
<1>2. PICK r \in LBCalls : r.pc = "idle" /\ r.c = NoClient /\ lbCall' = [lbCall EXCEPT ![p] = r]
  <2> DEFINE r == [lbCall[p] EXCEPT !.pc = "idle", !.c = NoClient]
  <2>1. r \in LBCalls /\ r.pc = "idle" /\ r.c = NoClient
    BY <1>1 DEF LBCalls, LBStates
  <2>2. lbCall' = [lbCall EXCEPT ![p] = r]
    BY DEF LBAfter
  <2> QED
    BY <2>1, <2>2
<1>3. PICK d : d = lbCall[p].c
  OBVIOUS
<1>4. UNCHANGED <<cs, lbStarted, penalty, total>> /\ timers' = [timers EXCEPT ![d] = @ + 1]
  BY <1>3 DEF LBAfter
<1>5. /\ d \in LBClients /\ Moves(p, lbCall, lbCall') /\ lbCall'[p] = r
      /\ lbCall' \in [LBCallers -> LBCalls]
      /\ \A q \in LBCallers : lbCall'[q].pc \in {"do", "undo", "after"} => lbCall'[q].c \in LBClients
      /\ Looks'
  BY <1>1, <1>2, <1>3, <1>4, CallGoes
<1>6. ASSUME NEW c \in LBClients PROVE Paid(lbCall, c)' /\ penalty'[c] \in Nat
  <2>1. lbCall'[p].pc \notin {"after", "undo"} /\ lbCall'[p].c # c
    BY <1>2, <1>5, LBAssumption
  <2>2. PICK pe \in Nat, ti \in Nat, af \in Nat, un \in Nat, af2 \in Nat, un2 \in Nat :
          /\ pe = penalty[c] /\ ti = timers[c] /\ af = Afters(lbCall, c) /\ un = Undos(lbCall, c)
          /\ af2 = Afters(lbCall', c) /\ un2 = Undos(lbCall', c)
    <3>1. Afters(lbCall, c) \in Nat /\ Undos(lbCall, c) \in Nat /\ Afters(lbCall', c) \in Nat /\ Undos(lbCall', c) \in Nat
      BY <1>5, Accounts
    <3> QED
      BY <1>1, <3>1 DEF LBTyped
  <2>3. maxPenalty \in Nat /\ pe = ti + af + un /\ pe - un <= maxPenalty
    BY <2>2, LBAssumption DEF LBInv, AllPaid, Paid
  <2>4. CASE c = d
    <3>1. af = af2 + 1 /\ un2 = un
      BY <1>1, <1>3, <1>5, <2>1, <2>2, <2>4, Accounts
    <3>2. penalty'[c] = pe /\ timers'[c] = (ti + 1)
      BY <1>1, <1>4, <2>2, <2>4 DEF LBTyped
    <3>3. pe = (ti + 1) + af2 + un2 /\ (pe) - un2 <= maxPenalty /\ pe \in Nat
      BY <2>3, <3>1
    <3> QED
      BY <2>2, <3>2, <3>3 DEF Paid
  <2>5. CASE c # d
    <3>1. af2 = af /\ un2 = un
      BY <1>3, <1>5, <2>1, <2>2, <2>5, Accounts
    <3>2. penalty'[c] = pe /\ timers'[c] = ti
      BY <1>1, <1>4, <2>2, <2>5 DEF LBTyped
    <3> QED
      BY <2>2, <2>3, <3>1, <3>2 DEF Paid
  <2> QED
    BY <2>4, <2>5
<1>7. AllPaid'
  BY <1>6 DEF AllPaid
<1>8. LBTyped'
  BY <1>1, <1>4, <1>5, <1>6 DEF LBTyped
<1> QED
  BY <1>7, <1>8 DEF LBInv

\* incPenalty: the call owes the penalty it has added, to the timer or at once.
LEMMA FailedKeeps ==
  ASSUME LBInv, NEW p \in LBCallers, LBFailed(p)
  PROVE  LBInv'
<1>1. LBTyped /\ lbCall[p] \in LBCalls /\ lbCall[p].pc = "do"
  BY DEF LBFailed, LBInv, LBTyped
<1>2. PICK d : d = lbCall[p].c
  OBVIOUS
<1>3. UNCHANGED <<cs, lbStarted, total, timers>> /\ penalty' = [penalty EXCEPT ![d] = @ + 1]
  BY <1>2 DEF LBFailed
<1>4. d \in LBClients /\ penalty[d] \in Nat /\ penalty'[d] = penalty[d] + 1 /\ penalty' \in [LBClients -> Nat]
  BY <1>1, <1>2, <1>3 DEF LBTyped
<1>5. PICK r \in LBCalls : /\ r.c = d /\ lbCall' = [lbCall EXCEPT ![p] = r]
                           /\ penalty[d] + 1 > maxPenalty => r.pc = "undo"
                           /\ ~(penalty[d] + 1 > maxPenalty) => r.pc = "after"
  <2> DEFINE r == [lbCall[p] EXCEPT !.pc = IF penalty'[d] > maxPenalty THEN "undo" ELSE "after"]
  <2>1. r \in LBCalls /\ r.c = d
    BY <1>1, <1>2 DEF LBCalls, LBStates
  <2>2. lbCall' = [lbCall EXCEPT ![p] = r]
    BY <1>2 DEF LBFailed
  <2>3. r.pc = IF penalty'[d] > maxPenalty THEN "undo" ELSE "after"
    BY <1>1 DEF LBCalls
  <2> HIDE DEF r
  <2> QED
    BY <1>4, <2>1, <2>2, <2>3
<1>6. /\ Moves(p, lbCall, lbCall') /\ lbCall'[p] = r
      /\ lbCall' \in [LBCallers -> LBCalls]
      /\ \A q \in LBCallers : lbCall'[q].pc \in {"do", "undo", "after"} => lbCall'[q].c \in LBClients
      /\ Looks'
  BY <1>1, <1>2, <1>3, <1>5, CallGoes
<1>7. ASSUME NEW c \in LBClients PROVE Paid(lbCall, c)'
  <2>1. PICK pe \in Nat, ti \in Nat, af \in Nat, un \in Nat, af2 \in Nat, un2 \in Nat :
          /\ pe = penalty[c] /\ ti = timers[c] /\ af = Afters(lbCall, c) /\ un = Undos(lbCall, c)
          /\ af2 = Afters(lbCall', c) /\ un2 = Undos(lbCall', c)
    <3>1. Afters(lbCall, c) \in Nat /\ Undos(lbCall, c) \in Nat /\ Afters(lbCall', c) \in Nat /\ Undos(lbCall', c) \in Nat
      BY <1>6, Accounts
    <3> QED
      BY <1>1, <3>1 DEF LBTyped
  <2>2. maxPenalty \in Nat /\ pe = ti + af + un /\ pe - un <= maxPenalty
    BY <2>1, LBAssumption DEF LBInv, AllPaid, Paid
  <2>3. timers'[c] = ti
    BY <1>3, <2>1
  <2>4. CASE c = d
    <3>1. penalty'[c] = pe + 1
      BY <1>4, <2>1, <2>4
    <3>2. CASE pe + 1 > maxPenalty
      <4>0. lbCall[p].pc = "do" /\ lbCall'[p].pc = "undo" /\ lbCall'[p].c = c
        BY <1>1, <1>5, <1>6, <2>1, <2>4, <3>2
      <4>1. un2 = un + 1 /\ af2 = af
        BY <1>6, <2>1, <4>0, Accounts
      <4>2. pe + 1 = ti + af2 + un2 /\ (pe + 1) - un2 <= maxPenalty
        BY <2>2, <4>1
      <4> QED
        BY <2>1, <2>3, <3>1, <4>2 DEF Paid
    <3>3. CASE ~(pe + 1 > maxPenalty)
      <4>0. lbCall[p].pc = "do" /\ lbCall'[p].pc = "after" /\ lbCall'[p].c = c
        BY <1>1, <1>5, <1>6, <2>1, <2>4, <3>3
      <4>1. un2 = un /\ af2 = af + 1
        BY <1>6, <2>1, <4>0, Accounts
      <4>2. pe + 1 = ti + af2 + un2 /\ (pe + 1) - un2 <= maxPenalty
        BY <2>2, <3>3, <4>1
      <4> QED
        BY <2>1, <2>3, <3>1, <4>2 DEF Paid
    <3> QED
      BY <3>2, <3>3
  <2>5. CASE c # d
    <3>0. lbCall[p].c # c /\ lbCall'[p].c # c
      BY <1>2, <1>5, <1>6, <2>5
    <3>1. af2 = af /\ un2 = un
      BY <1>6, <2>1, <3>0, Accounts
    <3>2. penalty'[c] = pe
      BY <1>1, <1>3, <2>1, <2>5 DEF LBTyped
    <3> QED
      BY <2>1, <2>2, <2>3, <3>1, <3>2 DEF Paid
  <2> QED
    BY <2>4, <2>5
<1>8. AllPaid'
  BY <1>7 DEF AllPaid
<1>9. LBTyped'
  BY <1>1, <1>3, <1>4, <1>6 DEF LBTyped
<1> QED
  BY <1>8, <1>9 DEF LBInv

\* A timer takes its penalty back.
LEMMA decPenaltyKeeps ==
  ASSUME LBInv, NEW d \in LBClients, decPenalty(d)
  PROVE  LBInv'
<1>1. LBTyped /\ timers[d] > 0 /\ UNCHANGED <<cs, lbStarted, total, lbCall>>
  BY DEF decPenalty, LBInv
<1>2. timers' = [timers EXCEPT ![d] = @ - 1] /\ penalty' = [penalty EXCEPT ![d] = @ - 1]
  BY DEF decPenalty
<1>3. ASSUME NEW c \in LBClients PROVE Paid(lbCall, c)' /\ penalty'[c] \in Nat /\ timers'[c] \in Nat
  <2>1. PICK pe \in Nat, ti \in Nat, af \in Nat, un \in Nat :
          pe = penalty[c] /\ ti = timers[c] /\ af = Afters(lbCall, c) /\ un = Undos(lbCall, c)
    <3>1. Afters(lbCall, c) \in Nat /\ Undos(lbCall, c) \in Nat
      BY CountFinite
    <3> QED
      BY <1>1, <3>1 DEF LBTyped
  <2>2. maxPenalty \in Nat /\ pe = ti + af + un /\ pe - un <= maxPenalty
    BY <2>1, LBAssumption DEF LBInv, AllPaid, Paid
  <2>3. Afters(lbCall', c) = af /\ Undos(lbCall', c) = un
    BY <1>1, <2>1
  <2>4. CASE c = d
    <3>1. penalty'[c] = pe - 1 /\ timers'[c] = ti - 1 /\ ti > 0
      BY <1>1, <1>2, <2>1, <2>4 DEF LBTyped
    <3>2. /\ pe - 1 = (ti - 1) + af + un /\ (pe - 1) - un <= maxPenalty
          /\ pe - 1 \in Nat /\ ti - 1 \in Nat
      BY <2>2, <3>1
    <3> QED
      BY <2>3, <3>1, <3>2 DEF Paid
  <2>5. CASE c # d
    <3>1. penalty'[c] = pe /\ timers'[c] = ti
      BY <1>1, <1>2, <2>1, <2>5 DEF LBTyped
    <3> QED
      BY <2>2, <2>3, <3>1 DEF Paid
  <2> QED
    BY <2>4, <2>5
<1>4. AllPaid'
  BY <1>3 DEF AllPaid
<1>5. LBTyped'
  BY <1>1, <1>2, <1>3 DEF LBTyped, Looks
<1> QED
  BY <1>4, <1>5 DEF LBInv

\* Clients are added and removed: the accounts of all of them stay.
LEMMA ListKeeps ==
  ASSUME LBInv, AddClient \/ RemoveClients
  PROVE  LBInv'
<1>1. /\ LBTyped /\ UNCHANGED <<penalty, timers, lbCall>>
      /\ \A p \in LBCallers : lbCall[p].pc # "get"
  BY DEF LBInv, AddClient, RemoveClients, ReadLocked
<1>2. cs' \in Seq(LBClients) /\ total' \in [LBClients -> Nat]
  <2>1. CASE AddClient
    BY <1>1, <2>1 DEF AddClient, LBTyped
  <2>2. CASE RemoveClients
    <3>0. PICK n \in 0..(Len(cs) - 1) : \E spared \in [1..n -> DOMAIN cs] :
            cs' = [i \in 1..n |-> cs[spared[i]]]
      BY <2>2 DEF RemoveClients
    <3>1. PICK spared \in [1..n -> DOMAIN cs] : cs' = [i \in 1..n |-> cs[spared[i]]]
      BY <3>0
    <3>2. n \in Nat /\ \A i \in 1..n : cs[spared[i]] \in LBClients
      BY <1>1, <3>1 DEF LBTyped
    <3>3. cs' \in Seq(LBClients)
      BY <3>1, <3>2
    <3> QED
      BY <1>1, <2>2, <3>3 DEF RemoveClients, LBTyped
  <2> QED
    BY <2>1, <2>2
<1>3. LBTyped'
  BY <1>1, <1>2 DEF LBTyped, Looks
<1>4. AllPaid'
  BY <1>1 DEF LBInv, AllPaid, Paid
<1> QED
  BY <1>3, <1>4 DEF LBInv

LEMMA LBStarts == LBInit => LBInv
<1> SUFFICES ASSUME LBInit PROVE LBInv
  OBVIOUS
<1>1. LBTyped
  BY DEF LBInit, LBTyped, LBCalls, LBStates, Looks
<1>2. ASSUME NEW c \in LBClients PROVE Paid(lbCall, c)
  <2>1. CallsAt(lbCall, "after", c) = {} /\ CallsAt(lbCall, "undo", c) = {}
    BY DEF LBInit, CallsAt
  <2>2. Afters(lbCall, c) = 0 /\ Undos(lbCall, c) = 0
    BY <2>1, FS_EmptySet DEF Afters, Undos
  <2>3. penalty[c] = 0 /\ timers[c] = 0
    BY DEF LBInit
  <2> QED
    BY <2>2, <2>3, LBAssumption DEF Paid
<1> QED
  BY <1>1, <1>2 DEF LBInv, AllPaid

\* The penalty of every client of an LBClient is what its timers and the calls
\* in incPenalty will take back, and over maxPenalty only by those about to.
THEOREM PenaltiesArePaid == LBSpec => []PenaltyPaid
<1>1. LBInit => LBInv
  BY LBStarts
<1>2. LBInv /\ [LBNext]_lbVars => LBInv'
  <2> SUFFICES ASSUME LBInv, [LBNext]_lbVars PROVE LBInv'
    OBVIOUS
  <2>1. CASE UNCHANGED lbVars
    BY <2>1 DEF lbVars, LBInv, LBTyped, Looks, AllPaid, Paid
  <2>2. ASSUME NEW p \in LBCallers, LBGet(p) PROVE LBInv'
    BY <2>2, GetKeeps
  <2>9. ASSUME NEW p \in LBCallers, LBLook(p) PROVE LBInv'
    BY <2>9, LookKeeps
  <2>3. ASSUME NEW p \in LBCallers, LBHealthy(p) PROVE LBInv'
    BY <2>3, HealthyKeeps
  <2>4. ASSUME NEW p \in LBCallers, LBFailed(p) PROVE LBInv'
    BY <2>4, FailedKeeps
  <2>5. ASSUME NEW p \in LBCallers, LBUndo(p) PROVE LBInv'
    BY <2>5, UndoKeeps
  <2>6. ASSUME NEW p \in LBCallers, LBAfter(p) PROVE LBInv'
    BY <2>6, AfterKeeps
  <2>7. ASSUME NEW c \in LBClients, decPenalty(c) PROVE LBInv'
    BY <2>7, decPenaltyKeeps
  <2>8. CASE AddClient \/ RemoveClients
    BY <2>8, ListKeeps
  <2> QED
    BY <2>1, <2>2, <2>3, <2>4, <2>5, <2>6, <2>7, <2>8, <2>9 DEF LBNext
<1>3. LBInv => PenaltyPaid
  BY PaidIsPaid DEF LBInv
<1> QED
  BY <1>1, <1>2, <1>3, PTL DEF LBSpec

-----------------------------------------------------------------------------
(* TCPDialer.                                                              *)

DialPCs == {"idle", "resolve", "try", "dial"}
Dials == [pc : DialPCs, n : Int, idx : Int, late : BOOLEAN, calls : Nat]
Entries == [n : Int, idx : Int, age : {"fresh", "stale", "old"}, pending : BOOLEAN]

DialerTyped ==
  /\ entry = NoEntry \/ entry \in Entries
  /\ slots \in Nat
  /\ dial \in [Dialers -> Dials]

\* The parts of DialerAccounts, of the dials f and the entry e.
InDial(f) == {d \in Dialers : f[d].pc = "dial"}
SlotsTaken(n, f) == /\ n = IF Concurrency = 0 THEN 0 ELSE Cardinality(InDial(f))
                    /\ n <= Concurrency
Pending(e) == IF e = NoEntry THEN FALSE ELSE e.pending
Resolving(f) == \E d \in Dialers : f[d].pc = "resolve"

DialerInv == DialerTyped /\ SlotsTaken(slots, dial) /\ (Pending(entry) => Resolving(dial))

LEMMA AccountsAreKept == DialerInv => DialerAccounts
  BY DEF DialerInv, DialerAccounts, SlotsTaken, Pending, Resolving, InDial, Connecting

\* One dial moves to r.
LEMMA DialMoves ==
  ASSUME DialerTyped, NEW d \in Dialers, NEW r \in Dials, dial' = [dial EXCEPT ![d] = r]
  PROVE  /\ dial' \in [Dialers -> Dials] /\ dial'[d] = r
         /\ \A q \in Dialers : q # d => dial'[q] = dial[q]
         /\ Cardinality(InDial(dial)) \in Nat /\ Cardinality(InDial(dial')) \in Nat
         /\ (dial[d].pc = "dial" <=> r.pc = "dial")
            => Cardinality(InDial(dial)) = Cardinality(InDial(dial'))
         /\ dial[d].pc = "dial" /\ r.pc # "dial"
            => Cardinality(InDial(dial)) = Cardinality(InDial(dial')) + 1
         /\ dial[d].pc # "dial" /\ r.pc = "dial"
            => Cardinality(InDial(dial')) = Cardinality(InDial(dial)) + 1
<1> DEFINE A == InDial(dial)
           B == InDial(dial')
<1>1. dial' \in [Dialers -> Dials] /\ dial'[d] = r /\ \A q \in Dialers : q # d => dial'[q] = dial[q]
  BY DEF DialerTyped
<1>2. A \in SUBSET Dialers /\ B \in SUBSET Dialers
  BY DEF InDial
<1>3. \A q \in Dialers : q # d => (q \in A <=> q \in B)
  BY <1>1 DEF InDial
<1>4. (d \in A <=> dial[d].pc = "dial") /\ (d \in B <=> r.pc = "dial")
  BY <1>1 DEF InDial
<1>5. IsFiniteSet(Dialers)
  BY DialerAssumption
<1> HIDE DEF A, B
<1>6. /\ Cardinality(A) \in Nat /\ Cardinality(B) \in Nat
      /\ (d \in A <=> d \in B) => Cardinality(A) = Cardinality(B)
      /\ d \in A /\ d \notin B => Cardinality(A) = Cardinality(B) + 1
      /\ d \notin A /\ d \in B => Cardinality(B) = Cardinality(A) + 1
  BY <1>2, <1>3, <1>5, OneMoves
<1> QED
  BY <1>1, <1>4, <1>6 DEF A, B

\* A step that neither takes nor gives back a slot, and after which the name is
\* resolved by somebody if pending is set.
LEMMA SlotsStay ==
  ASSUME DialerInv, NEW d \in Dialers, NEW r \in Dials, dial' = [dial EXCEPT ![d] = r],
         dial[d].pc = "dial" <=> r.pc = "dial", slots' = slots,
         entry' = NoEntry \/ entry' \in Entries, Pending(entry') => Resolving(dial')
  PROVE  DialerInv'
<1>1. DialerTyped
  BY DEF DialerInv
<1>2. dial' \in [Dialers -> Dials] /\ Cardinality(InDial(dial)) = Cardinality(InDial(dial'))
  BY <1>1, DialMoves
<1>3. DialerTyped'
  BY <1>1, <1>2 DEF DialerTyped
<1>4. SlotsTaken(slots', dial')
  BY <1>2 DEF DialerInv, SlotsTaken
<1> QED
  BY <1>3, <1>4 DEF DialerInv

\* A dial that ends is idle.
LEMMA Idles ==
  ASSUME DialerTyped, NEW d \in Dialers, Ends(d)
  PROVE  \E r \in Dials : r.pc = "idle" /\ dial' = [dial EXCEPT ![d] = r]
<1> DEFINE r == [dial[d] EXCEPT !.pc = "idle", !.n = 0, !.idx = 0, !.late = FALSE]
<1>1. dial[d] \in Dials /\ "idle" \in DialPCs /\ 0 \in Int /\ FALSE \in BOOLEAN
  BY DEF DialerTyped, DialPCs
<1>2. r \in Dials
  BY <1>1, Zenon DEF Dials
<1>4. r.pc = "idle"
  BY <1>1 DEF Dials
<1>3. dial' = [dial EXCEPT ![d] = r]
  BY DEF Ends
<1> QED
  BY <1>2, <1>3, <1>4

\* The goroutine that resolves another dial's name goes on doing so.
LEMMA StillResolving ==
  ASSUME DialerTyped, NEW d \in Dialers, NEW r \in Dials, dial' = [dial EXCEPT ![d] = r],
         dial[d].pc # "resolve", Resolving(dial)
  PROVE  Resolving(dial')
  BY DEF DialerTyped, Resolving

\* getTCPAddrs and its outcomes.
LEMMA AddrsKeep ==
  ASSUME DialerInv, NEW d \in Dialers,
         UseEntry(d) \/ StartResolve(d) \/ Resolved(d) \/ ResolveFails(d)
  PROVE  DialerInv'
<1>1. /\ DialerTyped /\ dial[d] \in Dials /\ (entry = NoEntry \/ entry \in Entries)
      /\ MaxAddrs \in Nat \ {0} /\ 1 % MaxAddrs \in Int
      /\ (Pending(entry) => Resolving(dial))
  BY DialerAssumption DEF DialerInv, DialerTyped
<1>2. CASE UseEntry(d)
  <2>1. entry # NoEntry /\ entry \in Entries /\ dial[d].pc = "idle" /\ slots' = slots
    BY <1>1, <1>2 DEF UseEntry, Usable
  <2>2. (entry.idx + 1) % MaxAddrs \in Int
    BY <1>1, <2>1 DEF Entries
  <2> DEFINE r == [dial[d] EXCEPT !.pc = "try", !.n = entry.n, !.idx = (entry.idx + 1) % MaxAddrs,
                                  !.calls = @ + 1]
  <2>3. r \in Dials /\ r.pc = "try"
    <3>1. "try" \in DialPCs /\ entry.n \in Int /\ dial[d].calls + 1 \in Nat
      BY <1>1, <2>1 DEF Dials, Entries, DialPCs
    <3>2. r \in Dials
      BY <1>1, <2>2, <3>1, Zenon DEF Dials
    <3> QED
      BY <1>1, <3>2 DEF Dials
  <2>4. dial' = [dial EXCEPT ![d] = r]
    BY <1>1, <1>2, <2>3 DEF UseEntry, DialerTyped, Dials
  <2>5. entry' \in Entries /\ entry'.pending = entry.pending
    BY <1>2, <2>1, <2>2 DEF UseEntry, Entries
  <2>6. Pending(entry') => Resolving(dial)
    BY <1>1, <2>1, <2>5 DEF Pending
  <2> HIDE DEF r
  <2>7. Pending(entry') => Resolving(dial')
    BY <1>1, <2>1, <2>3, <2>4, <2>6, StillResolving
  <2> QED
    BY <2>1, <2>3, <2>4, <2>5, <2>7, SlotsStay
<1>3. CASE StartResolve(d)
  <2> DEFINE r == [dial[d] EXCEPT !.pc = "resolve", !.calls = @ + 1]
  <2>1. dial[d].pc = "idle" /\ slots' = slots /\ dial' = [dial EXCEPT ![d] = r]
    BY <1>1, <1>3 DEF StartResolve, DialerTyped, Dials
  <2>2. r \in Dials /\ r.pc = "resolve"
    <3>1. "resolve" \in DialPCs /\ dial[d].calls + 1 \in Nat
      BY <1>1 DEF Dials, DialPCs
    <3>2. r \in Dials
      BY <1>1, <3>1, Zenon DEF Dials
    <3> QED
      BY <1>1, <3>2 DEF Dials
  <2>3. entry' = NoEntry \/ entry' \in Entries
    BY <1>1, <1>3 DEF StartResolve, Entries
  <2> HIDE DEF r
  <2>4. Resolving(dial')
    BY <1>1, <2>1, <2>2 DEF DialerTyped, Resolving
  <2> QED
    BY <2>1, <2>2, <2>3, <2>4, SlotsStay
<1>4. CASE Resolved(d)
  <2>1. PICK n \in 1..MaxAddrs :
          /\ entry' = [NewEntry(n) EXCEPT !.idx = 1 % MaxAddrs]
          /\ dial' = [dial EXCEPT ![d] = [@ EXCEPT !.pc = "try", !.n = n, !.idx = 1 % MaxAddrs]]
    BY <1>4 DEF Resolved
  <2> DEFINE r == [dial[d] EXCEPT !.pc = "try", !.n = n, !.idx = 1 % MaxAddrs]
  <2>2. dial[d].pc = "resolve" /\ slots' = slots /\ dial' = [dial EXCEPT ![d] = r]
    BY <1>4, <2>1 DEF Resolved
  <2>3. r \in Dials /\ r.pc = "try"
    <3>1. "try" \in DialPCs /\ n \in Int
      BY <1>1 DEF DialPCs
    <3>2. r \in Dials
      BY <1>1, <3>1, Zenon DEF Dials
    <3> QED
      BY <1>1, <3>2 DEF Dials
  <2>4. entry' \in Entries /\ entry'.pending = FALSE
    <3>1. /\ n \in Int /\ 0 \in Int /\ "fresh" \in {"fresh", "stale", "old"} /\ FALSE \in BOOLEAN
      OBVIOUS
    <3>2. NewEntry(n) \in Entries
      BY <3>1, Zenon DEF NewEntry, Entries
    <3>3. entry' \in Entries
      BY <1>1, <2>1, <3>2, Zenon DEF Entries
    <3>4. NewEntry(n).pending = FALSE
      BY DEF NewEntry
    <3> QED
      BY <2>1, <3>2, <3>3, <3>4 DEF Entries
  <2>5. ~Pending(entry')
    BY <2>4 DEF Pending
  <2> HIDE DEF r
  <2> QED
    BY <2>2, <2>3, <2>4, <2>5, SlotsStay
<1>5. CASE ResolveFails(d)
  <2>1. PICK r \in Dials : r.pc = "idle" /\ dial' = [dial EXCEPT ![d] = r]
    BY <1>1, <1>5, Idles DEF ResolveFails
  <2>2. dial[d].pc = "resolve" /\ slots' = slots
    BY <1>5 DEF ResolveFails
  <2>3. entry' = NoEntry \/ (entry' \in Entries /\ entry'.pending = FALSE)
    BY <1>1, <1>5 DEF ResolveFails, Entries
  <2>4. ~Pending(entry')
    BY <2>3 DEF Pending
  <2> QED
    BY <2>1, <2>2, <2>3, <2>4, SlotsStay
<1> QED
  BY <1>2, <1>3, <1>4, <1>5

\* A dial takes its slot of concurrencyCh.
LEMMA TakeSlotKeeps ==
  ASSUME DialerInv, NEW d \in Dialers, TakeSlot(d)
  PROVE  DialerInv'
<1>1. DialerTyped /\ dial[d] \in Dials /\ dial[d].pc = "try" /\ entry' = entry /\ Concurrency \in Nat
  BY DialerAssumption DEF DialerInv, DialerTyped, TakeSlot
<1> DEFINE r == [dial[d] EXCEPT !.pc = "dial"]
<1>2. r \in Dials /\ r.pc = "dial"
  <2>1. "dial" \in DialPCs
    BY DEF DialPCs
  <2>2. r \in Dials
    BY <1>1, <2>1, Zenon DEF Dials
  <2> QED
    BY <1>1, <2>2 DEF Dials
<1>3. dial' = [dial EXCEPT ![d] = r]
  BY DEF TakeSlot
<1> HIDE DEF r
<1>4. PICK a \in Nat, b \in Nat : /\ a = Cardinality(InDial(dial)) /\ b = Cardinality(InDial(dial'))
                                  /\ b = a + 1
  BY <1>1, <1>2, <1>3, DialMoves
<1>5. dial' \in [Dialers -> Dials]
  BY <1>1, <1>2, <1>3, DialMoves
<1>6. Pending(entry') => Resolving(dial')
  BY <1>1, <1>2, <1>3, StillResolving DEF DialerInv
<1>7. slots' \in Nat /\ SlotsTaken(slots', dial')
  <2>1. CASE Concurrency = 0
    BY <1>1, <2>1 DEF TakeSlot, DialerInv, DialerTyped, SlotsTaken
  <2>2. CASE Concurrency # 0
    <3>1. slots = a /\ slots < Concurrency /\ slots' = slots + 1
      BY <1>4, <2>2 DEF TakeSlot, DialerInv, SlotsTaken
    <3>2. slots' = b /\ slots' <= Concurrency
      BY <1>1, <1>4, <3>1
    <3> QED
      BY <1>4, <2>2, <3>2 DEF SlotsTaken
  <2> QED
    BY <2>1, <2>2
<1>8. DialerTyped'
  BY <1>1, <1>5, <1>7 DEF DialerTyped
<1> QED
  BY <1>6, <1>7, <1>8 DEF DialerInv

\* DialContext returns: the slot is given back, whether the dial ends or the next
\* address is tried.
LEMMA DialEndsKeeps ==
  ASSUME DialerInv, NEW d \in Dialers, DialEnds(d)
  PROVE  DialerInv'
<1>1. DialerTyped /\ dial[d] \in Dials /\ dial[d].pc = "dial" /\ entry' = entry /\ Concurrency \in Nat
  BY DialerAssumption DEF DialerInv, DialerTyped, DialEnds
<1>2. PICK r \in Dials : r.pc # "dial" /\ dial' = [dial EXCEPT ![d] = r]
  <2>1. CASE Ends(d)
    BY <1>1, <2>1, Idles
  <2>2. CASE ~Ends(d)
    <3> DEFINE r == [dial[d] EXCEPT !.pc = "try", !.n = dial[d].n - 1, !.idx = (dial[d].idx + 1) % MaxAddrs]
    <3>1. dial' = [dial EXCEPT ![d] = r]
      BY <2>2 DEF DialEnds
    <3>2. "try" \in DialPCs /\ dial[d].n - 1 \in Int /\ (dial[d].idx + 1) % MaxAddrs \in Int
      BY <1>1, DialerAssumption DEF Dials, DialPCs
    <3>3. r \in Dials
      BY <1>1, <3>2, Zenon DEF Dials
    <3>4. r.pc = "try"
      BY <1>1, <3>3 DEF Dials
    <3> QED
      BY <3>1, <3>3, <3>4
  <2> QED
    BY <2>1, <2>2
<1>3. PICK a \in Nat, b \in Nat : /\ a = Cardinality(InDial(dial)) /\ b = Cardinality(InDial(dial'))
                                  /\ a = b + 1
  BY <1>1, <1>2, DialMoves
<1>4. dial' \in [Dialers -> Dials]
  BY <1>1, <1>2, DialMoves
<1>5. Pending(entry') => Resolving(dial')
  BY <1>1, <1>2, StillResolving DEF DialerInv
<1>6. slots' \in Nat /\ SlotsTaken(slots', dial')
  <2>1. CASE Concurrency = 0
    BY <1>1, <2>1 DEF DialEnds, DialerInv, DialerTyped, SlotsTaken
  <2>2. CASE Concurrency # 0
    <3>1. slots = a /\ slots <= Concurrency /\ slots' = slots - 1
      BY <1>3, <2>2 DEF DialEnds, DialerInv, SlotsTaken
    <3>2. slots' = b /\ slots' <= Concurrency
      BY <1>1, <1>3, <3>1
    <3> QED
      BY <1>3, <2>2, <3>2 DEF SlotsTaken
  <2> QED
    BY <2>1, <2>2
<1>7. DialerTyped'
  BY <1>1, <1>4, <1>6 DEF DialerTyped
<1> QED
  BY <1>5, <1>6, <1>7 DEF DialerInv

\* Timeouts, and the age of the entry.
LEMMA TimeKeeps ==
  ASSUME DialerInv, (\E d \in Dialers : SlotTimeout(d) \/ DialLate(d)) \/ EntryAges \/ tcpAddrsClean
  PROVE  DialerInv'
<1>1. DialerTyped /\ (entry = NoEntry \/ entry \in Entries) /\ (Pending(entry) => Resolving(dial))
  BY DEF DialerInv, DialerTyped
<1>2. ASSUME NEW d \in Dialers, SlotTimeout(d) PROVE DialerInv'
  <2>1. PICK r \in Dials : r.pc = "idle" /\ dial' = [dial EXCEPT ![d] = r]
    BY <1>1, <1>2, Idles DEF SlotTimeout
  <2>2. dial[d].pc = "try" /\ slots' = slots /\ entry' = entry
    BY <1>2 DEF SlotTimeout
  <2>3. Pending(entry') => Resolving(dial')
    BY <1>1, <2>1, <2>2, StillResolving
  <2> QED
    BY <1>1, <2>1, <2>2, <2>3, SlotsStay
<1>3. ASSUME NEW d \in Dialers, DialLate(d) PROVE DialerInv'
  <2> DEFINE r == [dial[d] EXCEPT !.late = TRUE]
  <2>1. dial' = [dial EXCEPT ![d] = r] /\ slots' = slots /\ entry' = entry
    BY <1>3 DEF DialLate
  <2>2. dial[d] \in Dials /\ TRUE \in BOOLEAN /\ dial[d].pc # "resolve"
    BY <1>1, <1>3 DEF DialerTyped, DialLate
  <2>3. r \in Dials
    BY <2>2, Zenon DEF Dials
  <2>4. r.pc = dial[d].pc
    BY <2>2 DEF Dials
  <2> HIDE DEF r
  <2>5. Pending(entry') => Resolving(dial')
    BY <1>1, <2>1, <2>2, <2>3, StillResolving
  <2> QED
    BY <1>1, <2>1, <2>3, <2>4, <2>5, SlotsStay
<1>4. CASE EntryAges \/ tcpAddrsClean
  <2>1. UNCHANGED <<slots, dial>>
    BY <1>4 DEF EntryAges, tcpAddrsClean
  <2>2. (entry' = NoEntry \/ entry' \in Entries) /\ (Pending(entry') => Pending(entry))
    <3>1. CASE tcpAddrsClean
      BY <3>1 DEF tcpAddrsClean, Pending
    <3>2. CASE EntryAges
      <4>1. /\ entry # NoEntry /\ entry \in Entries
            /\ entry' = [entry EXCEPT !.age = IF entry.age = "fresh" THEN "stale" ELSE "old"]
        BY <1>1, <3>2 DEF EntryAges
      <4> DEFINE a == IF entry.age = "fresh" THEN "stale" ELSE "old"
      <4>2. a \in {"fresh", "stale", "old"} /\ entry' = [entry EXCEPT !.age = a]
        BY <4>1
      <4> HIDE DEF a
      <4>3. entry' \in Entries
        BY <4>1, <4>2, Zenon DEF Entries
      <4>4. entry'.pending = entry.pending
        BY <4>1, <4>2 DEF Entries
      <4> QED
        BY <4>1, <4>3, <4>4 DEF Pending
    <3> QED
      BY <1>4, <3>1, <3>2
  <2>3. DialerTyped'
    BY <1>1, <2>1, <2>2 DEF DialerTyped
  <2>4. SlotsTaken(slots', dial')
    BY <2>1 DEF DialerInv
  <2> QED
    BY <1>1, <2>1, <2>2, <2>3, <2>4 DEF DialerInv
<1> QED
  BY <1>2, <1>3, <1>4

LEMMA DialerStarts == DialerInit => DialerInv
<1> SUFFICES ASSUME DialerInit PROVE DialerInv
  OBVIOUS
<1>1. dial \in [Dialers -> Dials]
  <2>1. "idle" \in DialPCs /\ 0 \in Int /\ 0 \in Nat /\ FALSE \in BOOLEAN
    BY DEF DialPCs
  <2>2. [pc |-> "idle", n |-> 0, idx |-> 0, late |-> FALSE, calls |-> 0] \in Dials
    BY <2>1, Zenon DEF Dials
  <2> QED
    BY <2>2 DEF DialerInit
<1>2. InDial(dial) = {}
  BY DEF DialerInit, InDial
<1>3. SlotsTaken(slots, dial)
  <2>1. Cardinality(InDial(dial)) = 0
    BY <1>2, FS_EmptySet, Zenon
  <2>2. slots = 0 /\ Concurrency \in Nat
    BY DialerAssumption DEF DialerInit
  <2> QED
    BY <2>1, <2>2 DEF SlotsTaken
<1> QED
  BY <1>1, <1>3 DEF DialerInit, DialerInv, DialerTyped, Pending

\* The slots of concurrencyCh are those of the dials in progress, never more than
\* Concurrency, and pending is set only while some goroutine resolves the name.
THEOREM SlotsAreReturned == DialerSpec => []DialerAccounts
<1>1. DialerInit => DialerInv
  BY DialerStarts
<1>2. DialerInv /\ [DialerNext]_dialerVars => DialerInv'
  <2> SUFFICES ASSUME DialerInv, [DialerNext]_dialerVars PROVE DialerInv'
    OBVIOUS
  <2>1. CASE UNCHANGED dialerVars
    BY <2>1 DEF dialerVars, DialerInv, DialerTyped
  <2>2. ASSUME NEW d \in Dialers, UseEntry(d) \/ StartResolve(d) \/ Resolved(d) \/ ResolveFails(d)
        PROVE  DialerInv'
    BY <2>2, AddrsKeep
  <2>3. ASSUME NEW d \in Dialers, TakeSlot(d) PROVE DialerInv'
    BY <2>3, TakeSlotKeeps
  <2>4. ASSUME NEW d \in Dialers, DialEnds(d) PROVE DialerInv'
    BY <2>4, DialEndsKeeps
  <2>5. CASE (\E d \in Dialers : SlotTimeout(d) \/ DialLate(d)) \/ EntryAges \/ tcpAddrsClean
    BY <2>5, TimeKeeps
  <2> QED
    BY <2>1, <2>2, <2>3, <2>4, <2>5 DEF DialerNext
<1>3. DialerInv => DialerAccounts
  BY AccountsAreKept
<1> QED
  BY <1>1, <1>2, <1>3, PTL DEF DialerSpec

-----------------------------------------------------------------------------
(* Client: the map of hosts and its cleaner.                               *)

HostClientRecs == [host : Hosts \cup {None}, idle : Nat, stray : Nat, pending : Nat]
ReqPCs == {"idle", "lookup", "create", "do", "using"}
ReqRecs == [pc : ReqPCs, host : Hosts \cup {None}, hc : HostClients \cup {None}, start : BOOLEAN,
            redirects : Nat, n : Nat]

\* Between lookup and the end of Do a request refers to its HostClient; it starts
\* the cleaner before it goes on to a connection.
GoodReq(r) ==
  /\ r \in ReqRecs
  /\ r.pc \in {"do", "using"} => r.hc \in HostClients
  /\ r.pc \notin {"do", "using"} => r.hc = None
  /\ r.pc \in {"lookup", "create"} => r.host \in Hosts
  /\ r.start => r.pc = "do"

MapTyped ==
  /\ m \in [Hosts -> HostClients \cup {None}]
  /\ hc \in [HostClients -> HostClientRecs]
  /\ req \in [Requesters -> ReqRecs]
  /\ \A p \in Requesters : GoodReq(req[p])
  /\ cleaners \in Nat

\* A HostClient somebody needs; the requests f that refer to c; those about to
\* start a cleaner.
Held(v) == v.idle > 0 \/ v.stray > 0 \/ v.pending > 0
Referring(f, c) == {p \in Requesters : f[p].hc = c}
Starters(f) == {p \in Requesters : f[p].start}

\* The HostClient of a host knows the host, and one that is needed is in the map.
HostsKnown ==
  /\ \A h \in Hosts : m[h] # None => hc[m[h]].host = h
  /\ \A c \in HostClients : Held(hc[c]) => hc[c].host \in Hosts /\ m[hc[c].host] = c

\* pendingClientRequests counts the requests that refer to the HostClient.
PendingExact == \A c \in HostClients : hc[c].pending = Cardinality(Referring(req, c))

\* The map has a cleaner exactly while it is not empty.
Empty(f) == \A h \in Hosts : f[h] = None
OneCleaner == /\ Empty(m) => cleaners = 0 /\ Cardinality(Starters(req)) = 0
              /\ ~Empty(m) => cleaners + Cardinality(Starters(req)) = 1

MapInv == MapTyped /\ HostsKnown /\ PendingExact /\ OneCleaner

\* One request moves.
ReqMoves(p, f, g) == \A q \in Requesters : q # p => g[q] = f[q]

LEMMA ReqStep ==
  ASSUME MapTyped, NEW p \in Requesters, NEW r, GoodReq(r), Goes(p, r)
  PROVE  /\ req' \in [Requesters -> ReqRecs] /\ req'[p] = r /\ ReqMoves(p, req, req')
         /\ \A q \in Requesters : GoodReq(req'[q])
<1>1. r \in ReqRecs
  BY DEF GoodReq
<1>2. req' \in [Requesters -> ReqRecs] /\ req'[p] = r /\ \A q \in Requesters : q # p => req'[q] = req[q]
  BY <1>1 DEF MapTyped, Goes
<1>3. \A q \in Requesters : GoodReq(req'[q])
  BY <1>2 DEF MapTyped
<1> QED
  BY <1>2, <1>3 DEF ReqMoves

LEMMA RefsCount ==
  ASSUME NEW p \in Requesters, NEW f, NEW g, ReqMoves(p, f, g), NEW c
  PROVE  /\ Cardinality(Referring(f, c)) \in Nat /\ Cardinality(Referring(g, c)) \in Nat
         /\ (f[p].hc = c <=> g[p].hc = c) => Cardinality(Referring(f, c)) = Cardinality(Referring(g, c))
         /\ f[p].hc = c /\ g[p].hc # c => Cardinality(Referring(f, c)) = Cardinality(Referring(g, c)) + 1
         /\ f[p].hc # c /\ g[p].hc = c => Cardinality(Referring(g, c)) = Cardinality(Referring(f, c)) + 1
<1> DEFINE A == Referring(f, c)
           B == Referring(g, c)
<1>1. A \in SUBSET Requesters /\ B \in SUBSET Requesters /\ IsFiniteSet(Requesters)
  BY ClientAssumption DEF Referring
<1>2. \A q \in Requesters : q # p => (q \in A <=> q \in B)
  BY DEF Referring, ReqMoves
<1>3. (p \in A <=> f[p].hc = c) /\ (p \in B <=> g[p].hc = c)
  BY DEF Referring
<1> HIDE DEF A, B
<1>4. /\ Cardinality(A) \in Nat /\ Cardinality(B) \in Nat
      /\ (p \in A <=> p \in B) => Cardinality(A) = Cardinality(B)
      /\ p \in A /\ p \notin B => Cardinality(A) = Cardinality(B) + 1
      /\ p \notin A /\ p \in B => Cardinality(B) = Cardinality(A) + 1
  BY <1>1, <1>2, OneMoves
<1> QED
  BY <1>3, <1>4 DEF A, B

LEMMA StartsCount ==
  ASSUME NEW p \in Requesters, NEW f, NEW g, ReqMoves(p, f, g)
  PROVE  /\ Cardinality(Starters(f)) \in Nat /\ Cardinality(Starters(g)) \in Nat
         /\ (f[p].start <=> g[p].start) => Cardinality(Starters(f)) = Cardinality(Starters(g))
         /\ f[p].start /\ ~g[p].start => Cardinality(Starters(f)) = Cardinality(Starters(g)) + 1
         /\ ~f[p].start /\ g[p].start => Cardinality(Starters(g)) = Cardinality(Starters(f)) + 1
<1> DEFINE A == Starters(f)
           B == Starters(g)
<1>1. A \in SUBSET Requesters /\ B \in SUBSET Requesters /\ IsFiniteSet(Requesters)
  BY ClientAssumption DEF Starters
<1>2. \A q \in Requesters : q # p => (q \in A <=> q \in B)
  BY DEF Starters, ReqMoves
<1>3. (p \in A <=> f[p].start) /\ (p \in B <=> g[p].start)
  BY DEF Starters
<1> HIDE DEF A, B
<1>4. /\ Cardinality(A) \in Nat /\ Cardinality(B) \in Nat
      /\ (p \in A <=> p \in B) => Cardinality(A) = Cardinality(B)
      /\ p \in A /\ p \notin B => Cardinality(A) = Cardinality(B) + 1
      /\ p \notin A /\ p \in B => Cardinality(B) = Cardinality(A) + 1
  BY <1>1, <1>2, OneMoves
<1> QED
  BY <1>3, <1>4 DEF A, B

\* A request moves without touching a HostClient or the map.
LEMMA PlainStep ==
  ASSUME MapInv, NEW p \in Requesters, NEW r, GoodReq(r), Goes(p, r),
         r.hc = req[p].hc, r.start <=> req[p].start, UNCHANGED <<m, hc, cleaners>>
  PROVE  MapInv'
<1>1. MapTyped
  BY DEF MapInv
<1>2. /\ req' \in [Requesters -> ReqRecs] /\ req'[p] = r /\ ReqMoves(p, req, req')
      /\ \A q \in Requesters : GoodReq(req'[q])
  BY <1>1, ReqStep
<1>3. MapTyped'
  BY <1>1, <1>2 DEF MapTyped
<1>4. HostsKnown'
  BY DEF MapInv, HostsKnown
<1>5. PendingExact'
  <2> SUFFICES ASSUME NEW c \in HostClients PROVE hc'[c].pending = Cardinality(Referring(req', c))
    BY DEF PendingExact
  <2>0. ReqMoves(p, req, req') /\ (req[p].hc = c <=> req'[p].hc = c)
    BY <1>2
  <2>1. Cardinality(Referring(req, c)) = Cardinality(Referring(req', c))
    BY <2>0, RefsCount
  <2> QED
    BY <2>1 DEF MapInv, PendingExact
<1>6. OneCleaner'
  <2>0. ReqMoves(p, req, req') /\ (req[p].start <=> req'[p].start)
    BY <1>2
  <2>1. Cardinality(Starters(req)) = Cardinality(Starters(req'))
    BY <2>0, StartsCount
  <2> QED
    BY <2>1 DEF MapInv, OneCleaner
<1> QED
  BY <1>3, <1>4, <1>5, <1>6 DEF MapInv

\* A request moves, and the HostClient c of its host with it.
LEMMA HostStep ==
  ASSUME MapInv, NEW p \in Requesters, NEW r, GoodReq(r), Goes(p, r),
         NEW c \in HostClients, NEW v \in HostClientRecs, hc' = [hc EXCEPT ![c] = v],
         v.host = hc[c].host, hc[c].host \in Hosts, m[hc[c].host] = c,
         r.start <=> req[p].start, UNCHANGED <<m, cleaners>>,
         \/ r.hc = req[p].hc /\ v.pending = hc[c].pending
         \/ req[p].hc = None /\ r.hc = c /\ v.pending = hc[c].pending + 1
         \/ req[p].hc = c /\ r.hc = None /\ v.pending = hc[c].pending - 1
  PROVE  MapInv'
<1>1. MapTyped /\ None # c /\ None \notin HostClients
  BY ClientAssumption DEF MapInv
<1>2. /\ req' \in [Requesters -> ReqRecs] /\ req'[p] = r /\ ReqMoves(p, req, req')
      /\ \A q \in Requesters : GoodReq(req'[q])
  BY <1>1, ReqStep
<1>3. hc' \in [HostClients -> HostClientRecs] /\ hc'[c] = v /\ \A d \in HostClients : d # c => hc'[d] = hc[d]
  BY <1>1 DEF MapTyped
<1>4. MapTyped'
  BY <1>1, <1>2, <1>3 DEF MapTyped
<1>5. HostsKnown'
  <2>1. \A d \in HostClients : hc'[d].host = hc[d].host
    BY <1>3
  <2>2. ASSUME NEW h \in Hosts, m[h] # None PROVE hc'[m[h]].host = h
    BY <1>1, <2>1, <2>2 DEF MapInv, MapTyped, HostsKnown
  <2>3. ASSUME NEW d \in HostClients, Held(hc'[d]) PROVE hc'[d].host \in Hosts /\ m[hc'[d].host] = d
    <3>1. CASE d = c
      BY <2>1, <3>1
    <3>2. CASE d # c
      BY <1>3, <2>3, <3>2 DEF MapInv, HostsKnown
    <3> QED
      BY <3>1, <3>2
  <2> QED
    BY <2>2, <2>3 DEF HostsKnown
<1>6. PendingExact'
  <2> SUFFICES ASSUME NEW d \in HostClients PROVE hc'[d].pending = Cardinality(Referring(req', d))
    BY DEF PendingExact
  <2>1. PICK x \in Nat, y \in Nat : /\ x = Cardinality(Referring(req, d)) /\ y = Cardinality(Referring(req', d))
                                    /\ (req[p].hc = d <=> r.hc = d) => x = y
                                    /\ req[p].hc = d /\ r.hc # d => x = y + 1
                                    /\ req[p].hc # d /\ r.hc = d => y = x + 1
    <3>1. ReqMoves(p, req, req') /\ req'[p].hc = r.hc
      BY <1>2
    <3>2. /\ Cardinality(Referring(req, d)) \in Nat /\ Cardinality(Referring(req', d)) \in Nat
          /\ (req[p].hc = d <=> req'[p].hc = d) => Cardinality(Referring(req, d)) = Cardinality(Referring(req', d))
          /\ req[p].hc = d /\ req'[p].hc # d => Cardinality(Referring(req, d)) = Cardinality(Referring(req', d)) + 1
          /\ req[p].hc # d /\ req'[p].hc = d => Cardinality(Referring(req', d)) = Cardinality(Referring(req, d)) + 1
      BY <3>1, RefsCount
    <3> QED
      BY <3>1, <3>2
  <2>2. hc[d].pending = x
    BY <2>1 DEF MapInv, PendingExact
  <2>3. CASE d = c
    BY <1>1, <1>3, <2>1, <2>2, <2>3
  <2>4. CASE d # c
    BY <1>1, <1>3, <2>1, <2>2, <2>4
  <2> QED
    BY <2>3, <2>4
<1>7. OneCleaner'
  <2>0. ReqMoves(p, req, req') /\ (req[p].start <=> req'[p].start)
    BY <1>2
  <2>1. Cardinality(Starters(req)) = Cardinality(Starters(req'))
    BY <2>0, StartsCount
  <2> QED
    BY <2>1 DEF MapInv, OneCleaner
<1> QED
  BY <1>4, <1>5, <1>6, <1>7 DEF MapInv

\* The HostClient that a request refers to is the one in the map.
LEMMA Referred ==
  ASSUME MapInv, NEW p \in Requesters, req[p].hc \in HostClients
  PROVE  /\ hc[req[p].hc].host \in Hosts /\ m[hc[req[p].hc].host] = req[p].hc
         /\ hc[req[p].hc].pending > 0
<1>1. PICK c \in HostClients : c = req[p].hc
  OBVIOUS
<1>2. p \in Referring(req, c)
  BY <1>1 DEF Referring
<1>3. IsFiniteSet(Referring(req, c))
  <2>1. Referring(req, c) \subseteq Requesters /\ IsFiniteSet(Requesters)
    BY ClientAssumption DEF Referring
  <2> QED
    BY <2>1, FS_Subset
<1>4. Cardinality(Referring(req, c)) \in Nat /\ Cardinality(Referring(req, c)) # 0
  BY <1>2, <1>3, FS_CardinalityType, FS_EmptySet
<1>5. hc[c].pending > 0
  BY <1>4 DEF MapInv, PendingExact
<1>6. Held(hc[c])
  BY <1>5 DEF Held
<1> QED
  BY <1>1, <1>5, <1>6 DEF MapInv, HostsKnown

\* What is known of a request.
LEMMA ReqKnown ==
  ASSUME MapInv, NEW p \in Requesters
  PROVE  /\ GoodReq(req[p]) /\ req[p] \in ReqRecs /\ req[p].redirects \in Nat /\ req[p].n \in Nat
         /\ req[p].host \in Hosts \cup {None} /\ None \notin HostClients
<1>1. req[p] \in ReqRecs /\ GoodReq(req[p])
  BY DEF MapInv, MapTyped
<1> QED
  BY <1>1, ClientAssumption DEF ReqRecs

\* A request begins, by Do or by GetDeadline.
LEMMA BeginKeeps ==
  ASSUME MapInv, NEW p \in Requesters, NEW h \in Hosts, NEW k \in Nat, req[p].pc = "idle",
         Goes(p, [req[p] EXCEPT !.pc = "lookup", !.host = h, !.redirects = k, !.n = @ + 1]),
         UNCHANGED <<m, hc, cleaners>>
  PROVE  MapInv'
<1>1. GoodReq(req[p]) /\ req[p] \in ReqRecs /\ req[p].n \in Nat
  BY ReqKnown
<1> DEFINE r == [req[p] EXCEPT !.pc = "lookup", !.host = h, !.redirects = k, !.n = req[p].n + 1]
<1>91. r \in ReqRecs
  <2>1. "lookup" \in ReqPCs /\ h \in Hosts \cup {None} /\ req[p].n + 1 \in Nat
    BY <1>1 DEF ReqRecs, ReqPCs
  <2> QED
    BY <1>1, <2>1, Zenon DEF ReqRecs
<1>92. r.pc = "lookup" /\ r.host = h /\ r.hc = req[p].hc /\ r.start = req[p].start
  BY <1>1 DEF ReqRecs
<1>2. GoodReq(r)
  BY <1>1, <1>91, <1>92 DEF GoodReq
<1>3. Goes(p, r)
  OBVIOUS
<1> HIDE DEF r
<1> QED
  BY <1>2, <1>3, <1>92, PlainStep

\* The host is looked up: found, or to be made under the lock.
LEMMA LookupKeeps ==
  ASSUME MapInv, NEW p \in Requesters, Lookup(p) \/ (Create(p) /\ m[req[p].host] # None)
  PROVE  MapInv'
<1>1. /\ GoodReq(req[p]) /\ req[p] \in ReqRecs /\ req[p].pc \in {"lookup", "create"}
      /\ req[p].host \in Hosts /\ req[p].hc = None /\ ~req[p].start
  BY ReqKnown DEF Lookup, Create, GoodReq
<1>2. PICK c \in HostClients \cup {None} : c = m[req[p].host]
  BY <1>1 DEF MapInv, MapTyped
<1>3. CASE c = None
  <2> DEFINE r == [req[p] EXCEPT !.pc = "create"]
  <2>91. r \in ReqRecs
    <3>1. "create" \in ReqPCs
      BY <1>1 DEF ReqRecs, ReqPCs
    <3> QED
      BY <1>1, <3>1, Zenon DEF ReqRecs
  <2>92. r.pc = "create" /\ r.host = req[p].host /\ r.hc = req[p].hc /\ r.start = req[p].start
    BY <1>1 DEF ReqRecs
  <2>1. Goes(p, r) /\ UNCHANGED <<m, hc, cleaners>>
    BY <1>2, <1>3 DEF Lookup
  <2>2. GoodReq(r)
    BY <1>1, <2>91, <2>92 DEF GoodReq
  <2> HIDE DEF r
  <2> QED
    BY <2>1, <2>2, <2>92, PlainStep
<1>4. CASE c # None
  <2> DEFINE r == [req[p] EXCEPT !.pc = "do", !.hc = c]
  <2>91. r \in ReqRecs
    <3>1. "do" \in ReqPCs /\ c \in HostClients \cup {None}
      BY <1>1 DEF ReqRecs, ReqPCs
    <3> QED
      BY <1>1, <1>4, <3>1, Zenon DEF ReqRecs
  <2>92. r.pc = "do" /\ r.hc = c /\ r.host = req[p].host /\ r.start = req[p].start
    BY <1>1, <1>4 DEF ReqRecs
  <2> DEFINE v == [hc[c] EXCEPT !.pending = hc[c].pending + 1]
  <2>1. Goes(p, r) /\ UNCHANGED <<m, cleaners>>
    BY <1>2, <1>4 DEF Lookup, Create
  <2>2. GoodReq(r)
    BY <1>1, <1>4, <2>91, <2>92 DEF GoodReq
  <2>3. c \in HostClients /\ hc[c] \in HostClientRecs /\ hc[c].host = req[p].host
    BY <1>1, <1>2, <1>4 DEF MapInv, MapTyped, HostsKnown
  <2>4. v \in HostClientRecs /\ v.host = hc[c].host /\ v.pending = hc[c].pending + 1
    BY <2>3 DEF HostClientRecs
  <2>5. hc' = [hc EXCEPT ![c] = v]
    BY <1>2, <1>4 DEF Lookup, Create
  <2> HIDE DEF r, v
  <2> QED
    BY <1>1, <1>2, <2>1, <2>2, <2>3, <2>4, <2>5, <2>92, HostStep
<1> QED
  BY <1>3, <1>4

\* ConfigureClient fails.
LEMMA ConfigureFailsKeeps ==
  ASSUME MapInv, NEW p \in Requesters, ConfigureFails(p)
  PROVE  MapInv'
<1>1. GoodReq(req[p]) /\ req[p] \in ReqRecs /\ req[p].pc = "create" /\ UNCHANGED <<m, hc, cleaners>>
  BY ReqKnown DEF ConfigureFails
<1> DEFINE r == [req[p] EXCEPT !.pc = "idle"]
<1>91. r \in ReqRecs
  <2>1. "idle" \in ReqPCs
    BY <1>1 DEF ReqRecs, ReqPCs
  <2> QED
    BY <1>1, <2>1, Zenon DEF ReqRecs
<1>92. r.pc = "idle" /\ r.host = req[p].host /\ r.hc = req[p].hc /\ r.start = req[p].start
  BY <1>1 DEF ReqRecs
<1>2. GoodReq(r)
  BY <1>1, <1>91, <1>92 DEF GoodReq
<1>3. Goes(p, r)
  BY DEF ConfigureFails
<1> HIDE DEF r
<1> QED
  BY <1>1, <1>2, <1>3, <1>92, PlainStep

\* hc.Do takes a connection.
LEMMA AcquireKeeps ==
  ASSUME MapInv, NEW p \in Requesters, Acquire(p)
  PROVE  MapInv'
<1>1. GoodReq(req[p]) /\ req[p] \in ReqRecs /\ req[p].pc = "do" /\ ~req[p].start /\ UNCHANGED <<m, cleaners>>
  BY ReqKnown DEF Acquire
<1>2. PICK c \in HostClients : c = req[p].hc
  BY <1>1 DEF GoodReq
<1> DEFINE r == [req[p] EXCEPT !.pc = "using"]
<1>91. r \in ReqRecs
  <2>1. "using" \in ReqPCs
    BY <1>1 DEF ReqRecs, ReqPCs
  <2> QED
    BY <1>1, <2>1, Zenon DEF ReqRecs
<1>92. r.pc = "using" /\ r.host = req[p].host /\ r.hc = req[p].hc /\ r.start = req[p].start
  BY <1>1 DEF ReqRecs
<1>3. GoodReq(r)
  BY <1>1, <1>91, <1>92 DEF GoodReq
<1>4. Goes(p, r)
  BY DEF Acquire
<1> HIDE DEF r
<1>5. CASE hc' = hc
  BY <1>1, <1>3, <1>4, <1>5, <1>92, PlainStep
<1>6. CASE hc' # hc
  <2> DEFINE v == [hc[c] EXCEPT !.idle = hc[c].idle - 1]
  <2>1. hc[c].idle > 0 /\ hc' = [hc EXCEPT ![c] = v]
    BY <1>2, <1>6 DEF Acquire
  <2>2. hc[c] \in HostClientRecs
    BY DEF MapInv, MapTyped
  <2>3. v \in HostClientRecs /\ v.host = hc[c].host /\ v.pending = hc[c].pending
    BY <2>1, <2>2 DEF HostClientRecs
  <2>4. hc[c].host \in Hosts /\ m[hc[c].host] = c
    BY <1>2, Referred
  <2> HIDE DEF v
  <2> QED
    BY <1>1, <1>3, <1>4, <1>92, <2>1, <2>3, <2>4, HostStep
<1> QED
  BY <1>5, <1>6

\* hc.Do returns.
LEMMA DoEndsKeeps ==
  ASSUME MapInv, NEW p \in Requesters, DoEnds(p) \/ NoFreeConns(p)
  PROVE  MapInv'
<1>1. /\ GoodReq(req[p]) /\ req[p] \in ReqRecs /\ req[p].pc \in {"do", "using"} /\ ~req[p].start
      /\ UNCHANGED <<m, cleaners>> /\ req[p].redirects \in Nat
  BY ReqKnown DEF DoEnds, NoFreeConns, GoodReq
<1>2. PICK c \in HostClients : c = req[p].hc
  BY <1>1 DEF GoodReq
<1>3. hc[c] \in HostClientRecs
  BY DEF MapInv, MapTyped
<1>4. PICK w \in HostClientRecs : /\ w.host = hc[c].host /\ w.pending = hc[c].pending
                                  /\ hc' = [hc EXCEPT ![c] = [w EXCEPT !.pending = w.pending - 1]]
  <2>1. CASE DoEnds(p)
    <3>1. PICK v \in {[hc[c] EXCEPT !.idle = @ + 1], hc[c], [hc[c] EXCEPT !.stray = @ + 1]} :
            hc' = [hc EXCEPT ![c] = [v EXCEPT !.pending = v.pending - 1]]
      BY <1>2, <2>1 DEF DoEnds
    <3>2. v \in HostClientRecs /\ v.host = hc[c].host /\ v.pending = hc[c].pending
      BY <1>3, <3>1 DEF HostClientRecs
    <3> QED
      BY <3>1, <3>2
  <2>2. CASE NoFreeConns(p)
    BY <1>2, <1>3, <2>2 DEF NoFreeConns
  <2> QED
    BY <2>1, <2>2
<1>5. PICK r : GoodReq(r) /\ Goes(p, r) /\ r.hc = None /\ ~r.start
  <2>1. CASE Goes(p, [req[p] EXCEPT !.pc = "idle", !.hc = None])
    <3> DEFINE r == [req[p] EXCEPT !.pc = "idle", !.hc = None]
    <3>91. r \in ReqRecs
      <4>1. "idle" \in ReqPCs /\ None \in HostClients \cup {None}
        BY <1>1 DEF ReqRecs, ReqPCs
      <4> QED
        BY <1>1, <4>1, Zenon DEF ReqRecs
    <3>92. r.pc = "idle" /\ r.hc = None /\ r.start = req[p].start
      BY <1>1 DEF ReqRecs
    <3>1. GoodReq(r)
      BY <1>1, <3>91, <3>92 DEF GoodReq
    <3> QED
      BY <1>1, <2>1, <3>1, <3>92
  <2>2. ASSUME NEW h \in Hosts,
               Goes(p, [req[p] EXCEPT !.pc = "lookup", !.hc = None, !.host = h, !.redirects = @ + 1])
        PROVE  \E r : GoodReq(r) /\ Goes(p, r) /\ r.hc = None /\ ~r.start
    <3> DEFINE r == [req[p] EXCEPT !.pc = "lookup", !.hc = None, !.host = h, !.redirects = req[p].redirects + 1]
    <3>91. r \in ReqRecs
      <4>1. "lookup" \in ReqPCs /\ None \in HostClients \cup {None} /\ h \in Hosts \cup {None} /\ req[p].redirects + 1 \in Nat
        BY <1>1 DEF ReqRecs, ReqPCs
      <4> QED
        BY <1>1, <4>1, Zenon DEF ReqRecs
    <3>92. r.pc = "lookup" /\ r.hc = None /\ r.host = h /\ r.start = req[p].start
      BY <1>1 DEF ReqRecs
    <3>1. GoodReq(r)
      BY <1>1, <3>91, <3>92 DEF GoodReq
    <3> QED
      BY <1>1, <2>2, <3>1, <3>92
  <2> QED
    BY <2>1, <2>2 DEF DoEnds, NoFreeConns
<1>6. hc[c].host \in Hosts /\ m[hc[c].host] = c /\ hc[c].pending > 0
  BY <1>2, Referred
<1>7. PICK v \in HostClientRecs : /\ v.host = hc[c].host /\ v.pending = hc[c].pending - 1
                                  /\ hc' = [hc EXCEPT ![c] = v]
  <2> DEFINE v == [w EXCEPT !.pending = w.pending - 1]
  <2>1. v \in HostClientRecs /\ v.host = hc[c].host /\ v.pending = hc[c].pending - 1
    BY <1>4, <1>6 DEF HostClientRecs
  <2> QED
    BY <1>4, <2>1
<1> QED
  BY <1>1, <1>2, <1>5, <1>6, <1>7, HostStep

LEMMA CardsFinite ==
  /\ \A c : Cardinality(Using(c)) \in Nat /\ (Cardinality(Using(c)) = 0 <=> Using(c) = {})
  /\ \A f, c : Cardinality(Referring(f, c)) \in Nat /\ (Cardinality(Referring(f, c)) = 0 <=> Referring(f, c) = {})
  /\ \A f : Cardinality(Starters(f)) \in Nat
<1>1. \A S \in SUBSET Requesters : Cardinality(S) \in Nat /\ (Cardinality(S) = 0 <=> S = {})
  <2> SUFFICES ASSUME NEW S \in SUBSET Requesters PROVE Cardinality(S) \in Nat /\ (Cardinality(S) = 0 <=> S = {})
    OBVIOUS
  <2>1. IsFiniteSet(S)
    BY ClientAssumption, FS_Subset
  <2> QED
    BY <2>1, FS_CardinalityType, FS_EmptySet
<1>2. \A c : Using(c) \in SUBSET Requesters
  BY DEF Using
<1>3. \A f, c : Referring(f, c) \in SUBSET Requesters
  BY DEF Referring
<1>4. \A f : Starters(f) \in SUBSET Requesters
  BY DEF Starters
<1> QED
  BY <1>1, <1>2, <1>3, <1>4

\* A new HostClient enters the map; the first one brings the cleaner.
LEMMA CreateKeeps ==
  ASSUME MapInv, NEW p \in Requesters, Create(p), m[req[p].host] = None
  PROVE  MapInv'
<1>1. /\ MapTyped /\ GoodReq(req[p]) /\ req[p] \in ReqRecs /\ req[p].pc = "create"
      /\ req[p].hc = None /\ ~req[p].start /\ None \notin HostClients /\ cleaners' = cleaners
  BY ReqKnown DEF Create, GoodReq, MapInv
<1>2. PICK h \in Hosts : h = req[p].host
  BY <1>1 DEF GoodReq
<1>3. PICK st \in BOOLEAN : st <=> \A g \in Hosts : g # h => m[g] = None
  OBVIOUS
<1>4. PICK c \in HostClients :
        /\ \A g \in Hosts : m[g] # c
        /\ \A q \in Requesters : req[q].hc # c
        /\ m' = [m EXCEPT ![h] = c]
        /\ hc' = [hc EXCEPT ![c] = [NewHostClient(h) EXCEPT !.pending = 1]]
        /\ Goes(p, [req[p] EXCEPT !.pc = "do", !.hc = c, !.start = \A g \in Hosts : g # h => m[g] = None])
  BY <1>2 DEF Create, Unreferenced
<1> DEFINE r == [req[p] EXCEPT !.pc = "do", !.hc = c, !.start = \A g \in Hosts : g # h => m[g] = None]
<1>5. r \in ReqRecs /\ r.pc = "do" /\ r.hc = c /\ (r.start <=> st)
  <2>1. "do" \in ReqPCs /\ c \in HostClients \cup {None} /\ (\A g \in Hosts : g # h => m[g] = None) \in BOOLEAN
    BY DEF ReqPCs
  <2>2. r \in ReqRecs
    BY <1>1, <2>1, Zenon DEF ReqRecs
  <2>3. r.pc = "do" /\ r.hc = c
    BY <1>1 DEF ReqRecs
  <2>4. r.start = (\A g \in Hosts : g # h => m[g] = None)
    BY <1>1 DEF ReqRecs
  <2> HIDE DEF r
  <2> QED
    BY <1>3, <2>2, <2>3, <2>4
<1>6. GoodReq(r)
  BY <1>5 DEF GoodReq
<1>7. Goes(p, r)
  BY <1>4
<1> HIDE DEF r
<1>8. /\ req' \in [Requesters -> ReqRecs] /\ req'[p] = r /\ ReqMoves(p, req, req')
      /\ \A q \in Requesters : GoodReq(req'[q])
  BY <1>1, <1>6, <1>7, ReqStep
<1>9. PICK v \in HostClientRecs : v.host = h /\ v.pending = 1 /\ hc' = [hc EXCEPT ![c] = v]
  <2> DEFINE v == [NewHostClient(h) EXCEPT !.pending = 1]
  <2>1. v \in HostClientRecs /\ v.host = h /\ v.pending = 1
    BY DEF NewHostClient, HostClientRecs
  <2> QED
    BY <1>4, <2>1
<1>10. hc' \in [HostClients -> HostClientRecs] /\ hc'[c] = v /\ \A d \in HostClients : d # c => hc'[d] = hc[d]
  BY <1>1, <1>9 DEF MapTyped
<1>11. /\ m' \in [Hosts -> HostClients \cup {None}] /\ m'[h] = c /\ m[h] = None
       /\ \A g \in Hosts : g # h => m'[g] = m[g]
  BY <1>1, <1>2, <1>4 DEF MapTyped
<1>12. MapTyped'
  BY <1>1, <1>8, <1>10, <1>11 DEF MapTyped
<1>13. HostsKnown'
  <2>1. ASSUME NEW g \in Hosts, m'[g] # None PROVE hc'[m'[g]].host = g
    <3>1. CASE g = h
      BY <1>9, <1>10, <1>11, <3>1
    <3>2. CASE g # h
      <4>1. m'[g] = m[g] /\ m[g] \in HostClients /\ m[g] # c /\ hc[m[g]].host = g
        BY <1>1, <1>4, <1>11, <2>1, <3>2 DEF MapInv, MapTyped, HostsKnown
      <4> QED
        BY <1>10, <4>1
    <3> QED
      BY <3>1, <3>2
  <2>2. ASSUME NEW d \in HostClients, Held(hc'[d]) PROVE hc'[d].host \in Hosts /\ m'[hc'[d].host] = d
    <3>1. CASE d = c
      BY <1>9, <1>10, <1>11, <3>1
    <3>2. CASE d # c
      <4>1. hc'[d] = hc[d] /\ hc[d].host \in Hosts /\ m[hc[d].host] = d
        BY <1>10, <2>2, <3>2 DEF MapInv, HostsKnown
      <4>2. hc[d].host # h
        BY <1>1, <1>11, <4>1
      <4> QED
        BY <1>11, <4>1, <4>2
    <3> QED
      BY <3>1, <3>2
  <2> QED
    BY <2>1, <2>2 DEF HostsKnown
<1>14. PendingExact'
  <2> SUFFICES ASSUME NEW d \in HostClients PROVE hc'[d].pending = Cardinality(Referring(req', d))
    BY DEF PendingExact
  <2>1. ReqMoves(p, req, req') /\ req'[p].hc = c /\ req[p].hc = None
    BY <1>1, <1>5, <1>8
  <2>2. CASE d = c
    <3>1. Referring(req, d) = {}
      BY <1>4, <2>2 DEF Referring
    <3>2. Cardinality(Referring(req, d)) = 0
      BY <3>1, CardsFinite
    <3>3. req[p].hc # d /\ req'[p].hc = d
      BY <1>1, <2>1, <2>2
    <3>4. Cardinality(Referring(req', d)) = Cardinality(Referring(req, d)) + 1
      BY <2>1, <3>3, RefsCount
    <3> QED
      BY <1>9, <1>10, <2>2, <3>2, <3>4
  <2>3. CASE d # c
    <3>1. req[p].hc # d /\ req'[p].hc # d
      BY <1>1, <2>1, <2>3
    <3>2. Cardinality(Referring(req', d)) = Cardinality(Referring(req, d))
      BY <2>1, <3>1, RefsCount
    <3> QED
      BY <1>10, <2>3, <3>2 DEF MapInv, PendingExact
  <2> QED
    BY <2>2, <2>3
<1>15. OneCleaner'
  <2>1. ~Empty(m')
    BY <1>1, <1>11 DEF Empty
  <2>2. ReqMoves(p, req, req') /\ ~req[p].start /\ (req'[p].start <=> st)
    BY <1>1, <1>5, <1>8
  <2>3. Cardinality(Starters(req)) \in Nat /\ Cardinality(Starters(req')) \in Nat /\ cleaners \in Nat
    BY <1>1, CardsFinite DEF MapTyped
  <2>4. CASE st
    <3>1. Empty(m)
      BY <1>3, <1>11, <2>4 DEF Empty
    <3>2. cleaners = 0 /\ Cardinality(Starters(req)) = 0
      BY <3>1 DEF MapInv, OneCleaner
    <3>3. ~req[p].start /\ req'[p].start
      BY <2>2, <2>4
    <3>4. Cardinality(Starters(req')) = Cardinality(Starters(req)) + 1
      BY <2>2, <3>3, StartsCount
    <3>5. cleaners' + Cardinality(Starters(req')) = 1
      BY <1>1, <3>2, <3>4
    <3> QED
      BY <2>1, <3>5 DEF OneCleaner
  <2>5. CASE ~st
    <3>1. ~Empty(m)
      BY <1>3, <2>5 DEF Empty
    <3>2. ReqMoves(p, req, req') /\ (req[p].start <=> req'[p].start)
      BY <2>2, <2>5
    <3>3. Cardinality(Starters(req)) = Cardinality(Starters(req'))
      BY <3>2, StartsCount
    <3> QED
      BY <1>1, <2>1, <3>1, <3>3 DEF MapInv, OneCleaner
  <2> QED
    BY <2>4, <2>5
<1> QED
  BY <1>12, <1>13, <1>14, <1>15 DEF MapInv

\* go c.mCleaner(m)
LEMMA StartCleanerKeeps ==
  ASSUME MapInv, NEW p \in Requesters, StartCleaner(p)
  PROVE  MapInv'
<1>1. /\ MapTyped /\ GoodReq(req[p]) /\ req[p] \in ReqRecs /\ req[p].pc = "do" /\ req[p].start
      /\ UNCHANGED <<m, hc>> /\ cleaners' = cleaners + 1 /\ cleaners \in Nat
  BY ReqKnown DEF StartCleaner, MapInv, MapTyped
<1> DEFINE r == [req[p] EXCEPT !.start = FALSE]
<1>2. r \in ReqRecs
  <2>1. FALSE \in BOOLEAN
    OBVIOUS
  <2> QED
    BY <1>1, <2>1, Zenon DEF ReqRecs
<1>3. r.pc = "do" /\ r.hc = req[p].hc /\ ~r.start
  BY <1>1 DEF ReqRecs
<1>4. GoodReq(r)
  BY <1>1, <1>2, <1>3 DEF GoodReq
<1>5. Goes(p, r)
  BY DEF StartCleaner
<1> HIDE DEF r
<1>6. /\ req' \in [Requesters -> ReqRecs] /\ req'[p] = r /\ ReqMoves(p, req, req')
      /\ \A q \in Requesters : GoodReq(req'[q])
  BY <1>1, <1>4, <1>5, ReqStep
<1>7. MapTyped'
  BY <1>1, <1>6 DEF MapTyped
<1>8. HostsKnown'
  BY <1>1 DEF MapInv, HostsKnown
<1>9. PendingExact'
  <2> SUFFICES ASSUME NEW c \in HostClients PROVE hc'[c].pending = Cardinality(Referring(req', c))
    BY DEF PendingExact
  <2>1. ReqMoves(p, req, req') /\ (req[p].hc = c <=> req'[p].hc = c)
    BY <1>3, <1>6
  <2>2. Cardinality(Referring(req, c)) = Cardinality(Referring(req', c))
    BY <2>1, RefsCount
  <2> QED
    BY <1>1, <2>2 DEF MapInv, PendingExact
<1>10. OneCleaner'
  <2>1. ReqMoves(p, req, req') /\ req[p].start /\ ~req'[p].start
    BY <1>1, <1>3, <1>6
  <2>2. Cardinality(Starters(req)) = Cardinality(Starters(req')) + 1
    BY <2>1, StartsCount
  <2>3. PICK x \in Nat, y \in Nat : x = Cardinality(Starters(req)) /\ y = Cardinality(Starters(req')) /\ x = y + 1
    BY <2>2, CardsFinite
  <2>4. ~Empty(m) /\ cleaners + x = 1
    BY <1>1, <2>3 DEF MapInv, OneCleaner
  <2>5. cleaners' + y = 1
    BY <1>1, <2>3, <2>4
  <2> QED
    BY <1>1, <2>3, <2>4, <2>5 DEF OneCleaner
<1> QED
  BY <1>7, <1>8, <1>9, <1>10 DEF MapInv

\* Connections of HostClients go away.
LEMMA ConnsStep ==
  ASSUME MapInv, UNCHANGED <<m, req, cleaners>>, hc' \in [HostClients -> HostClientRecs],
         \A c \in HostClients : /\ hc'[c].host = hc[c].host /\ hc'[c].pending = hc[c].pending
                                /\ Held(hc'[c]) => Held(hc[c])
  PROVE  MapInv'
<1>1. MapTyped'
  BY DEF MapInv, MapTyped
<1>2. HostsKnown'
  <2>1. ASSUME NEW h \in Hosts, m[h] # None PROVE hc'[m[h]].host = h
    <3>1. m[h] \in HostClients /\ hc[m[h]].host = h
      BY <2>1 DEF MapInv, MapTyped, HostsKnown
    <3> QED
      BY <3>1
  <2>2. ASSUME NEW c \in HostClients, Held(hc'[c]) PROVE hc'[c].host \in Hosts /\ m[hc'[c].host] = c
    BY <2>2 DEF MapInv, HostsKnown
  <2> QED
    BY <2>1, <2>2 DEF HostsKnown
<1>3. PendingExact'
  BY DEF MapInv, PendingExact
<1>4. OneCleaner'
  BY DEF MapInv, OneCleaner
<1> QED
  BY <1>1, <1>2, <1>3, <1>4 DEF MapInv

LEMMA ConnsGo ==
  ASSUME MapInv, (\E c \in HostClients : StrayDialEnds(c) \/ IdleExpires(c)) \/ CloseIdleConnections
  PROVE  MapInv'
<1>1. UNCHANGED <<m, req, cleaners>> /\ hc \in [HostClients -> HostClientRecs]
  BY DEF StrayDialEnds, IdleExpires, CloseIdleConnections, MapInv, MapTyped
<1>2. ASSUME NEW c \in HostClients, StrayDialEnds(c) PROVE MapInv'
  <2>1. PICK kept \in {0, 1} :
          hc' = [hc EXCEPT ![c] = [hc[c] EXCEPT !.stray = hc[c].stray - 1, !.idle = hc[c].idle + kept]]
    BY <1>2 DEF StrayDialEnds
  <2> DEFINE v == [hc[c] EXCEPT !.stray = hc[c].stray - 1, !.idle = hc[c].idle + kept]
  <2>2. hc[c] \in HostClientRecs /\ hc[c].stray > 0 /\ hc' = [hc EXCEPT ![c] = v]
    BY <1>1, <1>2, <2>1 DEF StrayDialEnds
  <2>3. v \in HostClientRecs /\ v.host = hc[c].host /\ v.pending = hc[c].pending
    <3>1. hc[c] \in HostClientRecs /\ hc[c].stray - 1 \in Nat /\ hc[c].idle + kept \in Nat
      BY <2>2 DEF HostClientRecs
    <3>2. PICK x \in Nat, y \in Nat : x = hc[c].stray - 1 /\ y = hc[c].idle + kept
      BY <3>1
    <3>3. v = [hc[c] EXCEPT !.stray = x, !.idle = y]
      BY <3>2
    <3> HIDE DEF v
    <3> QED
      BY <3>1, <3>3 DEF HostClientRecs
  <2>4. Held(hc[c])
    BY <2>2 DEF Held
  <2> HIDE DEF v
  <2> QED
    BY <1>1, <2>2, <2>3, <2>4, ConnsStep
<1>3. ASSUME NEW c \in HostClients, IdleExpires(c) PROVE MapInv'
  <2> DEFINE v == [hc[c] EXCEPT !.idle = hc[c].idle - 1]
  <2>2. hc[c] \in HostClientRecs /\ hc[c].idle > 0 /\ hc' = [hc EXCEPT ![c] = v]
    BY <1>1, <1>3 DEF IdleExpires
  <2>3. v \in HostClientRecs /\ v.host = hc[c].host /\ v.pending = hc[c].pending /\ Held(hc[c])
    BY <2>2 DEF HostClientRecs, Held
  <2> HIDE DEF v
  <2> QED
    BY <1>1, <2>2, <2>3, ConnsStep
<1>4. CASE CloseIdleConnections
  <2>1. hc' = [c \in HostClients |-> IF \E h \in Hosts : m[h] = c THEN [hc[c] EXCEPT !.idle = 0] ELSE hc[c]]
    BY <1>4 DEF CloseIdleConnections
  <2>2. ASSUME NEW c \in HostClients
        PROVE  /\ hc'[c] \in HostClientRecs /\ hc'[c].host = hc[c].host /\ hc'[c].pending = hc[c].pending
               /\ Held(hc'[c]) => Held(hc[c])
    <3>1. hc[c] \in HostClientRecs /\ (hc'[c] = [hc[c] EXCEPT !.idle = 0] \/ hc'[c] = hc[c])
      BY <1>1, <2>1
    <3> QED
      BY <3>1 DEF HostClientRecs, Held
  <2>3. hc' \in [HostClients -> HostClientRecs]
    BY <2>1, <2>2
  <2> QED
    BY <1>1, <2>2, <2>3, ConnsStep
<1> QED
  BY <1>2, <1>3, <1>4

\* The cleaner forgets the HostClients that nobody needs, and ends with the last.
LEMMA mCleanerKeeps ==
  ASSUME MapInv, mCleaner
  PROVE  MapInv'
<1>1. /\ MapTyped /\ cleaners > 0 /\ cleaners \in Nat /\ UNCHANGED <<hc, req>> /\ None \notin HostClients
      /\ m' = [h \in Hosts |-> IF m[h] # None /\ Idle(m[h]) THEN None ELSE m[h]]
      /\ cleaners' = IF \A h \in Hosts : m'[h] = None THEN cleaners - 1 ELSE cleaners
  BY ClientAssumption DEF mCleaner, MapInv, MapTyped
<1>2. \A h \in Hosts : m'[h] \in {None, m[h]} /\ m[h] \in HostClients \cup {None} /\ (m'[h] # m[h] => Idle(m[h]))
  BY <1>1 DEF MapTyped
<1>3. PICK x \in Nat : x = Cardinality(Starters(req)) /\ ~Empty(m) /\ cleaners = 1 /\ x = 0
  <2>1. PICK x \in Nat : x = Cardinality(Starters(req))
    BY CardsFinite
  <2>2. ~Empty(m) /\ cleaners + x = 1
    BY <1>1, <2>1 DEF MapInv, OneCleaner
  <2> QED
    BY <1>1, <2>1, <2>2
<1>4. cleaners' \in Nat
  BY <1>1
<1>5. MapTyped'
  <2>1. m' \in [Hosts -> HostClients \cup {None}]
    BY <1>1 DEF MapTyped
  <2> QED
    BY <1>1, <1>4, <2>1 DEF MapTyped
<1>6. HostsKnown'
  <2>1. ASSUME NEW h \in Hosts, m'[h] # None PROVE hc[m'[h]].host = h
    BY <1>2, <2>1 DEF MapInv, HostsKnown
  <2>2. ASSUME NEW c \in HostClients, Held(hc[c]) PROVE hc[c].host \in Hosts /\ m'[hc[c].host] = c
    <3>1. hc[c].host \in Hosts /\ m[hc[c].host] = c
      BY <2>2 DEF MapInv, HostsKnown
    <3>2. ~Idle(c)
      <4>1. Cardinality(Using(c)) \in Nat
        BY CardsFinite
      <4>2. hc[c].idle \in Nat /\ hc[c].stray \in Nat /\ hc[c].pending \in Nat
        BY <1>1 DEF MapTyped, HostClientRecs
      <4>3. PICK i \in Nat, j \in Nat, k \in Nat : i = hc[c].idle /\ j = hc[c].stray /\ k = Cardinality(Using(c))
        BY <4>1, <4>2
      <4>4. connsCount(c) = i + j + k
        BY <4>3 DEF connsCount
      <4>5. i > 0 \/ j > 0 \/ hc[c].pending > 0
        BY <2>2, <4>3 DEF Held
      <4> QED
        BY <4>2, <4>4, <4>5 DEF Idle
    <3> QED
      BY <1>2, <3>1, <3>2
  <2> QED
    BY <1>1, <2>1, <2>2 DEF HostsKnown
<1>7. PendingExact'
  BY <1>1 DEF MapInv, PendingExact
<1>8. OneCleaner'
  <2>1. CASE Empty(m')
    BY <1>1, <1>3, <2>1 DEF OneCleaner, Empty
  <2>2. CASE ~Empty(m')
    BY <1>1, <1>3, <2>2 DEF OneCleaner, Empty
  <2> QED
    BY <2>1, <2>2
<1> QED
  BY <1>5, <1>6, <1>7, <1>8 DEF MapInv

LEMMA MapStarts == ClientInit => MapInv
<1> SUFFICES ASSUME ClientInit PROVE MapInv
  OBVIOUS
<1> DEFINE r == [pc |-> "idle", host |-> None, hc |-> None, start |-> FALSE, redirects |-> 0, n |-> 0]
<1>1. r \in ReqRecs
  <2>1. "idle" \in ReqPCs /\ None \in Hosts \cup {None} /\ None \in HostClients \cup {None} /\ FALSE \in BOOLEAN /\ 0 \in Nat
    BY DEF ReqPCs
  <2> QED
    BY <2>1, Zenon DEF ReqRecs
<1>2. GoodReq(r)
  BY <1>1 DEF GoodReq
<1>3. \A p \in Requesters : req[p] = r
  BY DEF ClientInit
<1>4. req \in [Requesters -> ReqRecs]
  BY <1>1 DEF ClientInit
<1>5. \A p \in Requesters : req[p].hc = None /\ ~req[p].start
  BY <1>3
<1>6. \A c \in HostClients : hc[c] = NewHostClient(None)
  BY DEF ClientInit
<1>7. NewHostClient(None) \in HostClientRecs /\ ~Held(NewHostClient(None)) /\ NewHostClient(None).pending = 0
  BY DEF NewHostClient, HostClientRecs, Held
<1>8. MapTyped
  <2>1. hc \in [HostClients -> HostClientRecs]
    BY <1>7 DEF ClientInit
  <2>2. m \in [Hosts -> HostClients \cup {None}] /\ cleaners \in Nat
    BY DEF ClientInit
  <2> HIDE DEF r
  <2> QED
    BY <1>2, <1>3, <1>4, <2>1, <2>2 DEF MapTyped
<1>9. HostsKnown
  BY <1>6, <1>7 DEF ClientInit, HostsKnown
<1>10. PendingExact
  <2> SUFFICES ASSUME NEW c \in HostClients PROVE hc[c].pending = Cardinality(Referring(req, c))
    BY DEF PendingExact
  <2>1. Referring(req, c) = {}
    BY <1>5, ClientAssumption DEF Referring
  <2>2. Cardinality(Referring(req, c)) = 0
    BY <2>1, CardsFinite
  <2> QED
    BY <1>6, <1>7, <2>2
<1>11. OneCleaner
  <2>1. Starters(req) = {}
    BY <1>5 DEF Starters
  <2>2. Cardinality(Starters(req)) = 0
    BY <2>1, FS_EmptySet, Zenon
  <2>3. Empty(m) /\ cleaners = 0
    BY DEF ClientInit, Empty
  <2> QED
    BY <2>2, <2>3 DEF OneCleaner
<1> QED
  BY <1>8, <1>9, <1>10, <1>11 DEF MapInv

LEMMA MapStep == MapInv /\ [ClientNext]_clientVars => MapInv'
<1> SUFFICES ASSUME MapInv, [ClientNext]_clientVars PROVE MapInv'
  OBVIOUS
<1>1. CASE UNCHANGED clientVars
  BY <1>1 DEF clientVars, MapInv, MapTyped, HostsKnown, PendingExact, OneCleaner
<1>2. ASSUME NEW p \in Requesters, ClientStep(p) PROVE MapInv'
  <2>1. CASE GetDeadline(p)
    <3>1. req[p].pc = "idle" /\ UNCHANGED <<m, hc, cleaners>> /\ 0 \in Nat
      BY <2>1 DEF GetDeadline
    <3>2. PICK h \in Hosts : Goes(p, [req[p] EXCEPT !.pc = "lookup", !.host = h, !.redirects = 0, !.n = @ + 1])
      BY <2>1 DEF GetDeadline
    <3> QED
      BY <3>1, <3>2, BeginKeeps
  <2>2. CASE Do(p)
    <3>1. req[p].pc = "idle" /\ UNCHANGED <<m, hc, cleaners>> /\ MaxRedirects \in Nat
      BY <2>2, ClientAssumption DEF Do
    <3>2. PICK h \in Hosts :
            Goes(p, [req[p] EXCEPT !.pc = "lookup", !.host = h, !.redirects = MaxRedirects, !.n = @ + 1])
      BY <2>2 DEF Do
    <3> QED
      BY <3>1, <3>2, BeginKeeps
  <2>3. CASE GetAnswered(p) \/ GetTimedOut(p)
    BY <2>3 DEF GetAnswered, GetTimedOut, MapInv, MapTyped, HostsKnown, PendingExact, OneCleaner
  <2>4. CASE Lookup(p)
    BY <2>4, LookupKeeps
  <2>5. CASE Create(p)
    BY <2>5, LookupKeeps, CreateKeeps
  <2>6. CASE ConfigureFails(p)
    BY <2>6, ConfigureFailsKeeps
  <2>7. CASE StartCleaner(p)
    BY <2>7, StartCleanerKeeps
  <2>8. CASE Acquire(p)
    BY <2>8, AcquireKeeps
  <2>9. CASE DoEnds(p) \/ NoFreeConns(p)
    BY <2>9, DoEndsKeeps
  <2> QED
    BY <1>2, <2>1, <2>2, <2>3, <2>4, <2>5, <2>6, <2>7, <2>8, <2>9 DEF ClientStep
<1>3. CASE (\E c \in HostClients : StrayDialEnds(c) \/ IdleExpires(c)) \/ CloseIdleConnections
  BY <1>3, ConnsGo
<1>4. CASE mCleaner
  BY <1>4, mCleanerKeeps
<1> QED
  BY <1>1, <1>2, <1>3, <1>4 DEF ClientNext

\* A host has one HostClient: one with a connection or a request is the one in the
\* map, and a map that is not empty has exactly one cleaner.
THEOREM HostsHaveOneClient == ClientSpec => []OneClientPerHost
<1>1. MapInv => OneClientPerHost
  <2> SUFFICES ASSUME MapInv PROVE OneClientPerHost
    OBVIOUS
  <2>1. ASSUME NEW c \in HostClients, connsCount(c) > 0 \/ hc[c].pending > 0 PROVE Held(hc[c])
    <3>1. hc[c].idle \in Nat /\ hc[c].stray \in Nat /\ hc[c].pending \in Nat
      BY DEF MapInv, MapTyped, HostClientRecs
    <3>2. Cardinality(Using(c)) \in Nat /\ (Cardinality(Using(c)) = 0 <=> Using(c) = {})
      BY CardsFinite
    <3>3. CASE Cardinality(Using(c)) = 0
      BY <2>1, <3>1, <3>3 DEF connsCount, Held
    <3>4. CASE Cardinality(Using(c)) # 0
      <4>1. PICK p \in Requesters : req[p].hc = c
        BY <3>2, <3>4 DEF Using
      <4> QED
        BY <4>1, Referred DEF Held
    <3> QED
      BY <3>3, <3>4
  <2>2. Starting = Starters(req)
    BY DEF Starting, Starters
  <2>3. (\E h \in Hosts : m[h] # None) => cleaners + Cardinality(Starting) = 1
    BY <2>2 DEF MapInv, OneCleaner, Empty
  <2> QED
    BY <2>1, <2>3 DEF MapInv, HostsKnown, OneClientPerHost
<1> QED
  BY <1>1, MapStarts, MapStep, PTL DEF ClientSpec

-----------------------------------------------------------------------------
(* Client: GetDeadline and its channels.                                   *)

GetPCs == {"no", "wait", "left"}
GetRecs == [pc : GetPCs, ch : Chans \cup {None}, timedout : BOOLEAN,
            got : Requesters \cup {None}]

GetTyped ==
  /\ get \in [Getters -> GetRecs]
  /\ chan \in [Chans -> Requesters \cup {None}]
  /\ pooled \in SUBSET Chans

\* A GetDeadline that waits has a channel of its own, which is not in the pool.
OwnChan ==
  /\ \A p \in Getters : get[p].pc = "wait" => get[p].ch \in Chans \ pooled
  /\ \A p, q \in Getters : get[p].pc = "wait" /\ get[q].pc = "wait" /\ get[p].ch = get[q].ch => p = q
\* A response is in the channel of the caller that waits for it.
OwnResponse ==
  \A c \in Chans : chan[c] # None =>
    \E p \in Getters : p = chan[c] /\ get[p].pc = "wait" /\ get[p].ch = c /\ req[p].pc = "idle"
\* While the request runs its caller waits or has timed out.
Awaited == \A p \in Getters : req[p].pc # "idle" => get[p].timedout \/ get[p].pc = "wait"

ChanInv == GetTyped /\ OwnChan /\ OwnResponse /\ Awaited /\ \A p \in Getters : get[p].got \in {None, p}

\* A request that runs goes on, and one of a caller of Do begins.
LEMMA RunsOn ==
  ASSUME ChanInv, NEW p \in Requesters, ReqMoves(p, req, req'), UNCHANGED <<get, chan, pooled>>,
         p \in Getters => req[p].pc # "idle"
  PROVE  ChanInv'
<1>0. Getters \subseteq Requesters
  BY ClientAssumption
<1>1. GetTyped' /\ OwnChan' /\ \A q \in Getters : get'[q].got \in {None, q}
  BY DEF ChanInv, GetTyped, OwnChan
<1>2. OwnResponse'
  <2> SUFFICES ASSUME NEW c \in Chans, chan[c] # None
               PROVE  \E q \in Getters : q = chan[c] /\ get[q].pc = "wait" /\ get[q].ch = c /\ req'[q].pc = "idle"
    BY DEF OwnResponse
  <2>1. PICK q \in Getters : q = chan[c] /\ get[q].pc = "wait" /\ get[q].ch = c /\ req[q].pc = "idle"
    BY DEF ChanInv, OwnResponse
  <2>2. q # p
    BY <2>1
  <2> QED
    BY <1>0, <2>1, <2>2 DEF ReqMoves
<1>3. Awaited'
  <2> SUFFICES ASSUME NEW q \in Getters, req'[q].pc # "idle" PROVE get[q].timedout \/ get[q].pc = "wait"
    BY DEF Awaited
  <2>1. req[q].pc # "idle"
    BY <1>0 DEF ReqMoves
  <2> QED
    BY <2>1 DEF ChanInv, Awaited
<1> QED
  BY <1>1, <1>2, <1>3 DEF ChanInv

\* The request ends and answers a caller that still waits.
LEMMA Responds ==
  ASSUME ChanInv, NEW p \in Requesters, ReqMoves(p, req, req'), Respond(p), UNCHANGED <<get, pooled>>,
         req[p].pc # "idle", req'[p].pc = "idle"
  PROVE  ChanInv'
<1>0. Getters \subseteq Requesters /\ None \notin Requesters
  BY ClientAssumption
<1>1. Awaited'
  <2> SUFFICES ASSUME NEW q \in Getters, req'[q].pc # "idle" PROVE get[q].timedout \/ get[q].pc = "wait"
    BY DEF Awaited
  <2>1. req[q].pc # "idle"
    BY <1>0 DEF ReqMoves
  <2> QED
    BY <2>1 DEF ChanInv, Awaited
<1>2. OwnChan' /\ \A q \in Getters : get'[q].got \in {None, q}
  BY DEF ChanInv, OwnChan
<1>3. ASSUME NEW q \in Getters, req[q].pc = "idle" PROVE q # p /\ req'[q].pc = "idle"
  BY <1>0, <1>3 DEF ReqMoves
<1>4. CASE p \in Getters /\ ~get[p].timedout
  <2>1. PICK c \in Chans : /\ c = get[p].ch /\ get[p].pc = "wait" /\ chan[c] = None
                           /\ chan' = [chan EXCEPT ![c] = p]
    BY <1>4 DEF Respond, ChanInv, Awaited, OwnChan
  <2>2. GetTyped'
    BY <2>1 DEF ChanInv, GetTyped
  <2>3. chan'[c] = p /\ \A d \in Chans : d # c => chan'[d] = chan[d]
    BY <2>1 DEF ChanInv, GetTyped
  <2>4. ASSUME NEW d \in Chans, chan'[d] # None
        PROVE  \E q \in Getters : q = chan'[d] /\ get[q].pc = "wait" /\ get[q].ch = d /\ req'[q].pc = "idle"
    <3>1. CASE d = c
      BY <1>4, <2>1, <2>3, <3>1
    <3>2. CASE d # c
      <4>1. PICK q \in Getters : q = chan[d] /\ get[q].pc = "wait" /\ get[q].ch = d /\ req[q].pc = "idle"
        BY <2>3, <2>4, <3>2 DEF ChanInv, OwnResponse
      <4> QED
        BY <1>3, <2>3, <3>2, <4>1
    <3> QED
      BY <3>1, <3>2
  <2>5. OwnResponse'
    BY <2>4 DEF OwnResponse
  <2> QED
    BY <1>1, <1>2, <2>2, <2>5 DEF ChanInv
<1>5. CASE ~(p \in Getters /\ ~get[p].timedout)
  <2>1. chan' = chan
    BY <1>5 DEF Respond
  <2>2. GetTyped'
    BY <2>1 DEF ChanInv, GetTyped
  <2>3. OwnResponse'
    BY <1>3, <2>1 DEF ChanInv, OwnResponse
  <2> QED
    BY <1>1, <1>2, <2>2, <2>3 DEF ChanInv
<1> QED
  BY <1>4, <1>5

\* GetDeadline takes a channel from the pool: it is empty.
LEMMA GetDeadlineKeeps ==
  ASSUME ChanInv, NEW p \in Requesters, GetDeadline(p), ReqMoves(p, req, req')
  PROVE  ChanInv'
<1>0. Getters \subseteq Requesters /\ p \in Getters /\ get[p].pc # "wait" /\ chan' = chan
  BY ClientAssumption DEF GetDeadline
<1> DEFINE g(c) == [pc |-> "wait", ch |-> c, timedout |-> FALSE, got |-> None]
<1>1. PICK c \in pooled : get' = [get EXCEPT ![p] = g(c)] /\ pooled' = pooled \ {c}
  BY DEF GetDeadline
<1>2. c \in Chans
  BY DEF ChanInv, GetTyped
<1>3. g(c) \in GetRecs
  <2>1. "wait" \in GetPCs /\ c \in Chans \cup {None} /\ FALSE \in BOOLEAN /\ None \in Requesters \cup {None}
    BY <1>2 DEF GetPCs
  <2> QED
    BY <2>1, Zenon DEF GetRecs
<1>4. g(c).pc = "wait" /\ g(c).ch = c /\ g(c).got = None
  OBVIOUS
<1>5. PICK x \in GetRecs : x.pc = "wait" /\ x.ch = c /\ x.got = None /\ get' = [get EXCEPT ![p] = x]
  BY <1>1, <1>3, <1>4
<1> HIDE DEF g
<1>6. get' \in [Getters -> GetRecs] /\ get'[p] = x /\ \A q \in Getters : q # p => get'[q] = get[q]
  BY <1>0, <1>5 DEF ChanInv, GetTyped
<1>7. GetTyped'
  BY <1>0, <1>1, <1>6 DEF ChanInv, GetTyped
<1>8. OwnChan'
  <2>1. ASSUME NEW q \in Getters, get'[q].pc = "wait" PROVE get'[q].ch \in Chans \ pooled'
    BY <1>1, <1>2, <1>5, <1>6, <2>1 DEF ChanInv, OwnChan
  <2>2. ASSUME NEW q \in Getters, q # p, get'[q].pc = "wait" PROVE get'[q].ch # c
    BY <1>1, <1>6, <2>2 DEF ChanInv, OwnChan
  <2>3. ASSUME NEW q \in Getters, NEW z \in Getters, get'[q].pc = "wait", get'[z].pc = "wait", get'[q].ch = get'[z].ch
        PROVE  q = z
    <3>1. CASE q = p \/ z = p
      BY <1>5, <1>6, <2>2, <2>3, <3>1
    <3>2. CASE q # p /\ z # p
      BY <1>6, <2>3, <3>2 DEF ChanInv, OwnChan
    <3> QED
      BY <3>1, <3>2
  <2> QED
    BY <2>1, <2>3 DEF OwnChan
<1>9. OwnResponse'
  <2> SUFFICES ASSUME NEW d \in Chans, chan[d] # None
               PROVE  \E q \in Getters : q = chan[d] /\ get'[q].pc = "wait" /\ get'[q].ch = d /\ req'[q].pc = "idle"
    BY <1>0 DEF OwnResponse
  <2>1. PICK q \in Getters : q = chan[d] /\ get[q].pc = "wait" /\ get[q].ch = d /\ req[q].pc = "idle"
    BY DEF ChanInv, OwnResponse
  <2>2. q # p
    BY <1>0, <2>1
  <2> QED
    BY <1>0, <1>6, <2>1, <2>2 DEF ReqMoves
<1>10. Awaited'
  <2> SUFFICES ASSUME NEW q \in Getters, req'[q].pc # "idle" PROVE get'[q].timedout \/ get'[q].pc = "wait"
    BY DEF Awaited
  <2>1. CASE q = p
    BY <1>5, <1>6, <2>1
  <2>2. CASE q # p
    BY <1>0, <1>6, <2>2 DEF ReqMoves, ChanInv, Awaited
  <2> QED
    BY <2>1, <2>2
<1>11. \A q \in Getters : get'[q].got \in {None, q}
  BY <1>5, <1>6 DEF ChanInv
<1> QED
  BY <1>7, <1>8, <1>9, <1>10, <1>11 DEF ChanInv

\* GetDeadline returns, with the response or without: its channel goes back empty.
LEMMA GetReturns ==
  ASSUME ChanInv, NEW p \in Getters, get[p].pc = "wait", req' = req,
         NEW x \in GetRecs, x.pc = "left", x.got \in {None, p}, get' = [get EXCEPT ![p] = x],
         NEW c, c = get[p].ch, pooled' = pooled \cup {c},
         chan' = [chan EXCEPT ![c] = None],
         x.timedout \/ chan[c] # None
  PROVE  ChanInv'
<1>1. c \in Chans \ pooled
  BY DEF ChanInv, OwnChan
<1>2. get' \in [Getters -> GetRecs] /\ get'[p] = x /\ \A q \in Getters : q # p => get'[q] = get[q]
  BY DEF ChanInv, GetTyped
<1>3. /\ chan' \in [Chans -> Requesters \cup {None}] /\ chan'[c] = None
      /\ \A d \in Chans : d # c => chan'[d] = chan[d]
  BY <1>1 DEF ChanInv, GetTyped
<1>4. GetTyped'
  BY <1>1, <1>2, <1>3 DEF ChanInv, GetTyped
<1>5. ASSUME NEW q \in Getters, get'[q].pc = "wait" PROVE q # p /\ get'[q] = get[q] /\ get[q].ch # c
  BY <1>2, <1>5 DEF ChanInv, OwnChan
<1>6. OwnChan'
  <2>1. ASSUME NEW q \in Getters, get'[q].pc = "wait" PROVE get'[q].ch \in Chans \ pooled'
    <3>1. get[q].ch \in Chans \ pooled /\ get[q].ch # c
      BY <1>5, <2>1 DEF ChanInv, OwnChan
    <3> QED
      BY <1>5, <2>1, <3>1
  <2>2. ASSUME NEW q \in Getters, NEW z \in Getters, get'[q].pc = "wait", get'[z].pc = "wait", get'[q].ch = get'[z].ch
        PROVE  q = z
    BY <1>5, <2>2 DEF ChanInv, OwnChan
  <2> QED
    BY <2>1, <2>2 DEF OwnChan
<1>7. OwnResponse'
  <2> SUFFICES ASSUME NEW d \in Chans, chan'[d] # None
               PROVE  \E q \in Getters : q = chan'[d] /\ get'[q].pc = "wait" /\ get'[q].ch = d /\ req'[q].pc = "idle"
    BY DEF OwnResponse
  <2>1. d # c /\ chan'[d] = chan[d]
    BY <1>3
  <2>2. PICK q \in Getters : q = chan[d] /\ get[q].pc = "wait" /\ get[q].ch = d /\ req[q].pc = "idle"
    BY <2>1 DEF ChanInv, OwnResponse
  <2>3. q # p
    BY <2>1, <2>2
  <2> QED
    BY <1>2, <2>1, <2>2, <2>3
<1>8. Awaited'
  <2> SUFFICES ASSUME NEW q \in Getters, req[q].pc # "idle" PROVE get'[q].timedout \/ get'[q].pc = "wait"
    BY DEF Awaited
  <2>1. CASE q # p
    BY <1>2, <2>1 DEF ChanInv, Awaited
  <2>2. CASE q = p /\ x.timedout
    BY <1>2, <2>2
  <2>3. CASE q = p /\ chan[c] # None
    <3>1. PICK z \in Getters : z = chan[c] /\ get[z].pc = "wait" /\ get[z].ch = c /\ req[z].pc = "idle"
      BY <1>1, <2>3 DEF ChanInv, OwnResponse
    <3>2. z = p
      BY <3>1 DEF ChanInv, OwnChan
    <3> QED
      BY <2>3, <3>1, <3>2
  <2> QED
    BY <2>1, <2>2, <2>3
<1>9. \A q \in Getters : get'[q].got \in {None, q}
  BY <1>2 DEF ChanInv
<1> QED
  BY <1>4, <1>6, <1>7, <1>8, <1>9 DEF ChanInv

\* resp := <-ch, or the timer.
LEMMA GetEnds ==
  ASSUME ChanInv, NEW p \in Requesters, GetAnswered(p) \/ GetTimedOut(p)
  PROVE  ChanInv'
<1>1. p \in Getters /\ get[p].pc = "wait" /\ req' = req /\ get[p] \in GetRecs
  BY DEF GetAnswered, GetTimedOut, ChanInv, GetTyped
<1>2. PICK c \in Chans : c = get[p].ch
  BY <1>1 DEF ChanInv, OwnChan
<1>3. chan \in [Chans -> Requesters \cup {None}] /\ "left" \in GetPCs
  BY DEF ChanInv, GetTyped, GetPCs
<1>4. CASE GetAnswered(p)
  <2>1. /\ chan[c] # None /\ pooled' = pooled \cup {c} /\ chan' = [chan EXCEPT ![c] = None]
        /\ get' = [get EXCEPT ![p].pc = "left", ![p].got = chan[c]]
    BY <1>2, <1>4 DEF GetAnswered
  <2>2. chan[c] = p
    BY <1>1, <1>2, <2>1 DEF ChanInv, OwnResponse, OwnChan
  <2> DEFINE x == [get[p] EXCEPT !.pc = "left", !.got = p]
  <2>3. x \in GetRecs
    <3>1. p \in Requesters \cup {None}
      OBVIOUS
    <3> QED
      BY <1>1, <1>3, <3>1, Zenon DEF GetRecs
  <2>4. x.pc = "left" /\ x.got = p
    BY <1>1 DEF GetRecs
  <2>5. get' = [get EXCEPT ![p] = x]
    BY <1>1, <2>1, <2>2 DEF ChanInv, GetTyped, GetRecs
  <2> HIDE DEF x
  <2> QED
    BY <1>1, <1>2, <2>1, <2>3, <2>4, <2>5, GetReturns
<1>5. CASE GetTimedOut(p)
  <2>1. /\ chan[c] = None /\ pooled' = pooled \cup {c} /\ chan' = chan
        /\ get' = [get EXCEPT ![p].pc = "left", ![p].timedout = TRUE]
    BY <1>2, <1>5 DEF GetTimedOut
  <2>2. chan' = [chan EXCEPT ![c] = None]
    BY <1>3, <2>1
  <2> DEFINE x == [get[p] EXCEPT !.pc = "left", !.timedout = TRUE]
  <2>3. x \in GetRecs
    <3>1. TRUE \in BOOLEAN
      OBVIOUS
    <3> QED
      BY <1>1, <1>3, <3>1, Zenon DEF GetRecs
  <2>4. x.pc = "left" /\ x.got = get[p].got /\ x.timedout
    BY <1>1 DEF GetRecs
  <2>5. get' = [get EXCEPT ![p] = x]
    BY <1>1, <2>1 DEF ChanInv, GetTyped, GetRecs
  <2>6. x.got \in {None, p}
    BY <1>1, <2>4 DEF ChanInv
  <2> HIDE DEF x
  <2> QED
    BY <1>1, <1>2, <2>1, <2>2, <2>3, <2>4, <2>5, <2>6, GetReturns
<1> QED
  BY <1>4, <1>5

LEMMA ChanStarts == ClientInit => ChanInv
<1> SUFFICES ASSUME ClientInit PROVE ChanInv
  OBVIOUS
<1> DEFINE x == [pc |-> "no", ch |-> None, timedout |-> FALSE, got |-> None]
<1>1. x \in GetRecs
  <2>1. "no" \in GetPCs /\ None \in Chans \cup {None} /\ FALSE \in BOOLEAN /\ None \in Requesters \cup {None}
    BY DEF GetPCs
  <2> QED
    BY <2>1, Zenon DEF GetRecs
<1>2. x.pc = "no" /\ x.got = None
  OBVIOUS
<1>3. get \in [Getters -> GetRecs] /\ \A p \in Getters : get[p] = x
  BY <1>1 DEF ClientInit
<1> HIDE DEF x
<1>4. GetTyped
  BY <1>3 DEF ClientInit, GetTyped
<1>5. OwnChan /\ \A p \in Getters : get[p].got \in {None, p}
  BY <1>2, <1>3 DEF OwnChan
<1>6. OwnResponse
  BY DEF ClientInit, OwnResponse
<1>7. \A p \in Requesters : req[p].pc = "idle"
  BY DEF ClientInit
<1>8. Awaited
  BY <1>7, ClientAssumption DEF Awaited
<1> QED
  BY <1>4, <1>5, <1>6, <1>8 DEF ChanInv

LEMMA ChanStep == MapInv /\ ChanInv /\ [ClientNext]_clientVars => ChanInv'
<1> SUFFICES ASSUME MapInv, ChanInv, [ClientNext]_clientVars PROVE ChanInv'
  OBVIOUS
<1>1. CASE UNCHANGED <<req, get, chan, pooled>>
  BY <1>1 DEF ChanInv, GetTyped, OwnChan, OwnResponse, Awaited
<1>2. ASSUME NEW p \in Requesters, ClientStep(p) PROVE ChanInv'
  <2>1. req \in [Requesters -> ReqRecs] /\ req[p] \in ReqRecs
    BY DEF MapInv, MapTyped
  <2>2. ASSUME NEW r, Goes(p, r) PROVE ReqMoves(p, req, req') /\ req'[p] = r
    BY <2>1, <2>2 DEF Goes, ReqMoves
  <2>3. CASE GetDeadline(p)
    <3>1. ReqMoves(p, req, req')
      BY <2>2, <2>3 DEF GetDeadline
    <3> QED
      BY <2>3, <3>1, GetDeadlineKeeps
  <2>4. CASE GetAnswered(p) \/ GetTimedOut(p)
    BY <2>4, GetEnds
  <2>5. CASE Do(p) \/ Lookup(p) \/ Create(p) \/ StartCleaner(p) \/ Acquire(p)
    <3>1. UNCHANGED <<get, chan, pooled>> /\ (p \in Getters => req[p].pc # "idle")
      BY <2>5 DEF Do, Lookup, Create, StartCleaner, Acquire
    <3>2. ReqMoves(p, req, req')
      BY <2>2, <2>5 DEF Do, Lookup, Create, StartCleaner, Acquire
    <3> QED
      BY <3>1, <3>2, RunsOn
  <2>6. CASE ConfigureFails(p)
    <3>1. req[p].pc # "idle" /\ Respond(p) /\ UNCHANGED <<get, pooled>>
      BY <2>6 DEF ConfigureFails
    <3>2. ReqMoves(p, req, req') /\ req'[p] = [req[p] EXCEPT !.pc = "idle"]
      BY <2>2, <2>6 DEF ConfigureFails
    <3>3. req'[p].pc = "idle"
      BY <2>1, <3>2 DEF ReqRecs
    <3> QED
      BY <3>1, <3>2, <3>3, Responds
  <2>7. CASE /\ Respond(p) /\ Goes(p, [req[p] EXCEPT !.pc = "idle", !.hc = None])
             /\ req[p].pc # "idle" /\ UNCHANGED <<get, pooled>>
    <3>1. ReqMoves(p, req, req') /\ req'[p] = [req[p] EXCEPT !.pc = "idle", !.hc = None]
      BY <2>2, <2>7
    <3>2. req'[p].pc = "idle"
      BY <2>1, <3>1 DEF ReqRecs
    <3> QED
      BY <2>7, <3>1, <3>2, Responds
  <2>8. CASE /\ \E r : Goes(p, r)
             /\ req[p].pc # "idle" /\ UNCHANGED <<get, chan, pooled>>
    BY <2>2, <2>8, RunsOn
  <2>9. CASE NoFreeConns(p)
    BY <2>7, <2>9 DEF NoFreeConns
  <2>10. CASE DoEnds(p)
    <3>1. req[p].pc # "idle" /\ UNCHANGED <<get, pooled>>
      BY <2>10 DEF DoEnds
    <3>2. \/ Respond(p) /\ Goes(p, [req[p] EXCEPT !.pc = "idle", !.hc = None])
          \/ (\E r : Goes(p, r)) /\ UNCHANGED chan
      BY <2>10 DEF DoEnds
    <3> QED
      BY <2>7, <2>8, <3>1, <3>2
  <2> QED
    BY <1>2, <2>3, <2>4, <2>5, <2>6, <2>9, <2>10 DEF ClientStep
<1>3. CASE (\E c \in HostClients : StrayDialEnds(c) \/ IdleExpires(c)) \/ CloseIdleConnections \/ mCleaner
  BY <1>1, <1>3 DEF StrayDialEnds, IdleExpires, CloseIdleConnections, mCleaner
<1> QED
  BY <1>1, <1>2, <1>3 DEF ClientNext, clientVars

\* GetDeadline returns the response of its own request or ErrTimeout, and every
\* channel in the pool is empty, whatever the timer and the goroutine with the
\* request do at the same moment.
THEOREM ResultsAreOwn == ClientSpec => []GetResultOwn
<1>1. ChanInv => GetResultOwn
  BY DEF ChanInv, GetTyped, OwnChan, OwnResponse, GetResultOwn
<1> QED
  BY <1>1, MapStarts, MapStep, ChanStarts, ChanStep, PTL DEF ClientSpec
=============================================================================
