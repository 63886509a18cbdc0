----------------------------- MODULE SeqLemmas ------------------------------
(***************************************************************************)
(* Lemmas that the proofs about the components share: the elements of a    *)
(* list from which one end is taken, to which one is appended or which is  *)
(* cut in two, and induction on natural numbers over a set.                *)
(***************************************************************************)
EXTENDS Integers, Sequences, WellFoundedInduction, TLAPS

\* The elements of a list, and that none is in it twice.
Elems(s) == {s[i] : i \in 1..Len(s)}
Distinct(s) == \A i, j \in 1..Len(s) : s[i] = s[j] => i = j

\* The empty list.
LEMMA EmptyList == Elems(<<>>) = {} /\ Distinct(<<>>)
  BY DEF Elems, Distinct

\* Both ends of a list are elements of it.
LEMMA ListEnds ==
  ASSUME NEW W, NEW s \in Seq(W), s # <<>>
  PROVE  Head(s) \in Elems(s) /\ s[Len(s)] \in Elems(s) /\ Elems(s) \subseteq W
  BY DEF Elems

\* Taking the last element of a list.
LEMMA TakeLast ==
  ASSUME NEW W, NEW s \in Seq(W), s # <<>>, Distinct(s)
  PROVE  LET t == SubSeq(s, 1, Len(s) - 1)
         IN  t \in Seq(W) /\ Distinct(t) /\ Elems(t) = Elems(s) \ {s[Len(s)]}
<1> DEFINE n == Len(s)
           t == SubSeq(s, 1, n - 1)
<1>1. n \in Nat /\ n > 0
  OBVIOUS
<1>2. t \in Seq(W) /\ Len(t) = n - 1 /\ \A i \in 1..(n - 1) : t[i] = s[i]
  BY <1>1, SMTT(30)
<1> HIDE DEF t, n
<1>3. Distinct(t)
  BY <1>1, <1>2 DEF Distinct, n
<1>4. Elems(t) \subseteq Elems(s) \ {s[n]}
  BY <1>1, <1>2 DEF Elems, Distinct, n
<1>5. Elems(s) \ {s[n]} \subseteq Elems(t)
  <2> SUFFICES ASSUME NEW i \in 1..n, s[i] # s[n] PROVE s[i] \in Elems(t)
    BY DEF Elems, n
  <2>1. i \in 1..(n - 1)
    BY <1>1
  <2> QED
    BY <1>2, <2>1 DEF Elems
<1> QED
  BY <1>2, <1>3, <1>4, <1>5 DEF t, n

\* Taking the first element of a list.
LEMMA TakeHead ==
  ASSUME NEW W, NEW s \in Seq(W), s # <<>>, Distinct(s)
  PROVE  Tail(s) \in Seq(W) /\ Distinct(Tail(s)) /\ Elems(Tail(s)) = Elems(s) \ {Head(s)}
<1> DEFINE n == Len(s)
           t == Tail(s)
<1>1. n \in Nat /\ n > 0 /\ Head(s) = s[1]
  OBVIOUS
<1>2. t \in Seq(W) /\ Len(t) = n - 1 /\ \A i \in 1..(n - 1) : t[i] = s[i + 1]
  BY <1>1
<1> HIDE DEF t, n
<1>3. Distinct(t)
  BY <1>1, <1>2 DEF Distinct, n
<1>4. Elems(t) \subseteq Elems(s) \ {s[1]}
  BY <1>1, <1>2 DEF Elems, Distinct, n
<1>5. Elems(s) \ {s[1]} \subseteq Elems(t)
  <2> SUFFICES ASSUME NEW i \in 1..n, s[i] # s[1] PROVE s[i] \in Elems(t)
    BY DEF Elems, n
  <2>1. i - 1 \in 1..(n - 1) /\ s[i] = t[i - 1]
    BY <1>1, <1>2
  <2> QED
    BY <1>2, <2>1 DEF Elems
<1> QED
  BY <1>1, <1>2, <1>3, <1>4, <1>5 DEF t

\* Appending an element that the list does not have.
LEMMA PutLast ==
  ASSUME NEW W, NEW s \in Seq(W), NEW x \in W, Distinct(s), x \notin Elems(s)
  PROVE  /\ Append(s, x) \in Seq(W) /\ Distinct(Append(s, x))
         /\ Elems(Append(s, x)) = Elems(s) \cup {x}
<1> DEFINE n == Len(s)
           t == Append(s, x)
<1>1. n \in Nat
  OBVIOUS
<1>2. t \in Seq(W) /\ Len(t) = n + 1 /\ t[n + 1] = x /\ \A i \in 1..n : t[i] = s[i]
  BY <1>1
<1> HIDE DEF t, n
<1>3. Distinct(t)
  BY <1>1, <1>2 DEF Distinct, Elems, n
<1>4. Elems(t) = Elems(s) \cup {x}
  BY <1>1, <1>2 DEF Elems, n
<1> QED
  BY <1>2, <1>3, <1>4 DEF t

\* Cutting a list in two.
LEMMA Cut ==
  ASSUME NEW W, NEW s \in Seq(W), NEW k \in 0..Len(s), Distinct(s)
  PROVE  LET a == SubSeq(s, 1, k)
             b == SubSeq(s, k + 1, Len(s))
         IN  /\ a \in Seq(W) /\ b \in Seq(W) /\ Distinct(a) /\ Distinct(b)
             /\ Elems(a) \cap Elems(b) = {} /\ Elems(a) \cup Elems(b) = Elems(s)
<1> DEFINE n == Len(s)
           a == SubSeq(s, 1, k)
           b == SubSeq(s, k + 1, n)
<1>1. n \in Nat /\ k \in Nat /\ k <= n
  OBVIOUS
<1>2. a \in Seq(W) /\ Len(a) = k /\ \A i \in 1..k : a[i] = s[i]
  BY <1>1
<1>3. b \in Seq(W) /\ Len(b) = n - k /\ \A i \in 1..(n - k) : b[i] = s[i + k]
  BY <1>1
<1>4. \A i \in 1..k : i \in 1..n
  BY <1>1
<1>5. \A i \in 1..(n - k) : i + k \in 1..n /\ i + k \notin 1..k
  BY <1>1
<1>6. \A i \in 1..n : i \notin 1..k => i - k \in 1..(n - k) /\ (i - k) + k = i
  BY <1>1
<1> HIDE DEF a, b, n
<1>7. Distinct(a)
  BY <1>2, <1>4 DEF Distinct, n
<1>8. Distinct(b)
  <2> SUFFICES ASSUME NEW i \in 1..(n - k), NEW j \in 1..(n - k), b[i] = b[j] PROVE i = j
    BY <1>3 DEF Distinct
  <2>1. i + k = j + k
    BY <1>3, <1>5 DEF Distinct, n
  <2> QED
    BY <1>1, <2>1
<1>9. Elems(a) \cap Elems(b) = {}
  <2> SUFFICES ASSUME NEW i \in 1..k, NEW j \in 1..(n - k), a[i] = b[j] PROVE FALSE
    BY <1>2, <1>3 DEF Elems
  <2>1. i = j + k
    BY <1>2, <1>3, <1>4, <1>5 DEF Distinct, n
  <2> QED
    BY <1>5, <2>1
<1>10. Elems(a) \cup Elems(b) \subseteq Elems(s)
  BY <1>2, <1>3, <1>4, <1>5 DEF Elems, n
<1>11. Elems(s) \subseteq Elems(a) \cup Elems(b)
  <2> SUFFICES ASSUME NEW i \in 1..n PROVE s[i] \in Elems(a) \cup Elems(b)
    BY DEF Elems, n
  <2>1. CASE i \in 1..k
    BY <1>2, <2>1 DEF Elems
  <2>2. CASE i \notin 1..k
    BY <1>3, <1>6, <2>2 DEF Elems
  <2> QED
    BY <2>1, <2>2
<1> QED
  BY <1>2, <1>3, <1>7, <1>8, <1>9, <1>10, <1>11 DEF a, b, n

-----------------------------------------------------------------------------
(* Induction.  The library states it for a predicate P(_); the provers     *)
(* need it for a set.                                                      *)

\* A nonempty set of natural numbers has a least element.
LEMMA LeastElement ==
  ASSUME NEW T, T \subseteq Nat, T # {}
  PROVE  \E x \in T : \A y \in T : x <= y
<1> DEFINE R == OpToRel(<, Nat)
<1>1. IsWellFoundedOn(R, Nat)
  BY NatLessThanWellFounded
<1>2. \A x, y \in Nat : y < x => <<y, x>> \in R
  BY DEF OpToRel
<1> HIDE DEF R
<1>3. PICK x \in T : \A y \in T : ~(<<y, x>> \in R)
  BY <1>1, WFMin
<1>4. ASSUME NEW y \in T PROVE ~(y < x)
  BY <1>2, <1>3, Zenon
<1> QED
  BY <1>4

\* A set with 0 and the successor of each of its numbers has all of them.
LEMMA Induction ==
  ASSUME NEW S, 0 \in S, \A n \in Nat : n \in S => n + 1 \in S
  PROVE  Nat \subseteq S
<1>1. SUFFICES ASSUME Nat \ S # {} PROVE FALSE
  OBVIOUS
<1>2. PICK x \in Nat \ S : \A y \in Nat \ S : x <= y
  BY <1>1, LeastElement
<1>3. x # 0 /\ x - 1 \in Nat /\ x - 1 < x
  BY <1>2
<1> QED
  BY <1>2, <1>3

=============================================================================
