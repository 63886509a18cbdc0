-------------------------------- MODULE Args --------------------------------
\* The list of key/value pairs (argsKV) on which headers, trailers, cookies and
\* query arguments are built.  A pair is [k, v]; what a value is depends on the
\* user of the list.  noValue is left out: headers do not tell it from an
\* empty value.
EXTENDS Sequences, SequencesExt, Integers, FiniteSets

\* The positions of key k.
Positions(args, k) == {i \in DOMAIN args : args[i].k = k}

hasArg(args, k) == Positions(args, k) # {}

appendArg(args, k, v) == Append(args, [k |-> k, v |-> v])

\* The first pair with the key is overwritten, the others stay.
setArg(args, k, v) ==
  IF hasArg(args, k)
  THEN [args EXCEPT ![Min(Positions(args, k))].v = v]
  ELSE appendArg(args, k, v)

\* The elements at the positions T, in order.  (SelectSeq, for which the proof
\* system has no definition, with the positions instead of a test.)
Picked(s, T) ==
  LET nth(j) == CHOOSE i \in T : Cardinality({x \in T : x <= i}) = j
  IN  [j \in 1..Cardinality(T) |-> s[nth(j)]]

delAllArgs(args, k) == Picked(args, DOMAIN args \ Positions(args, k))

\* The value of the first pair with the key, `missing` (nil in the code) if none.
peekArg(args, k, missing) ==
  IF hasArg(args, k) THEN args[Min(Positions(args, k))].v ELSE missing

\* Every value of the key, in order.
peekAllArg(args, k) ==
  LET kvs == Picked(args, Positions(args, k))
  IN  [i \in DOMAIN kvs |-> kvs[i].v]

peekArgsKeys(args) == [i \in DOMAIN args |-> args[i].k]
=============================================================================
