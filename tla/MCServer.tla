------------------------------ MODULE MCServer ------------------------------
(***************************************************************************)
(* Instances of Server for TLC.  RequestCtxs are interchangeable.          *)
(***************************************************************************)
EXTENDS Server, TLC

CONSTANTS Pipelining, Silent

Interchangeable == Permutations(Ctxs)

\* How many requests a client sends: two, none or one.
RequestsSent ==
  [c \in Conns |-> IF c \in Pipelining THEN 2 ELSE IF c \in Silent THEN 0 ELSE 1]
=============================================================================
