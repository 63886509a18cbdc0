---------------------------- MODULE MCWorkerPool ----------------------------
(***************************************************************************)
(* WorkerPool for TLC: in a behaviour the channels have the capacity the   *)
(* .cfg gives them, or none.                                               *)
(***************************************************************************)
EXTENDS WorkerPool

VARIABLE asConfigured

Unbuffered == INSTANCE WorkerPool WITH Cap <- 0

Either(A, B) == (IF asConfigured THEN A ELSE B) /\ UNCHANGED asConfigured

mcVars == <<vars, asConfigured>>

MCInit == Init /\ asConfigured \in BOOLEAN
Configured == asConfigured /\ Next /\ UNCHANGED asConfigured
WithoutBuffers == ~asConfigured /\ Unbuffered!Next /\ UNCHANGED asConfigured

\* Fairness, for the one or the other
MCFairness ==
  /\ \A w \in Workers : SF_mcVars(Either(WorkerNext(w), Unbuffered!WorkerNext(w)))
  /\ WF_mcVars(Either(ServeSend \/ StopNotify \/ StopUnlock,
                      Unbuffered!ServeSend \/ Unbuffered!StopNotify \/ Unbuffered!StopUnlock))
  /\ SF_mcVars(Either(CleanNext, Unbuffered!CleanNext))

MCSpec == MCInit /\ [][Configured \/ WithoutBuffers]_mcVars /\ MCFairness
=============================================================================
