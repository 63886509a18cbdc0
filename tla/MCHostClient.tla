---------------------------- MODULE MCHostClient ----------------------------
(***************************************************************************)
(* HostClient for TLC: in a behaviour the client is configured either as   *)
(* the .cfg says or as one that never waits for a connection, hands out    *)
(* the oldest idle one and retries; under fairness as the .cfg says.       *)
(* Connections and wantConns are interchangeable in every action and       *)
(* property.                                                               *)
(***************************************************************************)
EXTENDS HostClient, TLC

VARIABLE asConfigured

mcVars == <<vars, asConfigured>>

Interchangeable == Permutations(Conns) \cup Permutations(Wants)

Other == INSTANCE HostClient WITH Waiting <- FALSE, Lifo <- FALSE, MaxAttempts <- 2

Configured == asConfigured /\ Next /\ UNCHANGED asConfigured
Reconfigured == ~asConfigured /\ Other!Next /\ UNCHANGED asConfigured

MCInit == Init /\ asConfigured \in BOOLEAN

MCSpec == MCInit /\ [][Configured \/ Reconfigured]_mcVars

MCFairInit == Init /\ asConfigured = TRUE

MCFairSpec == MCFairInit /\ [][Configured]_mcVars /\ Fairness
=============================================================================
