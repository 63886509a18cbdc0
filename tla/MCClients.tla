----------------------------- MODULE MCClients -----------------------------
(***************************************************************************)
(* Client, LBClient and TCPDialer for TLC.  They share no state: in a      *)
(* behaviour one of them moves.                                            *)
(***************************************************************************)
EXTENDS Client, LBClient, TCPDialer

CONSTANTS b1, b2

VARIABLE part

First == <<b1>>

MCInit == ClientInit /\ LBInit /\ DialerInit /\ part \in {"Client", "LBClient", "TCPDialer"}

ClientMoves == part = "Client" /\ ClientNext /\ UNCHANGED <<lbVars, dialerVars, part>>
LBMoves == part = "LBClient" /\ LBNext /\ UNCHANGED <<clientVars, dialerVars, part>>
DialerMoves == part = "TCPDialer" /\ DialerNext /\ UNCHANGED <<clientVars, lbVars, part>>
MCNext == ClientMoves \/ LBMoves \/ DialerMoves

MCSpec == MCInit /\ [][MCNext]_<<clientVars, lbVars, dialerVars, part>>
=============================================================================
