------------------------------- MODULE MCApp -------------------------------
(***************************************************************************)
(* The router and the session middleware for TLC.  They share no state: in *)
(* a behaviour one of them moves.                                          *)
(***************************************************************************)
EXTENDS Router, Session

CONSTANTS v1, v2, p1, p2, d1, d2, k1

VARIABLE part

\* Goroutines, pooled objects and clients are interchangeable
Symmetry == Permutations(Visitors) \cup Permutations(SessionReqs) \cup Permutations(Datas)

\* Keys that share prefixes, that one parameter or another also matches, and
\* that overlap with a shorter key's end
MCTokens == "<id>" :> [name |-> "id", pattern |-> ""]
            @@ "<no:\\d+>" :> [name |-> "no", pattern |-> "digits"]
            @@ "<*:.*>" :> [name |-> "*", pattern |-> "all"]
            @@ "<x>" :> [name |-> "x", pattern |-> ""]

Route(g, ms, path, h) == [g |-> g, ms |-> ms, path |-> path, hs |-> <<h>>]
MCRoutes == { Route(1, <<"GET">>, <<"/", "a">>, "ok"),
              Route(1, <<"GET", "POST">>, <<"/", "<id>">>, "ok"),
              Route(1, <<"GET">>, <<"/", "<no:\\d+>", "/", "<x>">>, "fail"),
              Route(1, <<"GET">>, <<"/", "a", "/", "<x>">>, "ok"),
              Route(1, <<"GET">>, <<"/", "<id>", "/", "<no:\\d+>">>, "ok"),
              Route(1, <<"GET">>, <<"/", "<*:.*>">>, "abort"),
              Route(2, <<"POST">>, <<"1">>, "ok") }
MCRequests == {[method |-> "GET", path |-> p] :
                 p \in { <<"/", "a">>, <<"/", "1">>, <<"/">>, <<"/", "1", "/", "b">>,
                         <<"/", "1", "/", "1">>, <<"/", "a", "1">>,
                         <<"/", "a", "/", "b">> }}
              \cup {[method |-> "POST", path |-> <<"/", "a", "1">>]}
MCPrefix == <<"/", "a">>

MCInit == RouterInit /\ SessionInit /\ part \in {"Router", "Session"}

RouterMoves == part = "Router" /\ RouterNext /\ UNCHANGED <<sessionVars, part>>
SessionMoves == part = "Session" /\ SessionNext /\ UNCHANGED <<routerVars, part>>
MCNext == RouterMoves \/ SessionMoves

MCSpec == MCInit /\ [][MCNext]_<<routerVars, sessionVars, part>>
=============================================================================
