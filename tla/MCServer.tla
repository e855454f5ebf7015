------------------------------ MODULE MCServer ------------------------------
(***************************************************************************)
(* A small instance of Server for TLC.                                     *)
(***************************************************************************)
EXTENDS Server, TLC

CONSTANTS c1, c2

\* The first handler gets requests of both clients, more than it takes at a
\* time; the first request of the second client goes to the second handler.
RouteTwo ==
    [c \in Clients |-> [n \in 1..NR_KEY |-> IF c = c2 /\ n = 1 THEN 2 ELSE 1]]
=============================================================================
