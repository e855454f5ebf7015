--------------------------- MODULE MCRequestPath ---------------------------
(***************************************************************************)
(* Small instances of RequestPath for TLC.                                 *)
(***************************************************************************)
EXTENDS RequestPath, TLC

CONSTANTS h1, h2

\* Two handlers; the second and third request go to the second, and then
\* more in a row to the first than its pool holds.
RouteTwo == [n \in 1..NR_KEY |-> IF n \in 2..3 THEN h2 ELSE h1]
=============================================================================
