---------------------------- MODULE MCHopscotch ----------------------------
(***************************************************************************)
(* Small instances of Hopscotch for TLC.                                   *)
(***************************************************************************)
EXTENDS Hopscotch, Functions, TLC

CONSTANTS k1, k2, k3, k4

\* k1 and k2 share home 0 and the tag 0 that free entries have too, k3 has
\* home 1 and k4 home 0, both with tag 1.  With neighbourhoods of two, k3, k1,
\* k2 in this order displace k3, and k4 finds no room after k1 and k2.
HashOfKeys ==
    Restrict((k1 :> 0) @@ (k2 :> 0) @@ (k3 :> 5) @@ (k4 :> 4), Keys)
=============================================================================
