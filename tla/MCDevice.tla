------------------------------ MODULE MCDevice ------------------------------
(***************************************************************************)
(* A small instance of Device for TLC.                                     *)
(***************************************************************************)
EXTENDS Device, TLC

CONSTANT r1   \* the request in flight
=============================================================================
