------------------------------ MODULE MCBigKV ------------------------------
(***************************************************************************)
(* Small instances of BigKV for TLC.                                       *)
(***************************************************************************)
EXTENDS BigKV, Functions, TLC

CONSTANTS k1, k2, k3, k4

\* k1, k2 and k3 share a bucket, k4 has another one of the same partition.
\* In a table of four with two hops, k1 and k3 start at the cell before that of
\* k2 and k4: a third of k1, k2 and k3 has a place only behind k3.
HashHigh ==
    Restrict((k1 :> 0) @@ (k2 :> 0) @@ (k3 :> 2) @@ (k4 :> 1), Keys)

HashLow ==
    Restrict((k1 :> 1) @@ (k2 :> 2) @@ (k3 :> 5) @@ (k4 :> 6), Keys)

\* What the device may hold where a table is about to be written: zeros, which
\* have the fingerprint of an unused cell but not its address, or the table of
\* an earlier run, without entries or with one.
Zeros   == {[c \in Cells |-> [fingerprint |-> 0, pba |-> 1]]}
Unused  == {EmptyTable}
Earlier == {[EmptyTable EXCEPT ![1] = [fingerprint |-> 1, pba |-> 2]]}

\* Requests of one kind are interchangeable.
WriterSymmetry == Permutations(Writers)
=============================================================================
