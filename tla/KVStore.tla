------------------------------ MODULE KVStore ------------------------------
(***************************************************************************)
(* What the key-value store promises to its clients (struct kv_ops in      *)
(* include/kv_ops.h: set_kv and get_kv).  The committed SETs form one      *)
(* history; version v of the store is its v-th committed SET.  A request   *)
(* is pending from the moment it is accepted until it is acknowledged.     *)
(* A SET commits at one point while it is pending.  A GET returns the      *)
(* newest version of its key as of some moment while it was pending, or 0  *)
(* when the key had no version yet: it never returns anything older than   *)
(* what was committed when it was accepted.                                *)
(***************************************************************************)
EXTENDS Naturals, Sequences

CONSTANTS Keys, Reqs

VARIABLES history,  \* Seq(Keys): history[v] is the key written by version v
          op        \* [Reqs -> operation records]

kvVars == <<history, op>>

OpRecord == [type: {"GET", "SET"}, key: Keys, pending: BOOLEAN,
             floor: Nat, val: Nat]

KVInit ==
    /\ history = << >>
    /\ op \in [Reqs -> OpRecord]
    /\ \A r \in Reqs : /\ ~op[r].pending
                       /\ op[r].floor = 0
                       /\ op[r].val = 0

\* Request r is accepted; floor remembers the history it must not miss.
Call(r, type, k) ==
    /\ ~op[r].pending
    /\ op' = [op EXCEPT ![r] = [type |-> type, key |-> k, pending |-> TRUE,
                                floor |-> Len(history), val |-> 0]]
    /\ UNCHANGED history

\* The acknowledged operation: its answer stays visible until r is reused.
Answered(o, v) == [o EXCEPT !.pending = FALSE, !.floor = 0, !.val = v]

\* A pending SET takes effect and is acknowledged.
CommitSet(r) ==
    /\ op[r].pending
    /\ op[r].type = "SET"
    /\ history' = Append(history, op[r].key)
    /\ op' = [op EXCEPT ![r] = Answered(op[r], Len(history) + 1)]

\* v is a version of k (or absence, 0) that no version of k up to n replaces.
Current(k, v, n) ==
    /\ v = 0 \/ (v \in 1..Len(history) /\ history[v] = k)
    /\ \A w \in (v + 1)..n : history[w] # k

ReplyGet(r) ==
    /\ op[r].pending
    /\ op[r].type = "GET"
    /\ \E v \in 0..Len(history) :
          /\ Current(op[r].key, v, op[r].floor)
          /\ op' = [op EXCEPT ![r] = Answered(op[r], v)]
    /\ UNCHANGED history

KVNext ==
    \E r \in Reqs :
       \/ \E type \in {"GET", "SET"}, k \in Keys : Call(r, type, k)
       \/ CommitSet(r)
       \/ ReplyGet(r)

KVSpec == KVInit /\ [][KVNext]_kvVars
=============================================================================
