----------------------------- MODULE AtomicStore -----------------------------
(***************************************************************************)
(* What the storage layer promises: one list of records per node, changed  *)
(* by whole calls.  A call decides on the list as it is and applies its    *)
(* change to it in the same step; a save may first drop bundles that have  *)
(* expired.  A call that is refused, or whose write fails, changes nothing *)
(* and so is no step at all here.                                          *)
(***************************************************************************)
EXTENDS BundleStore

CONSTANT Nodes

VARIABLES
  store,     \* store[n]: the records node n keeps
  expired    \* ids of the bundles whose time to live has run out

vars == <<store, expired>>

TypeOK ==
  /\ store \in [Nodes -> SUBSET Bundle]
  /\ expired \subseteq Ids

Init ==
  /\ store = [n \in Nodes |-> {}]
  /\ expired = {}

Do(n, op, b) ==
  \E gone \in SUBSET (IF op = "save" THEN expired ELSE {}) :
    LET S == Live(store[n], gone) IN
      /\ Accepts(op, S, b)
      /\ store' = [store EXCEPT ![n] = Applied(op, S, b)]
      /\ UNCHANGED expired

SaveAck(n, b) ==
  /\ CanSaveAck(store[n], b)
  /\ store' = [store EXCEPT ![n] = Added(store[n], b)]
  /\ UNCHANGED expired

Sweep(n) ==
  /\ store' = [store EXCEPT ![n] = Live(store[n], expired)]
  /\ UNCHANGED expired

Expire(i) ==
  /\ expired' = expired \cup {i}
  /\ UNCHANGED store

Next ==
  \/ \E n \in Nodes, op \in Ops, b \in Bundle : Do(n, op, b)
  \/ \E n \in Nodes, b \in Bundle : SaveAck(n, b)
  \/ \E n \in Nodes : Sweep(n)
  \/ \E i \in Ids : Expire(i)

Spec == Init /\ [][Next]_vars

=============================================================================
