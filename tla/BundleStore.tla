----------------------------- MODULE BundleStore -----------------------------
(***************************************************************************)
(* The records a WhatSpace node keeps in its bundles.json, and what the    *)
(* storage layer decides about them: which record a call accepts, and what *)
(* the list of records is once the call has been applied.  The operators   *)
(* take the list the caller has in memory (`self.bundles', here a set of   *)
(* records) as an argument: whether it still equals the file is the        *)
(* business of module Storage.                                             *)
(***************************************************************************)
EXTENDS Naturals, FiniteSets

CONSTANTS
  Data,      \* ids of DATA bundles
  AckIds,    \* ids (Uuid::new_v4) that ACK bundles can get
  AckOf,     \* AckOf[a]: the DATA bundle that an ACK with id a acknowledges
  Capacity   \* StorageLayer::capacity

ASSUME BundleAssumption ==
  /\ Data \cap AckIds = {}
  /\ AckOf \in [AckIds -> Data]
  /\ Capacity \in Nat

Ids == Data \cup AckIds

(* MsgStatus without Expired, which route_bundle gives only to a bundle in *)
(* memory, just before it deletes the stored one.                          *)
Status == {"Pending", "InTransit", "Delivered"}

Bundle == [id : Ids, status : Status]

IsAck(b) == b.id \in AckIds

----------------------------------------------------------------------------
(* Queries on a list of records.                                           *)

Has(S, i) == \E b \in S : b.id = i

HasAckFor(S, d) == \E b \in S : IsAck(b) /\ AckOf[b.id] = d

Live(S, gone) == {b \in S : b.id \notin gone}

IdsOf(S) == {b.id : b \in S}

(* Mutant: the id of the ACK is compared, not the id it acknowledges.      *)
BarredById(S, b) == ~IsAck(b) /\ \E c \in S : IsAck(c) /\ c.id = b.id

(* An ACK already stored for a DATA bundle bars that bundle.               *)
Barred(S, b) == ~IsAck(b) /\ HasAckFor(S, b.id)

----------------------------------------------------------------------------
(* What save_bundle, update_bundle and delete_bundle decide and produce.   *)

(* Mutant: off by one in the capacity check.                               *)
CanSaveOneMore(S, b) ==
  /\ ~Barred(S, b)
  /\ Cardinality(S) <= Capacity
  /\ ~Has(S, b.id)

CanSave(S, b) ==
  /\ ~Barred(S, b)
  /\ Cardinality(S) < Capacity
  /\ ~Has(S, b.id)

CanUpdate(S, b) ==
  /\ ~Barred(S, b)
  /\ Has(S, b.id)

CanDelete(S, b) == Has(S, b.id)

(* save_ack_if_new_for_data.                                               *)
CanSaveAck(S, b) ==
  /\ IsAck(b)
  /\ ~HasAckFor(S, AckOf[b.id])
  /\ Cardinality(S) < Capacity

Without(S, i) == {b \in S : b.id # i}

Added(S, b) == S \cup {b}

Replaced(S, b) == {IF x.id = b.id THEN b ELSE x : x \in S}

Ops == {"save", "update", "delete"}

Accepts(op, S, b) ==
  \/ op = "save"   /\ CanSave(S, b)
  \/ op = "update" /\ CanUpdate(S, b)
  \/ op = "delete" /\ CanDelete(S, b)

Applied(op, S, b) ==
  IF op = "save" THEN Added(S, b)
  ELSE IF op = "update" THEN Replaced(S, b)
  ELSE Without(S, b.id)

----------------------------------------------------------------------------
(* Well-formed lists: no id twice, never over capacity.                    *)

UniqueIds(S) == \A b, c \in S : b.id = c.id => b = c

WithinCapacity(S) == IsFiniteSet(S) /\ Cardinality(S) <= Capacity

=============================================================================
