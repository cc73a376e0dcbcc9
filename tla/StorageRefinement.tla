-------------------------- MODULE StorageRefinement --------------------------
(***************************************************************************)
(* Storage against AtomicStore.  The file stands for the atomic list: when *)
(* the calls on one directory never overlap, a call's End is the one step  *)
(* that applies it.                                                        *)
(***************************************************************************)
EXTENDS Storage

Atomic == INSTANCE AtomicStore WITH store <- disk

(* The storage layer keeps the promise of AtomicStore: each call takes     *)
(* effect at once, on the records as they are at that moment               *)
(* (storage.rs: save_bundle, update_bundle, delete_bundle).                *)
ImplementsAtomicStore == Atomic!Spec

----------------------------------------------------------------------------
(* What makes it so.                                                       *)

NoOverlap == \A s, t \in Threads : Home[s] = Home[t] => s = t

NoReadFaults == "read" \notin IoFaults

(* The list a call works on is the file, or, after the sweep of a save     *)
(* whose write failed, the file without some of its expired bundles.       *)
ViewInSync(t) ==
  \E gone \in SUBSET expired :
    /\ call[t].view = Live(disk[Home[t]], gone)
    /\ call[t].op = "save" \/ (gone = {} /\ call[t].stage = "write")

InSync == \A t \in Threads : InCall(t) => ViewInSync(t)

=============================================================================
