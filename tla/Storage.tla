------------------------------- MODULE Storage -------------------------------
(***************************************************************************)
(* The storage layer (src/storage/storage.rs).  Every thread of a node has *)
(* its own StorageLayer (engines are cloned), all of them over one file.   *)
(* A call re-reads the file into the thread's `self.bundles', changes that *)
(* copy, and writes the copy back over the file; STORAGE_IO_LOCK is held   *)
(* for the read and for the write, never from the read to the write.  So a *)
(* call is two steps, Begin and End (and Sweep between them when           *)
(* save_bundle finds expired bundles), and other threads run between them. *)
(* The write goes to a temporary file that is renamed over bundles.json:   *)
(* the file changes in one step, and a crash keeps the old or the new one. *)
(***************************************************************************)
EXTENDS BundleStore

CONSTANTS
  Nodes,     \* the nodes, each with a directory of its own
  Threads,   \* threads of all nodes
  Home,      \* Home[t]: the node thread t belongs to
  IoFaults   \* which file operations may fail: a subset of {"read", "write"}

ASSUME StorageAssumption ==
  /\ Home \in [Threads -> Nodes]
  /\ IoFaults \subseteq {"read", "write"}

VARIABLES
  disk,      \* disk[n]: the records in bundles.json of node n
  call,      \* call[t]: the storage call thread t is in, or NoCall
  expired    \* ids of the bundles whose time to live has run out

vars == <<disk, call, expired>>

NoCall == [op |-> "none"]

Call == [op : Ops, bundle : Bundle, view : SUBSET Bundle, stage : {"sweep", "write"}]

TypeOK ==
  /\ disk \in [Nodes -> SUBSET Bundle]
  /\ call \in [Threads -> Call \cup {NoCall}]
  /\ expired \subseteq Ids

Init ==
  /\ disk = [n \in Nodes |-> {}]
  /\ call = [t \in Threads |-> NoCall]
  /\ expired = {}

InCall(t) == call[t] # NoCall

(* refresh_from_disk: what a thread can see of the file.  A file that      *)
(* cannot be read is taken for an empty one.                               *)
Readings(n) == {disk[n]} \cup (IF "read" \in IoFaults THEN {{}} ELSE {})

----------------------------------------------------------------------------
(* The call starts and re-reads the file.  cleanup_expired_bundles has     *)
(* something to write only if the list it read holds an expired bundle.    *)
Begin(t, op, b) ==
  /\ ~InCall(t)
  /\ \E S \in Readings(Home[t]) :
       call' = [call EXCEPT ![t] =
                  [op |-> op, bundle |-> b, view |-> S,
                   stage |-> IF op = "save" /\ IdsOf(S) \cap expired # {}
                             THEN "sweep" ELSE "write"]]
  /\ UNCHANGED <<disk, expired>>

(* Mutant: the retain of cleanup_expired_bundles without its negation.     *)
SweepInverted(t) ==
  /\ InCall(t) /\ call[t].stage = "sweep"
  /\ LET c == call[t]
         left == c.view \ Live(c.view, expired)
     IN
       /\ call' = [call EXCEPT ![t] = [op |-> c.op, bundle |-> c.bundle,
                                       view |-> left, stage |-> "write"]]
       /\ disk' = [disk EXCEPT ![Home[t]] = left]
  /\ UNCHANGED expired

(* cleanup_expired_bundles, inside save_bundle: drop the expired bundles   *)
(* from the list and write it.  The result of the write is ignored.        *)
Sweep(t) ==
  /\ InCall(t) /\ call[t].stage = "sweep"
  /\ LET c == call[t]
         left == Live(c.view, expired)
     IN
       /\ call' = [call EXCEPT ![t] = [op |-> c.op, bundle |-> c.bundle,
                                       view |-> left, stage |-> "write"]]
       /\ \/ disk' = [disk EXCEPT ![Home[t]] = left]
          \/ "write" \in IoFaults /\ UNCHANGED disk
  /\ UNCHANGED expired

(* Mutant: the call stays open after its write.                            *)
EndUnfinished(t, ok) ==
  /\ InCall(t) /\ call[t].stage = "write" /\ ok
  /\ call' = [call EXCEPT ![t].stage = "done"]
  /\ UNCHANGED <<disk, expired>>

(* Mutant: the write without the checks.                                   *)
EndUnchecked(t, ok) ==
  /\ InCall(t) /\ call[t].stage = "write" /\ ok
  /\ LET c == call[t] IN
       disk' = [disk EXCEPT ![Home[t]] = Applied(c.op, c.view, c.bundle)]
  /\ call' = [call EXCEPT ![t] = NoCall]
  /\ UNCHANGED expired

(* The call decides, writes if it changed the list, and returns `ok'.      *)
End(t, ok) ==
  /\ InCall(t) /\ call[t].stage = "write"
  /\ LET c == call[t] IN
       \/ /\ ok /\ Accepts(c.op, c.view, c.bundle)
          /\ disk' = [disk EXCEPT ![Home[t]] = Applied(c.op, c.view, c.bundle)]
       \/ /\ ~ok
          /\ ~Accepts(c.op, c.view, c.bundle) \/ "write" \in IoFaults
          /\ UNCHANGED disk
  /\ call' = [call EXCEPT ![t] = NoCall]
  /\ UNCHANGED expired

(* save_ack_if_new_for_data holds the lock from its read to its write, so  *)
(* it is one step.  (Nothing in the program calls it; the engine uses      *)
(* has_ack_for_data_bundle and save_bundle instead.)                       *)
SaveAckIfNew(t, b) ==
  /\ ~InCall(t)
  /\ \E S \in Readings(Home[t]) :
       /\ CanSaveAck(S, b)
       /\ disk' = [disk EXCEPT ![Home[t]] = Added(S, b)]
  /\ UNCHANGED <<call, expired>>

(* Time passes.                                                            *)
Expire(i) ==
  /\ i \notin expired
  /\ expired' = expired \cup {i}
  /\ UNCHANGED <<disk, call>>

(* The process of node n dies: its threads are gone, the file stays.       *)
Crash(n) ==
  /\ \E t \in Threads : Home[t] = n /\ InCall(t)
  /\ call' = [t \in Threads |-> IF Home[t] = n THEN NoCall ELSE call[t]]
  /\ UNCHANGED <<disk, expired>>

----------------------------------------------------------------------------
(* Any thread may make any call: the routing engine is one such client.    *)
Next ==
  \/ \E t \in Threads :
       \/ \E op \in Ops, b \in Bundle : Begin(t, op, b)
       \/ Sweep(t)
       \/ \E ok \in BOOLEAN : End(t, ok)
       \/ \E b \in Bundle : SaveAckIfNew(t, b)
  \/ \E i \in Ids : Expire(i)
  \/ \E n \in Nodes : Crash(n)

Spec == Init /\ [][Next]_vars

----------------------------------------------------------------------------
(* No bundle is in a file twice and no file is over capacity, whatever the *)
(* threads of the node interleave (storage.rs, duplicate detection and     *)
(* capacity check of save_bundle): both checks are made on a list that may *)
(* be stale by the time it is written.                                     *)
FilesWellFormed ==
  \A n \in Nodes : UniqueIds(disk[n]) /\ WithinCapacity(disk[n])

(* The lists the threads hold are well formed too: what makes              *)
(* FilesWellFormed inductive.                                              *)
ViewsWellFormed ==
  \A t \in Threads :
    InCall(t) => UniqueIds(call[t].view) /\ WithinCapacity(call[t].view)

(* A bundle leaves a file only because a delete of that very bundle was    *)
(* carried out or because a sweep found it expired: no call loses a record *)
(* that another call saved.                                                *)
LeavesOnlyOnPurpose ==
  [][\A n \in Nodes : \A i \in IdsOf(disk[n]) \ IdsOf(disk'[n]) :
       \/ i \in expired
       \/ \E t \in Threads : /\ Home[t] = n /\ InCall(t) /\ ~InCall(t)'
                             /\ call[t].op = "delete"
                             /\ call[t].bundle.id = i]_vars

(* "If an ACK for this DATA already exists, do not resurrect the DATA      *)
(* bundle": no step puts a DATA bundle into a file that holds a live ACK   *)
(* for it (save_bundle and update_bundle).                                 *)
NoResurrection ==
  [][\A n \in Nodes : \A i \in Data \cap (IdsOf(disk'[n]) \ IdsOf(disk[n])) :
       ~HasAckFor(Live(disk[n], expired), i)]_vars

=============================================================================
