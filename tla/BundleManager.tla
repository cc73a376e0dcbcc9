---------------------------- MODULE BundleManager ----------------------------
(***************************************************************************)
(* What the threads of a node do to its file.  A thread runs one job at a  *)
(* time: it routes a bundle that came in over a connection (or, for DATA,  *)
(* from the command line), or re-sends one stored bundle (the retry        *)
(* thread).  A job is a sequence of calls of BundleManager, each of which  *)
(* is one or more calls of the thread's StorageLayer; what they are depends*)
(* on whether the node is an end of the bundle.  The network steps of the  *)
(* job are module Routing's and are left out here, so that what is left is *)
(* every read and write of the file and the order of them.                 *)
(***************************************************************************)
EXTENDS BundleStore

CONSTANTS Nodes, Threads, Home, IoFaults   \* as in Storage

ASSUME ManagerAssumption ==
  Home \in [Threads -> Nodes] /\ IoFaults \subseteq {"read", "write"}

VARIABLES
  disk, call, expired,  \* as in Storage
  task,                 \* task[t]: the job thread t runs, or Idle
  source, destination,  \* the ends of a DATA bundle; its ACK goes back to the source
  made                  \* ids of the ACKs that a destination created and saved

vars == <<disk, call, expired, task, source, destination, made>>

ends == <<source, destination>>

Store == INSTANCE Storage

Idle == [pc |-> "none"]

(* Where a job is: at a step that only reads, or at a call that writes.    *)
Reads  == {"has", "check", "create", "get", "look", "find", "known", "stored"}
Writes == {"keep", "save", "update", "mark", "purge", "delete"}

Task == [bundle : Bundle, pc : Reads \cup Writes]

TypeOK ==
  /\ Store!TypeOK
  /\ task \in [Threads -> Task \cup {Idle}]
  /\ source \in [Data -> Nodes] /\ destination \in [Data -> Nodes]
  /\ made \subseteq AckIds

Init ==
  /\ Store!Init
  /\ task = [t \in Threads |-> Idle]
  /\ source \in [Data -> Nodes] /\ destination \in [Data -> Nodes]
  /\ \A i \in Data : source[i] # destination[i]
  /\ made = {}

Busy(t) == task[t] # Idle

At(t, pc) == Busy(t) /\ ~Store!InCall(t) /\ task[t].pc = pc

(* Mutant: a job that is done keeps its thread.                            *)
GoOn(t, pc, b) == task' = [task EXCEPT ![t] = [bundle |-> b, pc |-> pc]]

(* The task of t after it moved on to pc, with bundle b.                   *)
Go(t, pc, b) ==
  task' = [task EXCEPT ![t] = IF pc = "done" THEN Idle ELSE [bundle |-> b, pc |-> pc]]

As(b, status) == [id |-> b.id, status |-> status]

(* The DATA bundle that the ACK in hand acknowledges, as Delivered.        *)
Acked(b) == [id |-> AckOf[b.id], status |-> "Delivered"]

(* The node is the last stop of the bundle: of DATA, or of an ACK.         *)
ArrivedData(t, b) == ~IsAck(b) /\ destination[b.id] = Home[t]

ArrivedAck(t, b) == IsAck(b) /\ source[AckOf[b.id]] = Home[t]

----------------------------------------------------------------------------
(* A bundle comes in; its status is Pending, on the wire and from the      *)
(* command line.  At the destination of its DATA an ACK can only be one    *)
(* that was saved and forwarded there and comes back.                      *)
Start(t, b) ==
  /\ ~Busy(t)
  /\ b.status = "Pending"
  /\ IsAck(b) /\ destination[AckOf[b.id]] = Home[t] => b.id \in made
  /\ Go(t, "has", b)
  /\ UNCHANGED <<disk, call, expired, ends, made>>

(* Mutant: everything stored is sent again.                                *)
RetryAll(t) ==
  /\ ~Busy(t)
  /\ \E S \in Store!Readings(Home[t]) : \E b \in S : Go(t, "get", b)
  /\ UNCHANGED <<disk, call, expired, ends, made>>

(* retry_unsynced_bundles: the thread reads the file, sends a bundle that  *)
(* is Pending or InTransit, and ...                                        *)
Retry(t) ==
  /\ ~Busy(t)
  /\ \E S \in Store!Readings(Home[t]) : \E b \in S :
       b.status \in {"Pending", "InTransit"} /\ Go(t, "get", b)
  /\ UNCHANGED <<disk, call, expired, ends, made>>

(* A call that only reads: get_bundle, has_bundle, has_ack_for_data_bundle. *)
Reading(t, pc) ==
  /\ At(t, pc)
  /\ UNCHANGED <<disk, call, expired, ends, made>>

(* handle_peer_to_peer: a bundle already stored is not routed again.  The  *)
(* command line does not ask; its bundle is new.                           *)
HasBundle(t) ==
  /\ Reading(t, "has")
  /\ \E S \in Store!Readings(Home[t]) :
       LET b == task[t].bundle IN
         \/ Has(S, b.id) /\ Go(t, "done", b)
         \/ ~Has(S, b.id) /\ Go(t, IF IsAck(b) THEN "find" ELSE "check", b)

(* Mutant: the destination only acknowledges.                              *)
CheckUnstored(t) ==
  /\ Reading(t, "check")
  /\ LET b == task[t].bundle IN
       Go(t, IF b.id \in expired THEN "delete"
             ELSE IF ArrivedData(t, b) THEN "create" ELSE "keep", b)

(* route_bundle: expired DATA is deleted, the destination upserts DATA as  *)
(* Delivered, any other node saves it.                                     *)
Check(t) ==
  /\ Reading(t, "check")
  /\ LET b == task[t].bundle IN
       \/ b.id \in expired /\ Go(t, "delete", b)
       \/ b.id \notin expired /\ ArrivedData(t, b) /\ Go(t, "look", As(b, "Delivered"))
       \/ b.id \notin expired /\ ~ArrivedData(t, b) /\ Go(t, "keep", b)

(* new_ack takes a random id; has_bundle looks for it all the same.        *)
Create(t) ==
  /\ Reading(t, "create")
  /\ \E S \in Store!Readings(Home[t]), a \in AckIds \ made :
       /\ AckOf[a] = task[t].bundle.id
       /\ Go(t, IF Has(S, a) THEN "done" ELSE "keep", [id |-> a, status |-> "Pending"])

(* ... retry_unsynced_bundles: gets what it sent, if it is still stored.   *)
Get(t) ==
  /\ Reading(t, "get")
  /\ \E S \in Store!Readings(Home[t]) :
       LET b == task[t].bundle IN
         \/ Has(S, b.id) /\ Go(t, "look", As(b, "InTransit"))
         \/ ~Has(S, b.id) /\ Go(t, "done", b)

(* upsert_bundle chooses between update_bundle and save_bundle.            *)
Look(t) ==
  /\ Reading(t, "look")
  /\ \E S \in Store!Readings(Home[t]) :
       Go(t, IF Has(S, task[t].bundle.id) THEN "update" ELSE "save", task[t].bundle)

(* handle_incoming_ack, first read: is the acknowledged DATA stored?       *)
FindData(t) ==
  /\ Reading(t, "find")
  /\ \E S \in Store!Readings(Home[t]) :
       Go(t, IF Has(S, AckOf[task[t].bundle.id]) THEN "mark" ELSE "known", task[t].bundle)

(* Mutant: only the ACK's own id is looked for.                            *)
KnownUnasked(t) ==
  /\ Reading(t, "known")
  /\ Go(t, "stored", task[t].bundle)

(* handle_incoming_ack says that the ACK is known: a relay forgets it, its *)
(* destination upserts it as Delivered all the same.                       *)
Duplicate(t) ==
  LET b == task[t].bundle IN
    IF ArrivedAck(t, b) THEN Go(t, "look", As(b, "Delivered")) ELSE Go(t, "done", b)

(* handle_incoming_ack, the two reads that look for a duplicate.           *)
Known(t) ==
  /\ Reading(t, "known")
  /\ \E S \in Store!Readings(Home[t]) :
       LET known == HasAckFor(S, AckOf[task[t].bundle.id]) IN
         \/ known /\ Duplicate(t)
         \/ ~known /\ Go(t, "stored", task[t].bundle)

Stored(t) ==
  /\ Reading(t, "stored")
  /\ \E S \in Store!Readings(Home[t]) :
       LET known == Has(S, task[t].bundle.id) IN
         \/ known /\ Duplicate(t)
         \/ ~known /\ Go(t, "keep", task[t].bundle)

----------------------------------------------------------------------------
(* The calls that write.                                                   *)
OpAt == [keep |-> "save", save |-> "save", update |-> "update",
         mark |-> "update", purge |-> "delete", delete |-> "delete"]

Argument(k) == IF k.pc \in {"mark", "purge"} THEN Acked(k.bundle) ELSE k.bundle

(* Mutant: the DATA is marked Delivered and not deleted.                   *)
AfterNoPurge(t, ok) ==
  LET pc == task[t].pc  b == task[t].bundle IN
    CASE pc = "mark" -> {<<"known", b>>}
      [] pc = "keep" /\ ArrivedAck(t, b) -> {<<"look", As(b, "Delivered")>>}
      [] pc = "keep" /\ ~ArrivedAck(t, b) /\ (ok \/ ~IsAck(b)) ->
           {<<"look", As(b, "InTransit")>>, <<"done", b>>}
      [] pc \in {"save", "update"} /\ ArrivedData(t, b) -> {<<"create", b>>}
      [] OTHER -> {<<"done", b>>}

(* Where a job may go once the call has returned ok.  An ACK that could    *)
(* not be kept is not forwarded; all the other results are ignored.  After *)
(* the save a bundle is forwarded, and upserted as InTransit if it was     *)
(* sent to a peer; DATA that arrived is acknowledged.                      *)
After(t, ok) ==
  LET pc == task[t].pc  b == task[t].bundle IN
    CASE pc = "mark"  -> {<<"purge", b>>}
      [] pc = "purge" -> {<<"known", b>>}
      [] pc = "keep" /\ ArrivedAck(t, b) -> {<<"look", As(b, "Delivered")>>}
      [] pc = "keep" /\ ~ArrivedAck(t, b) /\ (ok \/ ~IsAck(b)) ->
           {<<"look", As(b, "InTransit")>>, <<"done", b>>}
      [] pc \in {"save", "update"} /\ ArrivedData(t, b) -> {<<"create", b>>}
      [] OTHER -> {<<"done", b>>}

Call(t) ==
  /\ \E pc \in Writes : At(t, pc) /\ Store!Begin(t, OpAt[pc], Argument(task[t]))
  /\ UNCHANGED <<task, ends, made>>

Sweep(t) == Busy(t) /\ Store!Sweep(t) /\ UNCHANGED <<task, ends, made>>

(* The save of an ACK at the destination of its DATA.                      *)
Creates(t) ==
  LET b == task[t].bundle IN
    task[t].pc = "keep" /\ IsAck(b) /\ destination[AckOf[b.id]] = Home[t]

Return(t, ok) ==
  /\ Busy(t)
  /\ Store!End(t, ok)
  /\ \E next \in After(t, ok) : Go(t, next[1], next[2])
  /\ made' = IF ok /\ Creates(t) THEN made \cup {task[t].bundle.id} ELSE made
  /\ UNCHANGED ends

(* An ACK has the ttl of its DATA and is created later.  Only the source,  *)
(* whose own DATA has the timestamp that the wire has not cut to seconds,  *)
(* may find the ACK expired first (module Expiry).                         *)
Expire(i) ==
  /\ Store!Expire(i)
  /\ i \in AckIds /\ AckOf[i] \notin expired =>
       \A t \in Threads : Home[t] = source[AckOf[i]]
  /\ UNCHANGED <<task, ends, made>>

(* The process dies, in the middle of a call or between two.               *)
Crash(n) ==
  /\ \E t \in Threads : Home[t] = n /\ Busy(t)
  /\ task' = [t \in Threads |-> IF Home[t] = n THEN Idle ELSE task[t]]
  /\ call' = [t \in Threads |-> IF Home[t] = n THEN Store!NoCall ELSE call[t]]
  /\ UNCHANGED <<disk, expired, ends, made>>

----------------------------------------------------------------------------
Next ==
  \/ \E t \in Threads :
       \/ \E b \in Bundle : Start(t, b)
       \/ Retry(t)
       \/ HasBundle(t) \/ Check(t) \/ Create(t) \/ Get(t) \/ Look(t)
       \/ FindData(t) \/ Known(t) \/ Stored(t)
       \/ Call(t) \/ Sweep(t)
       \/ \E ok \in BOOLEAN : Return(t, ok)
  \/ \E i \in Ids : Expire(i)
  \/ \E n \in Nodes : Crash(n)

Spec == Init /\ [][Next]_vars

----------------------------------------------------------------------------
(* The global-delete policy on one file: a DATA bundle is never stored     *)
(* beside a live ACK for it (handle_incoming_ack purges before it keeps    *)
(* the ACK; save_bundle and update_bundle refuse DATA whose ACK is there). *)
(* Only the destination has both.                                          *)
AckBarsData ==
  \A n \in Nodes : \A i \in Data \cap IdsOf(disk[n]) :
    HasAckFor(Live(disk[n], expired), i) => n = destination[i]

(* "Keep one ACK record per data bundle" (handle_incoming_ack): whatever   *)
(* ACK ids arrive for it, and although the destination takes a random id   *)
(* for each.  The source keeps more: it upserts every ACK it gets.         *)
OneAckRecord ==
  \A n \in Nodes : \A b, c \in disk[n] :
    IsAck(b) /\ IsAck(c) /\ AckOf[b.id] = AckOf[c.id] /\ n # source[AckOf[b.id]]
      => b.id = c.id

(* "If we are the destination, keep the data bundle as delivered and       *)
(* propagate the ACK": the destination does not send out an ACK for DATA   *)
(* it does not have, whatever calls a crash cuts off.                      *)
AckMeansStored ==
  \A a \in made : \A n \in Nodes :
    LET i == AckOf[a] IN
      Has(Live(disk[n], expired), a) /\ n = destination[i]
        => i \in expired \/ [id |-> i, status |-> "Delivered"] \in disk[n]

(* Delivered is the last status of a record (MsgStatus): no retry and no   *)
(* copy that comes later makes it one that is sent again.                  *)
DeliveredIsFinal ==
  [][\A n \in Nodes : \A b \in disk[n], c \in disk'[n] :
       b.id = c.id /\ b.status = "Delivered" => c.status = "Delivered"]_vars

=============================================================================
