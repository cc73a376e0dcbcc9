------------------------------- MODULE Routing -------------------------------
(***************************************************************************)
(* The routing engine (src/routing/engine.rs) of every node and the        *)
(* connections between nodes.  A node runs up to one job per lane: routing *)
(* a bundle that came in or was sent from the command line, or re-sending  *)
(* what its peers lack.  A job goes through the calls of route_bundle or   *)
(* retry_unsynced_bundles one by one: a storage call, a request for a      *)
(* peer's summary vector and a send are a step each, and other nodes (and  *)
(* other lanes) run in between.                                            *)
(*                                                                         *)
(* A storage call is atomic here, which StorageProofs proves of calls that *)
(* do not overlap, so a node with one lane is modelled exactly; two lanes  *)
(* interleave their calls, and what goes wrong inside overlapping calls is *)
(* the business of Storage and BundleManager.                              *)
(***************************************************************************)
EXTENDS BundleStore

CONSTANTS
  Nodes,        \* the nodes of the network
  Peers,        \* Peers[n]: the ids in n's RoutingEngine::peers
  Source,       \* Source[d], Destination[d]: the ends of DATA bundle d
  Destination,
  Lanes,        \* jobs that one node can run at the same time
  MayExpire,    \* DATA bundles whose time to live can run out in a behaviour
  Faults,       \* what can go wrong: a subset of FaultKinds
  MaxFaults,    \* bound: how many faults a behaviour has
  MaxCopies     \* bound: copies of a bundle told apart while they wait in the
                \* connections of one node; a further copy adds nothing to them

FaultKinds == {"drop", "answer", "vector", "registry", "stop", "crash"}

ASSUME RoutingAssumption ==
  /\ Peers \in [Nodes -> SUBSET Nodes]
  /\ Source \in [Data -> Nodes] /\ Destination \in [Data -> Nodes]
  /\ "none" \notin Ids
  /\ MayExpire \subseteq Data /\ Faults \subseteq FaultKinds
  /\ MaxFaults \in Nat /\ MaxCopies \in Nat \ {0}

VARIABLES
  disk,      \* disk[n]: the records in bundles.json of node n
  expired,   \* ids of the bundles whose time to live has run out
  fresh,     \* ids not given to a bundle yet
  alive,     \* nodes whose process and listener run
  online,    \* nodes the registry lists as Connected
  inbox,     \* inbox[n][i]: connections of n on which i was received and
             \* acknowledged, and whose thread has not gone on yet
  task,      \* task[n][l]: the job of node n in lane l, or Idle
  spent      \* faults so far

vars == <<disk, expired, fresh, alive, online, inbox, task, spent>>

----------------------------------------------------------------------------
(* A job.  `todo': connected peers not asked for their summary vector yet; *)
(* `offer': ids it would forward; `out': sends decided on; `sent': ids     *)
(* whose record becomes InTransit in the end.                              *)
Idle == [job |-> "none"]

Stages == {"save", "deliver", "acknowledge", "mark", "purge", "keep", "settle", "forward"}

Task == [job : {"data", "ack", "retry"}, id : Ids \cup {"none"}, stage : Stages,
         todo : SUBSET Nodes, offer : SUBSET Ids, out : SUBSET (Nodes \X Ids),
         sent : SUBSET Ids]

TypeOK ==
  /\ disk \in [Nodes -> SUBSET Bundle]
  /\ expired \subseteq Ids /\ fresh \subseteq Ids
  /\ alive \subseteq Nodes /\ online \subseteq alive
  /\ inbox \in [Nodes -> [Ids -> 0..MaxCopies]]
  /\ task \in [Nodes -> [Lanes -> Task \cup {Idle}]]
  /\ spent \in 0..MaxFaults

Init ==
  /\ disk = [n \in Nodes |-> {}]
  /\ expired = {} /\ fresh = Ids
  /\ alive = Nodes /\ online = Nodes
  /\ inbox = [n \in Nodes |-> [i \in Ids |-> 0]]
  /\ task = [n \in Nodes |-> [l \in Lanes |-> Idle]]
  /\ spent = 0

Free(n, l) == n \in alive /\ task[n][l] = Idle

In(n, l, stage) == task[n][l] # Idle /\ task[n][l].stage = stage

Set(n, l, k) == task' = [task EXCEPT ![n][l] = k]

At(k, stage) == [k EXCEPT !.stage = stage]

Fault(kind) == kind \in Faults /\ spent < MaxFaults /\ spent' = spent + 1

(* The node a bundle is for: new_ack swaps the ends of its DATA bundle.    *)
To(i) == IF i \in Data THEN Destination[i] ELSE Source[AckOf[i]]

(* The node the confirmation of a bundle must reach.                       *)
Origin(i) == Source[IF i \in Data THEN i ELSE AckOf[i]]

----------------------------------------------------------------------------
(* Whole storage calls on node n's file.                                   *)
Rec(i, status) == [id |-> i, status |-> status]

(* Mutant: cleanup keeps what has expired.                                 *)
SavedInverted(S, b) ==
  LET L == S \ Live(S, expired) IN IF CanSave(L, b) THEN Added(L, b) ELSE L

Saved(S, b) ==
  LET L == Live(S, expired) IN IF CanSave(L, b) THEN Added(L, b) ELSE L

Updated(S, b) == IF CanUpdate(S, b) THEN Replaced(S, b) ELSE S

Upserted(S, b) == IF Has(S, b.id) THEN Updated(S, b) ELSE Saved(S, b)

Write(n, S) == disk' = [disk EXCEPT ![n] = S]

(* get_connected_peers_from_server: an unreachable registry answers as if  *)
(* nobody was connected, and an empty request means everybody.             *)
Connected(n, wanted) ==
  {p \in online : wanted = {} \/ p \in wanted} \ {n}

Lookup(n, wanted, peers) ==
  \/ peers = Connected(n, wanted) /\ UNCHANGED spent
  \/ peers = {} /\ Fault("registry")

----------------------------------------------------------------------------
(* route_bundle begins.  DATA that has expired is deleted; otherwise the   *)
(* connected peers are looked up, the bundle's origin among them.          *)
Route(n, l, i) ==
  \/ /\ i \in Data \cap expired
     /\ Write(n, Without(disk[n], i))
     /\ UNCHANGED <<task, spent>>
  \/ /\ i \notin Data \cap expired
     /\ \E peers \in SUBSET Nodes :
          /\ Lookup(n, Peers[n] \cup {Origin(i)}, peers)
          /\ Set(n, l, [job |-> IF i \in Data THEN "data" ELSE "ack", id |-> i,
                        stage |-> IF i \in AckIds THEN "mark"
                                  ELSE IF n = To(i) THEN "deliver" ELSE "save",
                        todo |-> peers, offer |-> {}, out |-> {}, sent |-> {}])
     /\ UNCHANGED disk

(* `whatspace send': a new DATA bundle is routed by its source.            *)
CliSend(n, l, d) ==
  /\ Free(n, l) /\ d \in fresh /\ Source[d] = n
  /\ fresh' = fresh \ {d}
  /\ Route(n, l, d)
  /\ UNCHANGED <<expired, alive, online, inbox>>

(* Mutant: without the has_bundle check.                                   *)
HandleAgain(n, l, i) ==
  /\ Free(n, l) /\ inbox[n][i] > 0
  /\ inbox' = [inbox EXCEPT ![n][i] = @ - 1]
  /\ Route(n, l, i)
  /\ UNCHANGED <<expired, fresh, alive, online>>

(* handle_peer_to_peer, after receive_bundle: a bundle that is stored      *)
(* already is dropped, another one is routed.                              *)
Handle(n, l, i) ==
  /\ Free(n, l) /\ inbox[n][i] > 0
  /\ inbox' = [inbox EXCEPT ![n][i] = @ - 1]
  /\ \/ Has(disk[n], i) /\ UNCHANGED <<disk, task, spent>>
     \/ ~Has(disk[n], i) /\ Route(n, l, i)
  /\ UNCHANGED <<expired, fresh, alive, online>>

(* Mutants: only Pending bundles are re-sent; only DATA is.                *)
RetryablePending(S) == IdsOf({b \in S : b.status = "Pending"})

RetryableData(S) == Data \cap IdsOf({b \in S : b.status \in {"Pending", "InTransit"}})

(* retry_unsynced_bundles, run every two seconds while the node is         *)
(* registered: it asks for its peers only, not for a bundle's origin, and  *)
(* does not look at expiry.                                                *)
Retryable(S) == IdsOf({b \in S : b.status \in {"Pending", "InTransit"}})

Retry(n, l) ==
  /\ Free(n, l) /\ n \in online
  /\ LET peers == Connected(n, Peers[n])
         ids == Retryable(disk[n])
     IN
       /\ peers # {} /\ ids # {}
       /\ Set(n, l, [job |-> "retry", id |-> "none", stage |-> "forward",
                     todo |-> peers, offer |-> ids, out |-> {}, sent |-> {}])
  /\ UNCHANGED <<disk, expired, fresh, alive, online, inbox, spent>>

----------------------------------------------------------------------------
(* The storage calls of a job.  Each moves the job to its next stage.      *)
Local(n) == n \in alive /\ UNCHANGED <<expired, alive, online, inbox, spent>>

(* DATA at a node that is not its destination: save it, whatever comes of  *)
(* it, and offer every Pending bundle of the file.                         *)
Save(n, l) ==
  /\ In(n, l, "save") /\ Local(n)
  /\ LET S == Saved(disk[n], Rec(task[n][l].id, "Pending")) IN
       /\ Write(n, S)
       /\ Set(n, l, [At(task[n][l], "forward") EXCEPT
                     !.offer = IdsOf({b \in S : b.status = "Pending"})])
  /\ UNCHANGED fresh

(* Mutant: the destination acknowledges without storing.                   *)
DeliverUnstored(n, l) ==
  /\ In(n, l, "deliver") /\ Local(n)
  /\ Set(n, l, At(task[n][l], "acknowledge"))
  /\ UNCHANGED <<disk, fresh>>

(* DATA at its destination: keep it as Delivered ...                       *)
Deliver(n, l) ==
  /\ In(n, l, "deliver") /\ Local(n)
  /\ Write(n, Upserted(disk[n], Rec(task[n][l].id, "Delivered")))
  /\ Set(n, l, At(task[n][l], "acknowledge"))
  /\ UNCHANGED fresh

(* ... whether or not that worked, create the ACK, with an id of its own,  *)
(* and forward it if it could be saved.                                    *)
Acknowledge(n, l) ==
  /\ In(n, l, "acknowledge") /\ Local(n)
  /\ \E a \in fresh \cap AckIds :
       /\ AckOf[a] = task[n][l].id
       /\ fresh' = fresh \ {a}
       /\ LET S == Saved(disk[n], Rec(a, "Pending")) IN
            /\ Write(n, S)
            /\ Set(n, l, IF Has(S, a)
                         THEN [At(task[n][l], "forward") EXCEPT !.job = "ack", !.id = a,
                                                                !.offer = {a}]
                         ELSE Idle)

(* handle_incoming_ack: the acknowledged DATA, if stored, is marked        *)
(* Delivered, then deleted ...                                             *)
Mark(n, l) ==
  /\ In(n, l, "mark") /\ Local(n)
  /\ LET d == AckOf[task[n][l].id] IN
       /\ Write(n, Updated(disk[n], Rec(d, "Delivered")))
       /\ Set(n, l, At(task[n][l], IF Has(disk[n], d) THEN "purge" ELSE "keep"))
  /\ UNCHANGED fresh

(* Mutant: the delete is forgotten.                                        *)
PurgeNothing(n, l) ==
  /\ In(n, l, "purge") /\ Local(n)
  /\ Set(n, l, At(task[n][l], "keep"))
  /\ UNCHANGED <<disk, fresh>>

Purge(n, l) ==
  /\ In(n, l, "purge") /\ Local(n)
  /\ Write(n, Without(disk[n], AckOf[task[n][l].id]))
  /\ Set(n, l, At(task[n][l], "keep"))
  /\ UNCHANGED fresh

(* ... and the ACK is kept, unless there is one for that DATA.  A node     *)
(* that the ACK is not for forwards it only if it was kept.                *)
Keep(n, l) ==
  /\ In(n, l, "keep") /\ Local(n)
  /\ LET k == task[n][l]
         known == HasAckFor(disk[n], AckOf[k.id]) \/ Has(disk[n], k.id)
         S == IF known THEN disk[n] ELSE Saved(disk[n], Rec(k.id, "Pending"))
     IN
       /\ Write(n, S)
       /\ Set(n, l, IF n = To(k.id) THEN At(k, "settle")
                    ELSE IF ~known /\ Has(S, k.id)
                         THEN [At(k, "forward") EXCEPT !.offer = {k.id}]
                         ELSE Idle)
  /\ UNCHANGED fresh

(* The ACK is at the sender of the DATA: it becomes Delivered, the end.    *)
Settle(n, l) ==
  /\ In(n, l, "settle") /\ Local(n)
  /\ Write(n, Upserted(disk[n], Rec(task[n][l].id, "Delivered")))
  /\ Set(n, l, Idle)
  /\ UNCHANGED fresh

----------------------------------------------------------------------------
(* Forwarding.  An ACK's job asks all the peers before it sends, the other *)
(* jobs serve one peer after the other.  A peer whose summary vector does  *)
(* not come counts as having nothing.                                      *)
Ask(n, l, p) ==
  /\ n \in alive /\ In(n, l, "forward")
  /\ LET k == task[n][l] IN
       /\ p \in k.todo
       /\ k.job = "ack" \/ k.out = {}
       /\ \E has \in SUBSET Ids :
            /\ \/ p \in alive /\ has = IdsOf(disk[p]) /\ UNCHANGED spent
               \/ p \notin alive /\ has = {} /\ UNCHANGED spent
               \/ p \in alive /\ has = {} /\ Fault("vector")
            /\ Set(n, l, [k EXCEPT !.todo = @ \ {p},
                                   !.out = @ \cup ({p} \X (k.offer \ has))])
  /\ UNCHANGED <<disk, expired, fresh, alive, online, inbox>>

(* send_bundle.  The receiving thread answers before it looks at the       *)
(* bundle.  A DATA job counts a send whatever becomes of it.               *)
Send(n, l, p, i) ==
  /\ n \in alive /\ In(n, l, "forward") /\ <<p, i>> \in task[n][l].out
  /\ LET k == task[n][l]
         Done(ok) == Set(n, l, [k EXCEPT !.out = @ \ {<<p, i>>},
           !.sent = @ \cup (IF k.job = "data" THEN {k.id} ELSE IF ok THEN {i} ELSE {})])
         Received == /\ p \in alive
                     /\ inbox' = [inbox EXCEPT ![p][i] = IF @ < MaxCopies THEN @ + 1 ELSE @]
     IN
       /\ k.job = "ack" => k.todo = {}
       /\ \/ Received /\ Done(TRUE) /\ UNCHANGED spent
          \/ Received /\ Done(FALSE) /\ Fault("answer")
          \/ Done(FALSE) /\ Fault("drop") /\ UNCHANGED inbox
          \/ p \notin alive /\ Done(FALSE) /\ UNCHANGED <<inbox, spent>>
  /\ UNCHANGED <<disk, expired, fresh, alive, online>>

(* Mutant: what was sent is deleted, as if it had arrived.                 *)
FinishByDeleting(n, l) ==
  /\ In(n, l, "forward") /\ Local(n)
  /\ LET k == task[n][l] IN
       /\ k.todo = {} /\ k.out = {}
       /\ Write(n, {b \in disk[n] : b.id \notin k.sent})
       /\ Set(n, l, Idle)
  /\ UNCHANGED fresh

(* Everything is sent: the records of what was sent become InTransit, one  *)
(* upsert after the other.  A retry leaves out what is not stored any more.*)
Finish(n, l) ==
  /\ In(n, l, "forward") /\ Local(n)
  /\ LET k == task[n][l] IN
       /\ k.todo = {} /\ k.out = {}
       /\ \/ /\ k.sent = {}
             /\ Set(n, l, Idle) /\ UNCHANGED disk
          \/ \E i \in k.sent :
               /\ Write(n, IF k.job = "retry" /\ ~Has(disk[n], i) THEN disk[n]
                           ELSE Upserted(disk[n], Rec(i, "InTransit")))
               /\ Set(n, l, IF k.sent = {i} THEN Idle ELSE [k EXCEPT !.sent = @ \ {i}])
  /\ UNCHANGED fresh

----------------------------------------------------------------------------
(* What happens to nodes.  `stop' takes a node off the registry, its       *)
(* listener goes on; a crash loses every thread and keeps the file.        *)
Stop(n) ==
  /\ n \in online /\ Fault("stop")
  /\ online' = online \ {n}
  /\ UNCHANGED <<disk, expired, fresh, alive, inbox, task>>

(* Mutant: the registry keeps listing the node.                            *)
CrashListed(n) ==
  /\ n \in alive /\ Fault("crash")
  /\ alive' = alive \ {n}
  /\ inbox' = [inbox EXCEPT ![n] = [i \in Ids |-> 0]]
  /\ task' = [task EXCEPT ![n] = [l \in Lanes |-> Idle]]
  /\ UNCHANGED <<disk, expired, fresh, online>>

Crash(n) ==
  /\ n \in alive /\ Fault("crash")
  /\ alive' = alive \ {n} /\ online' = online \ {n}
  /\ inbox' = [inbox EXCEPT ![n] = [i \in Ids |-> 0]]
  /\ task' = [task EXCEPT ![n] = [l \in Lanes |-> Idle]]
  /\ UNCHANGED <<disk, expired, fresh>>

(* `whatspace start', of a node that is stopped or down.                   *)
Start(n) ==
  /\ n \notin online
  /\ alive' = alive \cup {n} /\ online' = online \cup {n}
  /\ UNCHANGED <<disk, expired, fresh, inbox, task, spent>>

(* An ACK is created later than its DATA and lives as long.  (At the       *)
(* source, whose DATA has kept its milliseconds, it may expire up to a     *)
(* second earlier; module Expiry shows that no DATA comes back then.)      *)
Expire(i) ==
  /\ i \notin expired \cup fresh
  /\ i \in MayExpire \/ (i \in AckIds /\ AckOf[i] \in expired)
  /\ expired' = expired \cup {i}
  /\ UNCHANGED <<disk, fresh, alive, online, inbox, task, spent>>

----------------------------------------------------------------------------
Step(n, l) ==
  \/ Save(n, l) \/ Deliver(n, l) \/ Acknowledge(n, l)
  \/ Mark(n, l) \/ Purge(n, l) \/ Keep(n, l) \/ Settle(n, l)
  \/ \E p \in Nodes : Ask(n, l, p) \/ \E i \in Ids : Send(n, l, p, i)
  \/ Finish(n, l)

Next ==
  \/ \E n \in Nodes, l \in Lanes :
       \/ \E d \in Data : CliSend(n, l, d)
       \/ \E i \in Ids : Handle(n, l, i)
       \/ Retry(n, l)
       \/ Step(n, l)
  \/ \E n \in Nodes : Stop(n) \/ Crash(n) \/ Start(n)
  \/ \E i \in Ids : Expire(i)

Spec == Init /\ [][Next]_vars

(* Every thread goes on, the retry thread wakes up again and again, the    *)
(* connections have threads of their own (SF for both: a lane is free in   *)
(* the end), and a node that is down is started again some day.            *)
Fairness ==
  \A n \in Nodes :
    /\ \A l \in Lanes : WF_vars(Step(n, l))
    /\ SF_vars(\E l \in Lanes : Retry(n, l))
    /\ SF_vars(\E l \in Lanes, i \in Ids : Handle(n, l, i))
    /\ WF_vars(Start(n))

FairSpec == Spec /\ Fairness

----------------------------------------------------------------------------
(* Where a bundle is: in a file, in a connection, about to be sent.        *)
Somewhere(i) ==
  \E n \in Nodes :
    \/ Has(disk[n], i)
    \/ inbox[n][i] > 0
    \/ \E l \in Lanes : task[n][l] # Idle /\ i \in {task[n][l].id} \cup task[n][l].offer

(* Whatever is lost, answered falsely, retried or restarted: an ACK is     *)
(* found anywhere only if the destination of its DATA holds that DATA as   *)
(* Delivered ("Create an Ack bundle from a successfully delivered Data     *)
(* bundle", new_ack), unless it expired meanwhile.                         *)
AckMeansDelivered ==
  \A a \in AckIds : Somewhere(a) =>
    LET d == AckOf[a] IN
      d \in expired \/ Rec(d, "Delivered") \in disk[Destination[d]]

(* No node drops a DATA bundle before the destination has it, unless it    *)
(* expired (store-carry-forward of route_bundle, handle_incoming_ack).     *)
HeldUntilDelivered ==
  [][\A n \in Nodes : \A d \in Data \cap (IdsOf(disk[n]) \ IdsOf(disk'[n])) :
       d \in expired \/ (n # Destination[d] /\ Has(disk[Destination[d]], d))]_vars

(* No node but the destination stores a DATA bundle beside a live ACK for  *)
(* it, whatever order DATA, ACKs and retries arrive in (save_bundle,       *)
(* update_bundle and handle_incoming_ack between them).                    *)
NoDataBesideAck ==
  \A n \in Nodes : \A d \in Data \cap IdsOf(disk[n]) :
    n # Destination[d] => ~HasAckFor(Live(disk[n], expired), d)

(* A DATA bundle is acknowledged once: "ACK id is deterministic per DATA   *)
(* bundle id; store and forward only once" (route_bundle).                 *)
OneAckPerData ==
  \A a, b \in AckIds : AckOf[a] = AckOf[b] /\ Somewhere(a) /\ Somewhere(b) => a = b

(* "Once ACK propagates, original DATA should eventually disappear         *)
(* everywhere" (test_ack_flow.sh), the destination's own copy aside.       *)
GlobalDelete ==
  \A d \in Data :
    (\E a \in AckIds : AckOf[a] = d /\ Has(disk[Source[d]], a)) ~>
      (\A n \in Nodes \ {Destination[d]} : ~Has(disk[n], d))

(* Every bundle its source has stored is delivered in the end.             *)
EventuallyDelivered ==
  \A d \in Data : Has(disk[Source[d]], d) ~> Has(disk[Destination[d]], d)

(* The ACK "can reach original sender" (route_bundle): once the bundle is  *)
(* delivered, its source learns of it in the end.                          *)
AckReturns ==
  \A d \in Data : Has(disk[Destination[d]], d) ~>
    \E a \in AckIds : AckOf[a] = d /\ Has(disk[Source[d]], a)

=============================================================================
