# WhatSpace: specifications and proofs

WhatSpace is a store-carry-forward messenger. A *node* keeps *bundles* in a JSON
file, forwards DATA bundles to the peers that lack them, and the destination of a
DATA bundle answers with an ACK bundle, which travels back and makes every node
that carries the DATA delete it. A *registry server* tells nodes which peers are
connected. All source paths below are relative to the repository.

## 1. Inventory

| component | source | state | operations |
|---|---|---|---|
| storage layer | `src/storage/storage.rs` | `bundles.json`, the list `self.bundles` of each copy of the layer, `STORAGE_IO_LOCK` | `save_bundle`, `update_bundle`, `delete_bundle`, `cleanup_expired_bundles`, `get_bundle`, `get_all_bundles`, `save_ack_if_new_for_data` |
| bundle manager | `src/routing/bundleManager.rs` | none of its own | `upsert_bundle`, `handle_incoming_ack`, `has_bundle`, `has_ack_for_data_bundle`, and calls handed on to the storage |
| routing engine | `src/routing/engine.rs` | `peers`, `registry_address` | `route_bundle`, `retry_unsynced_bundles`, summary vectors, `anti_entropy` |
| bundle model, ACKs | `src/routing/model.rs`, `ack.rs` | id, kind, ends, timestamp, ttl, status | `Bundle::new`, `new_ack`, `is_expired` |
| store-carry-forward loop | `src/routing/scf.rs` | none | `drop_expired_bundles`, `forward_loop` (no caller) |
| peer connections | `src/network/client.rs` | TCP connections | `send_bundle`, `receive_bundle`, `request_peer_sv`, `respond_peer_sv`, `handle_peer_to_peer`, `connect_to_server`, `get_connected_peers_from_server` |
| wire format | `src/network/protobuf.rs` | none | conversions of bundles |
| registry server | `src/network/server.rs` | `peer_registry` in memory | `Register`, `GetConnectedPeers`, end of a connection |
| command line, node process | `src/cli/*.rs` | `REGISTRY_STREAMS`, `LISTENING_PORTS`, `RETRYING_NODES` | `start`, `stop`, `send`, `peers`, `status` |
| entry point | `src/main.rs` | the four demo nodes and their peers | one-shot, interactive, `serve` |

How they meet:

* `start` connects to the registry and registers, then starts one listener thread
  and one retry thread. The listener starts a thread per incoming connection. All of
  these threads hold *clones* of the engine, so each has a `StorageLayer` with a list
  of its own; they share only the file.
* A thread that routes a bundle asks the registry for connected peers, each peer for
  its summary vector, sends what the peer lacks and records the new status.
* The receiver answers `ack\n` as soon as it has decoded a bundle, before it looks at
  it; this answer has nothing to do with the ACK bundle.

What is hard in it: threads that interleave between the read and the write of the
file; crashes between two storage calls; sends whose answer is lost; messages that arrive
in pieces; copies of a bundle over several routes; ACKs that overtake DATA; expiry at any
point, by timestamps that differ from node to node; threads that work with old copies of an
engine; registry connections that end after newer ones began. `PROJECT.json` lists each hazard at
its line, with the properties that would show it.

What makes each component correct: the storage layer should be an atomic store
(`AtomicStore`); the bundle manager should keep DATA and its ACK apart and one ACK
per DATA; the network should behave as a courier (`Courier`); the registry should
list the nodes that run; both ends of a connection should agree on what was transferred;
a bundle should live as long as its ttl says; a started node should listen and retry.

## 2. Modules

| module | models | notes |
|---|---|---|
| `BundleStore` | records, and what the storage layer decides on a list of them | operators only; shared by all the others |
| `Storage` | `storage.rs`: threads over one file | a call is `Begin` (read), for a save possibly `Sweep` (cleanup and its write), and `End` (decide, write) |
| `AtomicStore` | what the storage layer promises | one step per call |
| `StorageRefinement` | `Storage` implements `AtomicStore` | `disk` stands for `store` |
| `StorageProofs` | theorems about `Storage` | see 5 |
| `BundleManager` | the jobs of a node's threads, call by call, on `Storage` | composes `Storage` by `INSTANCE`; every read of the file is a step of its own |
| `BundleManagerProofs` | theorems about `BundleManager` | see 5 |
| `Routing` | `engine.rs` at every node, connections, start, stop, crash, expiry | storage calls are atomic |
| `Courier`, `RoutingRefinement` | what the network promises the sender, and how it is read off the files | `ImplementsCourier` |
| `RoutingProofs`, `CourierProofs` | theorems about `Routing` and that it implements `Courier` | see 5 |
| `Registry` | `server.rs`, and `start` / `stop` / end of a node as it sees them | a server thread per connection |
| `RegistryProofs` | theorems about `Registry` | see 5 |
| `Wire` | `client.rs` and the reads and writes of `server.rs`: both ends of a dialogue | a message is a sequence of blocks; TCP keeps their order |
| `WireProofs` | theorems about `Wire` | see 5 |
| `Expiry` | `is_expired`, the timestamp on the wire, and every place that looks at expiry or does not | one DATA bundle and its ACK, a clock |
| `ExpiryProofs` | theorems about `Expiry` | see 5 |
| `Session` | `handler.rs`, `main.rs`: the commands, the three tables, threads with copies of the engine | one process after the other |
| `SessionProofs` | theorems about `Session` | see 5 |
| `MC*` | the instances TLC checks | |

### State and actions, in terms of the code

*Storage.* `disk[n]` is the set of records of node `n`. `call[t]` is the storage call
thread `t` is in, with `view`, its `self.bundles`. The lock is held for a read and for
a write but not in between, so nothing else is atomic. `save_to_file` writes a
temporary file and renames it, so the file changes in one step and a crash keeps the
old or the new file. `IoFaults` says whether reads and writes may fail: a failed read
gives the empty list (this is what the code does), a failed write leaves the file.
`save_bundle` reads the file twice in a row and drops the first list, so one read
stands for both.

*BundleManager.* `task[t]` is the job of a thread, with a program counter that names
the next read or write of the file. A job begins with `Start` (a bundle comes in, over a
connection or from the command line) or `Retry` (the retry thread re-sends a stored one).
`source` and `destination` are chosen at the beginning, so that the node may be either end
of a bundle or a relay; a bundle from a node to itself is left out. `After` says which call
follows which and which results are ignored. `made` are the ACKs that a destination has
created and saved. The network steps between the calls are left out, which only
adds behaviours: a job may or may not have sent its bundle.

*Routing.* `task[n][l]` is the job of node `n` in lane `l`; a lane stands for one of
the threads. Its stages are the storage calls of `route_bundle`; `todo`, `offer`, `out`
and `sent` are the loop over the peers, `pending_bundles` (or `retryable_bundles`, or
the ACK), `to_forward`, and what becomes `InTransit`. `inbox[n][i]` counts connections
on which `n` has received and answered `i` and not gone on. The wire resets the status
to `Pending` (`protobuf.rs:45,87`), so a received bundle needs no status. `online` is what
the registry answers. `stop` leaves the listener running (`handler.rs:157`), so a
stopped node is off `online` and still in `alive`. A new ACK takes an id from `fresh`, as
`Uuid::new_v4` does (`ack.rs:13`).

`retry_unsynced_bundles` calls `get_connected_peers_from_server` with one argument
where it takes two (`engine.rs:208`, `client.rs:42`); the model passes the registry
address, as `route_bundle` does.

*Registry.* `conn[s]` has both ends of a connection; `starting` and `held` are the
connection that `connect_to_server` waits on and the entry in `REGISTRY_STREAMS`. `Hasty`
are the nodes that may start again before the server has seen their last connection end;
the others are called patient.

*Wire.* `call[c]` is the call a client makes on connection `c` (`send_bundle`,
`request_peer_sv`, `get_connected_peers_from_server` or `connect_to_server`), `thread[c]` the
thread that serves it (`handle_peer_to_peer` or `handle_client`), `up[c]` and `down[c]` what
is on its way. `Pieces` says how much of a message arrives at once, `OneRead` what one
`read` returns, `Complete` that `read_exact` has all that a length announces. `IsJson` is
the look at the first byte that tells a request from a bundle. A connection is cut, a
process ends, at any point; what was on its way is lost. `stored` is the peer's file. A
thread that has received a bundle goes on to change it while other threads answer:
`Handle` (is it known?), `Purge` (an ACK deletes its DATA, expired DATA is deleted),
`LookForAck`, and a `Put` for each save or upsert, which may sweep what is expired and may
be refused; `Store` is a change by another job of the peer. `seen[c]` records what the
file has been since the call on `c` began.

*Expiry.* `now` counts ticks, `Ticks` in a second. `copies[k][n]` is the timestamp of the copy
that node `n` has in its file, `hand[k][n]` the job that has it in memory, and how far it
got. A node has a job for the DATA (`Check`, `Save` or `Deliver`, `Acknowledge`, `Finish`)
beside one for the ACK (`TakeAck`, `Purge`, `LookForAck`, `KeepAck`, `Finish`), and their storage
calls come in any order. `acked` are the nodes whose file has had the ACK, and `Links` says who
sends to whom. `OnWire` cuts a timestamp to seconds (`protobuf.rs:41,79`); `AsSigned` is the cast of the
ttl (`model.rs:95`). Every node has the same clock. The file is swept only when something is
saved; `Sweep` is the save of some other bundle.

*Session.* `peers[n]` and `engine[n]` are the node's and its engine's; `listener[n]` and `retry[n]`
are the two threads of `start` with their copies of the engine; `stream`, `ports` and `retrying`
are the tables. `Exit` is the end of the process, by `exit` or by a command with an unknown
name (`find_node` ends the whole process), and the next process. Engines exist from the
beginning (`model.rs:33`), so the branches that create a missing one are never taken.

### Abstractions

* `Routing` takes a storage call as one step. Theorem `Refinement` says that it is
  one when calls on a directory do not overlap, so `Routing` with one lane is exact.
  With two lanes it interleaves whole calls; what goes wrong inside overlapping calls
  is shown by `Storage` and `BundleManager`.
* The retry's read of the file and the look-up before it are one step, and so are the
  `has_bundle` check and the look-up of a job that begins. The look-up touches no file.
* `MaxCopies` bounds the connections on which the same bundle waits at one node; a
  further one is merged with those, which have the same effect when their turn comes.
* Expiry is an event in `BundleManager` and `Routing`. An ACK expires only after its DATA: it
  has the same ttl and was created later. `Expiry` has the clock, and shows the one exception:
  at the source, whose own DATA has kept its milliseconds, the ACK may seem up to a second
  older. `BundleManager` allows that. `AckedTakesNothing` shows that no node takes the DATA for
  it before the ttl is over.
* `Expiry` takes a storage call as one step, as `Routing` does. Each node has one job per bundle at a
  time; the rewriting of a status by a retry is not a job of its own there, its sending is `Send`.
* `Routing` takes a send, a summary vector or a look-up as one step that works or fails.
  `Wire` shows what the ends of a dialogue may rely on then: a send that returns true was
  received, a summary vector is the peer's file at one moment of the call, a look-up is all or
  nobody, and each call ends.
* `Wire` takes a storage call as one step, with reads of the file that do not fail. When a bundle is
  expired, and when a file is full, is left open: a save may sweep anything and may be refused. What the
  peer itself sends while it routes a bundle goes over other connections.
* `Wire` leaves out bundles of 2 GB and more, whose length may begin with the byte of a brace.
* The status `Expired` is given only to a bundle in memory whose record is then
  deleted, so no record has it.

## 3. Runs

All pass runs check deadlock except those of `Routing`, where a network in which every
bundle is confirmed and no fault is left really has nothing more to do, and `expiry_any`, where
the same is true once everything is expired and swept.

### Runs that pass

| run | instance | shows |
|---|---|---|
| `storage_one` | 1 thread, 2 DATA, 2 ACKs, capacity 3, failing writes, crashes | type; no file holds an id twice or exceeds its capacity; the file is an atomic store; nothing leaves without a reason; no DATA is written beside its ACK |
| `manager_one` | 1 thread, a node that is source, relay or destination of either of 2 DATA, 3 ACK ids, crashes, expiry | no DATA beside a live ACK; one ACK per DATA; an ACK only for what is stored; Delivered is the last status |
| `routing_safety` | alice - bob - carol, 1 lane, one answer lost, expiry of DATA and ACKs at any point | an ACK exists only if the destination has the DATA; one ACK per DATA; no relay has DATA beside its ACK; nobody drops DATA early |
| `routing_courier` | the same line, fair, one lost send or answer | refinement of `Courier` (with liveness); `GlobalDelete` |
| `routing_faults` | two nodes, fair, four faults of any kind, two waiting copies of a bundle told apart | types, three of the above, and a bundle its source has stored is delivered |
| `registry_any` | 2 nodes, one of them hasty, 3 connections, one outage | whoever is listed has a live server thread; whoever is gone leaves the list; a node that starts only after its last connection has ended stays on it |
| `wire_any` | 2 connections, any of the four calls, to a relay of one DATA bundle and its ACK and to the registry; bundles and answers in any pieces, buffers that are too small for some; saves that are refused, purges, sweeps; one cut, end of a process or change by another job | what was sent was received, a summary vector is the file at one moment of the call, nothing is half understood, every call and every thread ends |
| `expiry_any` | alice - bob - carol, a DATA and an ACK job beside each other at each, two ticks a second, DATA created in the second half of a second, a ttl of 1 second and one that is negative when signed | DATA lives as long as its ttl; a file that has had the ACK takes none; it dies out |
| `session_any` | 2 nodes, a registry that comes and goes, a rival for the port of one node | tables and threads agree; a started node listens, asks a registry that a `start` named, and retries |

Bounds. One DATA bundle and two ACK ids are enough for a duplicate ACK; a second DATA
bundle matters only for the capacity and for sweeps that drop one of several records,
and `storage_one` and `manager_one` have two. Three nodes in a line give a relay that is neither end. Two
threads (`storage_lost`) are enough for a read to be overtaken by a whole call. Three
connections are enough for one that ends, one that is held and one that begins. Two
connections of `Wire` share only what a server stores and lists, so that two are enough for
one to change what the other asks for; `Buffer` and `Room` are such that an answer fits if it
names one peer and does not if it names two. Requests that arrive in pieces
are left out of `wire_any`: the registry answers each piece with an error, as it does any request it
does not understand, and what becomes of a split `RequestSV` is told below. One
event (`MaxEvents`) is a cut or an end of a process, at any step, or a change of the file by another
job; that an end and a change, or any number of either, are as harmless to the safety properties is
proved (section 5). The steps of a destination (`Here`) store more and differ in nothing else; they
are in the proof and not in the run. In `expiry_any` the clock runs until every
copy of the DATA is expired; afterwards time stands still and everything else goes on.
`expiry_acks` needs two nodes that send an ACK to each other and a third to make it,
so everybody sends to everybody there and the ttl is 0.
The threads of different nodes in `Session` share only the commands, so that two nodes, one
with a rival and one without, are enough. The faults of a run
(`MaxFaults`) fall at any step. `routing_safety` has expiry and one lost answer, the fault after
which something is sent that has already arrived, and `routing_faults` combines four of any kind
on two nodes; that the safety properties hold on longer lines, with any number of
faults of every kind, is proved (section 5). `AckSymmetry` is used only in
`routing_safety`, which checks no liveness.

### Runs that find a violation

Each shows that the code does not do what a comment or document says; the quotations are
in `PROJECT.json`, "findings".

| run | what happens |
|---|---|
| `storage_lost` | two threads: a call writes back a list that lacks what the other one saved |
| `routing_unacked` | a crash between storing a bundle and saving the ACK: no ACK, ever |
| `expiry_acks` | bob sweeps an expired ACK and receives it again from carol; then carol sweeps it and receives it again from bob, and so on: only DATA is checked when it is received |

### What the passing instances leave out on purpose

The properties are not claimed outside the instances above. Where the constants of a
configuration are widened as follows, TLC finds these behaviours of the code:

* `IoFaults = {"read"}` in `storage_one`: a read that fails once is taken for an empty
  file (`storage.rs:79-88`), and the next save overwrites all records
  (`LeavesOnlyOnPurpose`).
* `IoFaults = {"write"}` in `manager_one`: `handle_incoming_ack` ignores that its delete
  failed (`bundleManager.rs:69`) and keeps the ACK beside the DATA (`AckBarsData`).
* Two threads in `storage_one`: `storage_lost`. That no id is in a file twice and no file
  exceeds its capacity is true all the same (theorem `FilesStayWellFormed`).
* Two threads in `manager_one`: DATA is saved between the delete of it and the save of its ACK,
  and stays beside it (`AckBarsData`; `model.rs:47` says "set when an Ack is received, then
  deleted from storage"); two ACKs of one DATA bundle are both kept (`OneAckRecord`).
* `OneAckRecord` without its exemption: at the source a second ACK, with another id, is kept as
  well, because the result of `handle_incoming_ack` is ignored there and the ACK upserted
  (`engine.rs:71-74`), although `bundleManager.rs:77` says "Keep one ACK record per data bundle".
* An ACK job beside a DATA job, as in `expiry_any`: DATA whose routing began before the ACK came is
  saved after the delete (`bundleManager.rs:69`), even after the check (`:73`), and before the save of the
  ACK (`:78`), and stays beside the ACK until its ttl is over or somebody sends the ACK when
  the node no longer has it. `AckedTakesNothing` therefore speaks of a file from the save of the ACK on.
* Two lanes in `routing_faults`: two copies handled at once at the destination give two ACKs
  with different ids (`OneAckPerData`), although `engine.rs:134` says "ACK id is deterministic
  per DATA bundle id" (`ack.rs:13` takes a random one).
* Capacity 1 or 2 in `manager_one`: a full destination ignores that it could not keep a bundle
  (`engine.rs:130`) and saves the ACK when something has expired in between
  (`AckMeansStored`).
* `PatientIsListed` for a hasty node: `start` soon after `stop`, or twice, and the end of the old
  connection takes the running node off the list (`server.rs:168`).
* `"request"` in `Split` of `wire_any`: `respond_peer_sv` reads once; it drops the first piece of a
  request, the rest of it is taken for the length of a bundle, and both ends wait for ever
  (`CallsEnd`). A split `Register` is answered with an error, and the node holds a stream
  without being listed; the same becomes of a request over 4096 bytes, and an answer over
  16384 bytes counts as nobody (`AllOrNobody` allows that).
* `Rivals` in `StartedListens`: a listener that failed to bind ends, its port stays in
  `LISTENING_PORTS`, and no later `start` tries again, although `README.md:223` says "Each
  started node opens its peer listener".
* The copies of the engine: peers added after `start` (`handler.rs:283`) and the address of a
  second `start` with another server do not reach the threads.
* A ttl of 2^63 or more is negative as an `i64`: the bundle expires at once. It is in
  `expiry_any`, and `NeverEarly` excepts it.
* Two DATA bundles with an ACK id each, of which one expires, and capacity 1 in
  `routing_safety`: a full destination ignores that it could not keep a bundle
  (`engine.rs:130`) and acknowledges it, if something expires in between
  (`AckMeansDelivered`).
* Peers that lead one way only, as in `main.rs` (alice knows bob, bob knows carol, carol
  knows somebody who is not running), and one stop: an ACK whose first forwarding missed the
  sender never reaches it, because the retry asks for `peers` only (`engine.rs:208`;
  `AckReturns`).

Three more things follow from the code without a model: an expired bundle stays in a file
until something else is saved there (`storage.rs:210` has the only call of the cleanup); a
running node is not listed again after an outage of the registry (`start` is the only
place that registers); a node without peers asks for nobody in its retry, which the registry
takes for everybody (`server.rs:97`, in `Routing` as `Connected`).

### Fairness

* `Routing`: each lane that has a job goes on (threads run, every network call ends in
  an answer or a failure: `CallsEnd` of `Wire`). The retry thread wakes up every two seconds and each received bundle has a
  thread of its own (`handler.rs:116-151`): both are strong fairness because a
  lane stands for several threads and may be taken by another job, which always ends.
  A node that is stopped or down is started again. Faults are bounded, so they end.
* `Registry`: server threads and a begun `start` go on, a server that is down is started
  again. No command has to be given.
* `Wire`: clients and server threads go on when they can. The network need not cut anything,
  nobody has to call, and a server that ended need not come back.
* `Expiry`: time passes, threads go on, and each node saves other bundles again and again
  (weak fairness of `Sweep`: what is expired in a file stays so until it is swept or replaced).
  Nobody has to send anything.
* `Session`: the listener binds, the retry thread wakes up and ends its pass. No command.

## 4. What each property is about

| property | where it could go wrong |
|---|---|
| `ImplementsAtomicStore`, `LeavesOnlyOnPurpose`, `NoResurrection` | the two locked halves of a call; the sweep whose failed write leaves list and file apart |
| `FilesWellFormed` | duplicate detection and capacity on stale lists |
| `AckBarsData`, `OneAckRecord` | the order of update, delete, look, save in `handle_incoming_ack`, and what comes before and after it at relays and at the ends |
| `AckMeansStored`, `DeliveredIsFinal` | crashes between the calls of a destination; retries and late copies at both ends |
| `AckMeansDelivered`, `OneAckPerData` | retries of what was delivered; ACK creation at the destination |
| `NoDataBesideAck` | retries and copies that arrive after the ACK |
| `HeldUntilDelivered` | `InTransit` records must stay until an ACK comes |
| `EventuallyDelivered`, `GlobalDelete`, `ImplementsCourier` | the retry must pick up whatever a loss or a crash leaves behind |
| `ListedIsServed`, `GoneIsNoticed`, `PatientIsListed` | a thread per connection over one record per node |
| `SentIsReceived`, `NothingMadeUp` | framing after a dialogue that broke off; the look at the first byte |
| `VectorIsCurrent` | a vector on its way in pieces while other threads save, purge and sweep; a list that is not read again |
| `AllOrNobody` | answers that come in pieces or do not fit the buffer |
| `CallsEnd`, `ThreadsEnd` | reads without a timeout at both ends |
| `NeverEarly` | the cut timestamp, the signed ttl |
| `AckedTakesNothing` | a DATA job that checked before the ACK came; an ACK that expires before the DATA it bars is gone everywhere |
| `DataDiesOut`, `AckDiesOut` | nodes that send each other what they have just swept |
| `StartedListens`, `RetryResumes` | tables that are never cleared; a `start` that fails half way; `stop` and `start` |
| `ThreadsAskRegistered` | copies of the engine made before or after the address is set |

## 5. Proofs

`StorageProofs` is checked by TLAPS for every set of nodes, threads and bundles, every
capacity and every subset of faults, from the assumptions `BundleAssumption` and
`StorageAssumption`, which TLC evaluates on the instances.

* `TypeCorrect`: `TypeOK` is inductive.
* `FilesStayWellFormed`: `FilesWellFormed` alone is not inductive, because a call
  writes the list it holds. `WellFormed` adds that every such list is well formed
  (`ViewsWellFormed`). Each operation turns a well-formed list into one
  (`AppliedWellFormed`), and a list comes from a well-formed file or is empty: that it
  may be stale does not matter.
* `ViewsInSync`, `Refinement`, `NothingLost`, `NoDataReturns` assume that no two threads
  have the same directory (`NoOverlap`) and that reads do not fail (`NoReadFaults`); the run
  `storage_lost` and the first of the instances above show that neither can be dropped. The
  invariant is `InSync`: the list a call holds is the file, except that a save
  may hold it without some expired bundles whose removal could not be written.
  From it, `End` is a step of the atomic store, and the two action properties follow for
  each action.

`RegistryProofs` is checked for every set of nodes, patient or hasty, every set of
connections and any number of outages, from `RegistryAssumption`.

* `Sound` joins `TypeOK` with `StreamsOpen` (what a process holds is open and its own, and
  it does not wait on the stream it holds) and `OneServed` (the server serves one connection
  of a patient node at a time). `TypeOK` alone is not inductive: that a held stream
  belongs to its node needs that a new connection does not take its place.
* `ListedAreServed`: `ListedIsServed` is inductive given `Sound`.
* `PatientAreListed`: `PatientIsListed` speaks of the stream in `held`, but the stream may
  have been registered while `start` still waited, or be superseded; `OpenIsListed` says the
  same of every open registered connection of a patient node, and is inductive. The end of
  another connection cannot disturb it, by `OneServed`. Section 3 says what
  happens to a hasty node.

`BundleManagerProofs` is checked for every set of nodes, threads and bundles, every capacity and every
subset of faults, from `BundleAssumption` and `ManagerAssumption`. What it assumes beyond these
differs from theorem to theorem:

| theorem | threads on a directory | reads fail | writes fail | room at destinations |
|---|---|---|---|---|
| `TypeCorrect`, `StorageOfManager`, `FilesStayWellFormed` | any number | yes | yes | not assumed |
| `FilesAreAtomic`, `NoDataReturns`, `OnlyAcksPurge`, `DeliveredFinal` | one (`NoOverlap`) | no (`NoReadFaults`) | yes | not assumed |
| `AcksBarData` | one | no | no (`NoFaults`) | not assumed |
| `OneAckEach`, `AcksMeanStored` | one | no | no | `RoomAtEnds` |

Section 3 shows what overlap and failing reads do. With failing writes the last three are false of the
code, which goes on when a call fails: an ACK is kept although the delete of its DATA was not
written, and one is created although the DATA it is for was not.

* `TasksTyped` joins `TypeOK` with what a job's variables hold at each step and with the fact that a
  call in `Storage` is the one its job asked for (`CallsOwned`); it needs no hypothesis. By it every step
  of a job is a step of `Storage` (`StorageOfManager`), and `Facts == INSTANCE StorageProofs` then gives the
  theorems about `Storage` for the files under the jobs: `FilesStayWellFormed`, `FilesAreAtomic`,
  `NoDataReturns`. `OnlyAcksPurge` goes one step further up: it follows a delete from the call back to
  the job, which has an ACK for what it deletes, or found it expired.
* `DeliveredFinal`: `StatusInv` adds to `TasksTyped` and `Storage`'s `InSync` what a job knows of the
  status of its bundle in the file (`StatusesKnown`). A call that could take Delivered back would be an
  upsert of a bundle which is then known not to be stored as Delivered.
* `IInv` joins `TypeOK` with `JobsSound` (what each program counter implies of the file: from the
  purge on, for instance, the acknowledged DATA is gone), `CallsMatch` (a call in `Storage` is
  the one its job asked for, and holds the file's list but for what is expired), `FilesUnique`
  and `AckBarsData` itself, which is not inductive: that the DATA is gone when the ACK is saved is
  known only from where the job is.
* A step that reads moves a job whose claims hold in the file it has read (`ReadKeeps`); a call that
  returns has done what it should (`EndDoes`, `AppliedFile`), which gives the claims of the next
  step (`NextJob`).
* The two properties about ACKs need more than `AckBarsData`, and so have an invariant of their own,
  `AcksSound`, which `IInv` supports. `AckJob` says which ACK a job may still save: none is stored for
  the same DATA once the job has looked for one, and a destination that saves one has the DATA.
  `FileAcks` says the same of a file, and that the destination never loses an ACK it created before
  the DATA is expired: without that, an ACK that comes back to its destination would have the DATA
  deleted there by `handle_incoming_ack`. `AcksLast` is where the time to live is used.
* `OneAckEach` and `AcksMeanStored` assume that there is room at a destination for DATA
  that is not expired (`RoomAtEnds`); it holds throughout `manager_one`, and the instance with
  capacity 2 in section 3 shows that it is needed. `ArrivedIsSaved` is the only step that uses it.

`ExpiryProofs` is checked for every set of nodes, every ttl, every width of the integers, every
number of ticks in a second and every `MaxTime`, from `ExpiryAssumption`.

* `IInv` says of every timestamp, in a file or in a job, that it is not before the creation as the
  wire would show it, nor later than now (`Since`), also where the DATA was forwarded often: cutting
  a timestamp again changes nothing (`OnWireMonotone`). So nothing expires before its ttl is over
  (`ExpiredIsOutlived`, `NothingExpiresEarly`).
* A file that has had the ACK has it still, or the ttl of the DATA is over: the ACK
  cannot expire earlier, its timestamp being a `Since` as well. So whatever the jobs of the node
  had looked up before, a save or an upsert of the DATA is refused (`AckedNodesTakeNothing`). Nothing is
  claimed of DATA that came in between the delete and the save of the ACK (section 3).

`SessionProofs` is checked for every set of nodes, topology, set of registries and rivals, from
`SessionAssumption`.

* `IInv` adds to `TypeOK` and `ThreadsAskRegistered` that a node that was ever started in this
  process has its threads (`Threaded`) and that a listener fails only where there is a rival
  (`BindsUnlessTaken`). `StartedListens` alone is not inductive: a `stop` and a `start` find the
  port in the table, and what makes the node listen is the thread of the first `start`.

`RoutingProofs` is checked for every set of nodes and bundles, every topology, number of lanes,
capacity, number and kind of faults (crashes among them) and every set of bundles that may expire,
from `RoutingAssumption` and `BundleAssumption`.

* The lemmas about what any step does carry the rest: `Writers` (a file is changed only by these
  jobs, and how), `NewRecords` and `GoneRecords` (which record a step adds or drops), `Jobs`
  (where a job comes from), `InboxFrom` (where a bundle on its way comes from). An invariant about
  files is then proved from these and not action by action. `Grows` is their sum: a bundle is
  somewhere only if it was before, or its source sent it, or its destination created it.
* `TypeCorrect`: `Sound` is `TypeOK` with what a job holds at each stage.
* `AcksMeanDelivered` and `DataHeldUntilDelivered`: `EndsSound` says that a destination has DATA only
  as Delivered and never offers it (`OnlyDelivered`), that an ACK expires after its DATA
  (`AcksOutlive`), that wherever an ACK is, the node that created it still has it and the DATA (`EndsKnow`),
  and that a job there deletes only what is expired (`EndJobs`). The property alone is not
  inductive: an ACK that comes back to the node that created it would have the DATA deleted, were it
  not known there. Both assume `RoomAtEnds`, as above; it holds in all instances of `Routing`, and
  the instance with capacity 1 in section 3 shows that it is needed.
* `OneAckOnly` and `DataBesideNoAck` assume one job at a time at a node (`OneLane`); section 3 shows
  two ACKs with two lanes, and DATA beside an ACK with two threads. `AcksSound` adds that an id
  that is still fresh is nowhere and that a destination about to acknowledge has not done so before;
  `AllGone`, that a job that has purged the DATA of an ACK does not find it again until it ends.

* `FilesAreAtomic` needs none of these: `OneWrite` and `CallsOnly` say that a step is one whole call on one
  file, so that the files are an `AtomicStore`. `Storage` and `BundleManager` implement the same module
  (`Refinement`, `FilesAreAtomic`), which is why `Routing` may take a call for one step.

`CourierProofs` shows the safety half of `ImplementsCourier` with the refinement mapping of
`RoutingRefinement`, for every topology and any number of lost messages, answers, summary vectors
and look-ups, of stopped nodes and of crashes.

* `LastingBundlesAreCarried` is about the bundles that do not expire, beside others that may
  (`LastingData`); `RefinesCourier` is the case where that is all of them. They assume one job at a
  time at a node, that no DATA is for its own source, and room at both ends (`Room`).
* Of crashes they leave out one (`SettlesUnbroken`): that of a source which has deleted a delivered
  bundle and has not saved the ACK yet, with no other ACK for it in its file. It is the crash that
  breaks the refinement, as TLC shows on the line of three nodes in a few seconds: a copy of the DATA that
  another node still sends is saved at the source again, after Courier had it confirmed. With the
  condition as an action constraint the same instance, with a crash and a lost answer, has no
  violation in 865,620 states. `routing_courier` has no crash.
* The invariant `CInv` adds two facts to `Sound` and `EndsSound`: while copies of a bundle are out, its
  source or its destination has it (`EndsHold`), and a source that let go of a delivered bundle has
  its ACK or is about to keep it (`Closed`), so that it takes no copy back. `CourierStep` then shows
  that each step leaves the status of every lasting bundle, or takes that of one from new to held, held
  to delivered, or delivered to confirmed. Bundles that expire disturb none of this: a sweep
  takes only what has expired, an ACK lives as long as its DATA, and what else a step does to a file
  concerns one id (`OneId`).

`WireProofs` is checked for every set of connections and bundles, every size of messages and buffers,
every way to cut messages into pieces (`Split`), relays and destinations (`Here`), and any number
of cuts, process ends and changes of the file, from `WireAssumption`.

* `WireSound` has a part for each connection. `StreamSound`: the blocks of the request that
  the thread has not taken yet, on their way or still to be written, are a run of it up to its end
  (`InOrder`); what is carried in either direction is the request made or the answer given
  to it (`Fits`). `CallSound` and `ResultSound` say what a call and its thread know of each other at
  each step. None of the four properties is inductive alone: what a read returns depends on the
  blocks under way.
* `Moving`, `MovingInOrder` and `Cutting` are about sequences: a piece that moves from the head of one
  stream to the end of another leaves a run of blocks a run. Every write, delivery and read is an
  instance.
* `StaysSound` and `OneMoves` reduce a step to the connection it is about; the server's file
  and list of peers are shared, so that `DieSound` and `StoresKeeps` check the others too.
* `VectorsAreCurrent`: while a call asks for a vector, the file is one of the files in `seen`, whichever
  thread changes it, and so is the vector in an answer that is being written or on its
  way; the answer that the call reads is therefore one of them. That some of these files may lack
  what an earlier one had is no obstacle: nothing here assumes that the file grows.

Only model-checked: liveness under fairness and `ENABLED` (`EventuallyDelivered`, `GlobalDelete`, the
live part of `ImplementsCourier`, `GoneIsNoticed`, `CallsEnd`, `ThreadsEnd`, `DataDiesOut`,
`RetryResumes`), which are out of the prover's reach. Every other property of a run that passes
is also a theorem, under the assumptions named above.

## 6. Not modelled

`scf.rs`, `disconnect_server`, `verify_unique_name` and `get_bundles_by_node` have no caller.
Logging, the read-eval loop, `status`, `all` and the listing commands change nothing.
`save_to_file` is one step: `bundles.json.tmp` is written and renamed under a lock that the
threads of one process share. Two processes on one directory (a node started in one
terminal, `send` for it in another) share that file without a lock, and may rename what the
other one is writing; this is not modelled. A bundle from a node to itself is left out of
`BundleManager`. Clocks are taken to agree and not to step back. Of the copies of the engine, what
becomes of stale peers is left to `Session`; `Routing` takes the peers of a node as constant.

## 7. Plan

Done: 1 `Storage` with its refinement and proofs; 2 `BundleManager`, for relays, sources and
destinations, with its proofs; 3 `Routing` and `Courier` with their proofs, among them the safety half
of the refinement; 4 `Registry` with its proofs; 5 `Session` and 6 `Expiry` with their proofs; 7 `Wire`
with its proofs; 8 every safety property that a run checks as a theorem; 9 the levels joined: what is
proved of `Storage` for `BundleManager` and, as far as `AtomicStore` says it, for `Routing`, and the refinement
of `Courier` with crashes and with bundles that expire.

To do:

10. `FileSwap`: `bundles.json.tmp`, `create`, `write_all`, `rename`, by the threads of one process and of
   two. Property: the file is always a list some call wrote.
