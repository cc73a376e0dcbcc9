------------------------------ MODULE Registry -------------------------------
(***************************************************************************)
(* The registry server (src/network/server.rs) and the connections nodes   *)
(* keep to it (`whatspace start' and `stop', src/cli/handler.rs).  A node  *)
(* is listed as Connected because a Register was read on one of its        *)
(* connections, and as Disconnected because one of them ended; each        *)
(* connection is served by a thread of its own, so what happens on two     *)
(* connections of a node may be seen in either order.                      *)
(***************************************************************************)
EXTENDS Naturals

CONSTANTS
  Nodes,      \* nodes, one process each
  Conns,      \* bound: TCP connections that can exist at the same time
  Hasty,      \* nodes whose `start' may come while the server still serves an
              \* older connection of theirs
  MaxOutages  \* bound: how often the server process ends

None == "none"

ASSUME RegistryAssumption ==
  /\ None \notin Nodes \cup Conns
  /\ Hasty \subseteq Nodes
  /\ MaxOutages \in Nat

VARIABLES
  record,     \* record[n]: the status in n's PeerRecord
  conn,       \* conn[s]: the node and the state of both ends of connection s
  starting,   \* starting[n]: the connection `start' waits on (connect_to_server)
  held,       \* held[n]: n's entry in REGISTRY_STREAMS
  up,         \* whether the server process runs
  outages     \* how often it ended

vars == <<record, conn, starting, held, up, outages>>

(* The client end is open or closed; the server's handle_client is new     *)
(* (Register not read yet), bound (node_id known) or gone.                 *)
Conn == [node : Nodes \cup {None}, client : {"open", "closed"}, server : {"new", "bound", "gone"}]

Of(n) == {s \in Conns : conn[s].node = n}

TypeOK ==
  /\ record \in [Nodes -> {"absent", "Connected", "Disconnected"}]
  /\ conn \in [Conns -> Conn]
  /\ starting \in [Nodes -> Conns \cup {None}]
  /\ held \in [Nodes -> Conns \cup {None}]
  /\ \A n \in Nodes : held[n] # None => held[n] \in Of(n)
  /\ up \in BOOLEAN /\ outages \in 0..MaxOutages

Init ==
  /\ record = [n \in Nodes |-> "absent"]
  /\ conn = [s \in Conns |-> [node |-> None, client |-> "closed", server |-> "gone"]]
  /\ starting = [n \in Nodes |-> None]
  /\ held = [n \in Nodes |-> None]
  /\ up = TRUE /\ outages = 0

Served(n) == {s \in Of(n) : conn[s].server # "gone"}

Over(s) == conn[s].client = "closed" /\ conn[s].server = "gone"

(* The client ends of the connections in S are closed.                     *)
Closed(S) == [s \in Conns |-> IF s \in S THEN [conn[s] EXCEPT !.client = "closed"] ELSE conn[s]]

----------------------------------------------------------------------------
(* `start': connect_to_server connects and writes Register.  If the server *)
(* cannot be reached the command gives up and nothing has changed.         *)
Connect(n, s) ==
  /\ up /\ starting[n] = None /\ Over(s)
  /\ n \in Hasty \/ Served(n) = {}
  /\ conn' = [conn EXCEPT ![s] = [node |-> n, client |-> "open", server |-> "new"]]
  /\ starting' = [starting EXCEPT ![n] = s]
  /\ UNCHANGED <<record, held, up, outages>>

(* Mutant: the stream is entered for the wrong node too.                   *)
HoldForAll(n) ==
  /\ starting[n] # None
  /\ held' = [m \in Nodes |-> starting[n]]
  /\ starting' = [starting EXCEPT ![n] = None]
  /\ UNCHANGED <<record, conn, up, outages>>

(* It waits up to two seconds for the answer, goes on in either case, and  *)
(* puts the stream into REGISTRY_STREAMS; a stream that was there is       *)
(* dropped, and so closed.                                                 *)
Hold(n) ==
  /\ starting[n] # None
  /\ held' = [held EXCEPT ![n] = starting[n]]
  /\ conn' = Closed({held[n]} \ {None})
  /\ starting' = [starting EXCEPT ![n] = None]
  /\ UNCHANGED <<record, up, outages>>

(* Mutant: the stream stays open.                                          *)
StopLeaking(n) ==
  /\ starting[n] = None /\ held[n] # None
  /\ held' = [held EXCEPT ![n] = None]
  /\ UNCHANGED <<record, conn, starting, up, outages>>

(* `stop': the stream is taken out of REGISTRY_STREAMS and dropped.        *)
Stop(n) ==
  /\ starting[n] = None /\ held[n] # None
  /\ conn' = Closed({held[n]})
  /\ held' = [held EXCEPT ![n] = None]
  /\ UNCHANGED <<record, starting, up, outages>>

(* The process of node n ends, and with it all its connections.            *)
Exit(n) ==
  /\ starting[n] # None \/ held[n] # None
  /\ conn' = Closed({starting[n], held[n]} \ {None})
  /\ starting' = [starting EXCEPT ![n] = None]
  /\ held' = [held EXCEPT ![n] = None]
  /\ UNCHANGED <<record, up, outages>>

----------------------------------------------------------------------------
(* Mutant: the status of a record that exists is left alone.               *)
RegisterOnce(s) ==
  /\ up /\ conn[s].server = "new"
  /\ conn' = [conn EXCEPT ![s].server = "bound"]
  /\ record' = [record EXCEPT ![conn[s].node] = IF @ = "absent" THEN "Connected" ELSE @]
  /\ UNCHANGED <<starting, held, up, outages>>

(* handle_client reads the Register on s.  It is in the socket before the  *)
(* client can close it, so it is read even if the client has gone.         *)
Register(s) ==
  /\ up /\ conn[s].server = "new"
  /\ conn' = [conn EXCEPT ![s].server = "bound"]
  /\ record' = [record EXCEPT ![conn[s].node] = "Connected"]
  /\ UNCHANGED <<starting, held, up, outages>>

(* Mutant: the record is not marked.                                       *)
DisconnectUnmarked(s) ==
  /\ up /\ conn[s].server = "bound" /\ conn[s].client = "closed"
  /\ conn' = [conn EXCEPT ![s].server = "gone"]
  /\ UNCHANGED <<record, starting, held, up, outages>>

(* handle_client reads the end of s: the node it was bound to is marked.   *)
Disconnect(s) ==
  /\ up /\ conn[s].server = "bound" /\ conn[s].client = "closed"
  /\ conn' = [conn EXCEPT ![s].server = "gone"]
  /\ record' = [record EXCEPT ![conn[s].node] = "Disconnected"]
  /\ UNCHANGED <<starting, held, up, outages>>

(* The server process ends; the registry was in its memory.                *)
Outage ==
  /\ up /\ outages < MaxOutages
  /\ up' = FALSE /\ outages' = outages + 1
  /\ record' = [n \in Nodes |-> "absent"]
  /\ conn' = [s \in Conns |-> [conn[s] EXCEPT !.server = "gone"]]
  /\ UNCHANGED <<starting, held>>

(* `whatspace serve', again.                                               *)
Serve ==
  /\ ~up /\ up' = TRUE
  /\ UNCHANGED <<record, conn, starting, held, outages>>

----------------------------------------------------------------------------
Next ==
  \/ \E n \in Nodes : Hold(n) \/ Stop(n) \/ Exit(n) \/ \E s \in Conns : Connect(n, s)
  \/ \E s \in Conns : Register(s) \/ Disconnect(s)
  \/ Outage \/ Serve

(* The handler threads and a command that has begun go on; a server that   *)
(* is down is started again.  Nobody has to start, stop or end anything.   *)
Fairness ==
  /\ \A s \in Conns : WF_vars(Register(s)) /\ WF_vars(Disconnect(s))
  /\ \A n \in Nodes : WF_vars(Hold(n))
  /\ WF_vars(Serve)

Spec == Init /\ [][Next]_vars /\ Fairness

----------------------------------------------------------------------------
(* get_connected_peers; an empty request asks for everybody.               *)
ConnectedPeers(wanted) ==
  {n \in Nodes : record[n] = "Connected" /\ (wanted = {} \/ n \in wanted)}

(* A peer that get_connected_peers returns has a connection whose thread   *)
(* has not seen its end: whatever order the threads run in, no record is   *)
(* left Connected behind (handle_client).                                  *)
ListedIsServed ==
  \A n \in ConnectedPeers({}) : \E s \in Of(n) : conn[s].server = "bound"

(* A node whose process ended or that was stopped is taken off the list in *)
(* the end, unless it starts again (handle_client, "Connection closed -    *)
(* mark node as disconnected").                                            *)
GoneIsNoticed ==
  \A n \in Nodes : (starting[n] = None /\ held[n] = None) ~>
    (n \notin ConnectedPeers({}) \/ starting[n] # None \/ held[n] # None)

(* "Start the node and register it with the server" (cli.rs): a node that  *)
(* holds a stream on which its Register has been read is listed, if it     *)
(* never starts before the server has seen the end of its last connection: *)
(* then no late end of it is taken for the end of the new one              *)
(* (handle_client), also across outages.                                   *)
PatientIsListed ==
  \A n \in Nodes \ Hasty :
    held[n] # None /\ conn[held[n]].server = "bound" => n \in ConnectedPeers({n})

(* What makes PatientIsListed inductive: the streams a process holds are   *)
(* open and its own, and the server serves one connection of a patient     *)
(* node at a time, which is the one that gets the node listed.             *)
StreamsOpen ==
  \A n \in Nodes :
    /\ \A s \in {held[n], starting[n]} \ {None} : s \in Of(n) /\ conn[s].client = "open"
    /\ held[n] # None => held[n] # starting[n]

OneServed ==
  \A n \in Nodes \ Hasty : \A s, r \in Served(n) : s = r

OpenIsListed ==
  \A n \in Nodes \ Hasty : \A s \in Of(n) :
    conn[s].client = "open" /\ conn[s].server = "bound" => record[n] = "Connected"

=============================================================================
