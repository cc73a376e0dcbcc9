------------------------------- MODULE Session -------------------------------
(***************************************************************************)
(* The interactive process (src/main.rs, cli/cli.rs, cli/handler.rs): it   *)
(* keeps the nodes of the demo and does one command after the other, while *)
(* the threads that `start' left behind go on.  A thread works with the    *)
(* copy of the node's engine that was made for it; what keeps threads and  *)
(* commands together are three tables, REGISTRY_STREAMS, LISTENING_PORTS   *)
(* and RETRYING_NODES.                                                     *)
(***************************************************************************)
EXTENDS Naturals

CONSTANTS
  Nodes,      \* each has a port of its own
  Demo,       \* Demo[n]: the peers main gives node n
  Servers,    \* registry addresses that can be given to `start'
  Default,    \* the address a new engine has
  Rivals,     \* nodes whose port another process may hold for a while
  None

ASSUME SessionAssumption ==
  /\ Demo \in [Nodes -> SUBSET Nodes]
  /\ Rivals \subseteq Nodes
  /\ None \notin Servers /\ None # Default

VARIABLES
  peers,      \* peers[n]: the node's list
  engine,     \* engine[n]: the node's engine: its peers and the registry it asks
  stream,     \* stream[n]: where the entry of n in REGISTRY_STREAMS leads
  ports,      \* LISTENING_PORTS, by node
  listener,   \* listener[n]: the listener thread of n and its copy of the engine
  retrying,   \* RETRYING_NODES
  retry,      \* retry[n]: the retry thread of n and its copy of the engine
  reachable,  \* the registries that run
  taken       \* the nodes whose port another process holds

vars == <<peers, engine, stream, ports, listener, retrying, retry, reachable, taken>>

Engine == [peers : SUBSET Nodes, registry : Servers \cup {Default}]

Fresh(n) == [peers |-> Demo[n], registry |-> Default]

NoThread == [pc |-> "none"]

TypeOK ==
  /\ peers \in [Nodes -> SUBSET Nodes]
  /\ engine \in [Nodes -> Engine]
  /\ stream \in [Nodes -> Servers \cup {None}]
  /\ listener \in [Nodes -> {NoThread} \cup
                     [pc : {"spawned", "listening", "failed"}, engine : Engine]]
  /\ retry \in [Nodes -> {NoThread} \cup [pc : {"asleep", "awake"}, engine : Engine]]
  /\ ports = {n \in Nodes : listener[n] # NoThread}
  /\ retrying = {n \in Nodes : retry[n] # NoThread}
  /\ reachable \subseteq Servers /\ taken \subseteq Rivals

Init ==
  /\ peers = Demo
  /\ engine = [n \in Nodes |-> Fresh(n)]
  /\ stream = [n \in Nodes |-> None]
  /\ ports = {} /\ listener = [n \in Nodes |-> NoThread]
  /\ retrying = {} /\ retry = [n \in Nodes |-> NoThread]
  /\ reachable = Servers /\ taken = {}

----------------------------------------------------------------------------
(* Commands.                                                               *)

(* Mutant: the port is entered before the registry has answered.           *)
StartPortFirst(n, s) ==
  /\ ports' = ports \cup {n}
  /\ IF s \in reachable
     THEN /\ stream' = [stream EXCEPT ![n] = s]
          /\ engine' = [engine EXCEPT ![n] = [peers |-> peers[n], registry |-> s]]
          /\ listener' = [listener EXCEPT ![n] =
               IF n \in ports THEN @ ELSE [pc |-> "spawned", engine |-> engine'[n]]]
          /\ retrying' = retrying \cup {n}
          /\ retry' = [retry EXCEPT ![n] =
               IF n \in retrying THEN @ ELSE [pc |-> "asleep", engine |-> engine'[n]]]
     ELSE UNCHANGED <<engine, stream, listener, retrying, retry>>
  /\ UNCHANGED <<peers, reachable, taken>>

(* Mutant: the threads' copies are made before the address is set.         *)
StartStaleCopies(n, s) ==
  /\ s \in reachable
  /\ stream' = [stream EXCEPT ![n] = s]
  /\ engine' = [engine EXCEPT ![n] = [peers |-> peers[n], registry |-> s]]
  /\ ports' = ports \cup {n} /\ retrying' = retrying \cup {n}
  /\ listener' = [listener EXCEPT ![n] =
       IF n \in ports THEN @ ELSE [pc |-> "spawned", engine |-> engine[n]]]
  /\ retry' = [retry EXCEPT ![n] =
       IF n \in retrying THEN @ ELSE [pc |-> "asleep", engine |-> engine[n]]]
  /\ UNCHANGED <<peers, reachable, taken>>

(* `start': if the registry cannot be reached nothing happens.  A new      *)
(* stream replaces one that is there.  Threads are only made for a port    *)
(* and a node that are not in the tables.                                  *)
Start(n, s) ==
  /\ s \in reachable
  /\ stream' = [stream EXCEPT ![n] = s]
  /\ engine' = [engine EXCEPT ![n] = [peers |-> peers[n], registry |-> s]]
  /\ ports' = ports \cup {n} /\ retrying' = retrying \cup {n}
  /\ listener' = [listener EXCEPT ![n] =
       IF n \in ports THEN @ ELSE [pc |-> "spawned", engine |-> engine'[n]]]
  /\ retry' = [retry EXCEPT ![n] =
       IF n \in retrying THEN @ ELSE [pc |-> "asleep", engine |-> engine'[n]]]
  /\ UNCHANGED <<peers, reachable, taken>>

(* `stop': neither the listener nor the retry thread is told.              *)
Stop(n) ==
  /\ stream[n] # None
  /\ stream' = [stream EXCEPT ![n] = None]
  /\ UNCHANGED <<peers, engine, ports, listener, retrying, retry, reachable, taken>>

(* sync_node_engine_peers                                                  *)
Synced(n, known) ==
  /\ peers' = [peers EXCEPT ![n] = known]
  /\ engine' = [engine EXCEPT ![n].peers = known]
  /\ UNCHANGED <<stream, ports, listener, retrying, retry, reachable, taken>>

(* `peers add' and `peers remove', of a name that is known.                *)
Add(n, m) == m \notin peers[n] /\ Synced(n, peers[n] \cup {m})

Remove(n, m) == m \in peers[n] /\ Synced(n, peers[n] \ {m})

(* `send' gives the engine the peers again before it routes the bundle.    *)
Send(n) == Synced(n, peers[n])

(* Mutant: the next process takes the table over.                          *)
ExitKeepingPorts ==
  /\ peers' = Demo /\ engine' = [n \in Nodes |-> Fresh(n)]
  /\ stream' = [n \in Nodes |-> None]
  /\ listener' = [n \in Nodes |-> NoThread]
  /\ retrying' = {} /\ retry' = [n \in Nodes |-> NoThread]
  /\ UNCHANGED <<ports, reachable, taken>>

(* `exit', or a command with a name that is not known (find_node), and the *)
(* next process.  Peers are not saved.                                     *)
Exit ==
  /\ peers' = Demo /\ engine' = [n \in Nodes |-> Fresh(n)]
  /\ stream' = [n \in Nodes |-> None]
  /\ ports' = {} /\ listener' = [n \in Nodes |-> NoThread]
  /\ retrying' = {} /\ retry' = [n \in Nodes |-> NoThread]
  /\ UNCHANGED <<reachable, taken>>

----------------------------------------------------------------------------
(* Threads.  The listener binds its port or ends; its node stays in        *)
(* LISTENING_PORTS.                                                        *)
Bind(n) ==
  /\ listener[n].pc = "spawned"
  /\ listener' = [listener EXCEPT ![n].pc = IF n \in taken THEN "failed" ELSE "listening"]
  /\ UNCHANGED <<peers, engine, stream, ports, retrying, retry, reachable, taken>>

(* Mutant: the loop is left when the node is not connected.                *)
WakeOrEnd(n) ==
  /\ retry[n].pc = "asleep"
  /\ retry' = [retry EXCEPT ![n].pc = IF stream[n] = None THEN "ended" ELSE "awake"]
  /\ UNCHANGED <<peers, engine, stream, ports, listener, retrying, reachable, taken>>

(* The retry thread: after two seconds it looks whether the node is in     *)
(* REGISTRY_STREAMS, and sleeps again if it is not ...                     *)
Wake(n) ==
  /\ retry[n].pc = "asleep" /\ stream[n] # None
  /\ retry' = [retry EXCEPT ![n].pc = "awake"]
  /\ UNCHANGED <<peers, engine, stream, ports, listener, retrying, reachable, taken>>

(* ... or runs retry_unsynced_bundles, even if the node is stopped now.    *)
Pass(n) ==
  /\ retry[n].pc = "awake"
  /\ retry' = [retry EXCEPT ![n].pc = "asleep"]
  /\ UNCHANGED <<peers, engine, stream, ports, listener, retrying, reachable, taken>>

(* A registry ends or comes back; another process takes a port or frees it.*)
Registry(s) ==
  /\ reachable' = IF s \in reachable THEN reachable \ {s} ELSE reachable \cup {s}
  /\ UNCHANGED <<peers, engine, stream, ports, listener, retrying, retry, taken>>

Rival(n) ==
  /\ listener[n].pc # "listening"
  /\ taken' = IF n \in taken THEN taken \ {n} ELSE taken \cup {n}
  /\ UNCHANGED <<peers, engine, stream, ports, listener, retrying, retry, reachable>>

----------------------------------------------------------------------------
Next ==
  \/ \E n \in Nodes :
       \/ \E s \in Servers : Start(n, s)
       \/ Stop(n) \/ Send(n)
       \/ \E m \in Nodes : Add(n, m) \/ Remove(n, m)
       \/ Bind(n) \/ Wake(n) \/ Pass(n)
  \/ Exit
  \/ \E s \in Servers : Registry(s)
  \/ \E n \in Rivals : Rival(n)

(* Threads go on.                                                          *)
Fairness == \A n \in Nodes : WF_vars(Bind(n)) /\ WF_vars(Wake(n)) /\ WF_vars(Pass(n))

Spec == Init /\ [][Next]_vars /\ Fairness

----------------------------------------------------------------------------
(* "Each started node opens its peer listener on its configured local      *)
(* port" (README.md:223), also one that was stopped or could not register  *)
(* at first.  It does if nobody else ever holds that port: a listener that *)
(* failed to bind is not tried again.                                      *)
StartedListens ==
  \A n \in Nodes \ Rivals :
    stream[n] # None => listener[n].pc \in {"spawned", "listening"}

(* No thread asks a registry that its node never registered with: the      *)
(* address a new engine has is replaced before the copies are made.        *)
ThreadsAskRegistered ==
  \A n \in Nodes : \A thread \in {listener[n], retry[n]} :
    thread # NoThread => thread.engine.registry \in Servers

(* What a node could not send is tried again once it is started, also when *)
(* it was stopped meanwhile (the retry thread is made once).               *)
RetryResumes ==
  \A n \in Nodes : stream[n] # None ~> (stream[n] = None \/ retry[n].pc = "awake")

=============================================================================
