--------------------------- MODULE RegistryProofs ----------------------------
(***************************************************************************)
(* Theorems about the registry, for every set of nodes and connections and *)
(* any number of outages.                                                  *)
(***************************************************************************)
EXTENDS Registry, TLAPS

(* Closing client ends changes nothing else.                               *)
LEMMA ClosedEnds ==
  ASSUME conn \in [Conns -> Conn], NEW S
  PROVE  /\ Closed(S) \in [Conns -> Conn]
         /\ \A s \in Conns : /\ Closed(S)[s].node = conn[s].node
                             /\ Closed(S)[s].server = conn[s].server
                             /\ s \notin S => Closed(S)[s] = conn[s]
BY DEF Closed, Conn

----------------------------------------------------------------------------
(* Every step keeps the type, the streams of the nodes that hold them, and *)
(* the one served connection of a patient node.                            *)
Sound == TypeOK /\ StreamsOpen /\ OneServed

LEMMA ConnectStep ==
  ASSUME Sound, NEW n \in Nodes, NEW s \in Conns, Connect(n, s)
  PROVE  Sound'
<1> USE RegistryAssumption DEF Sound, TypeOK
<1>1. /\ conn[s].client = "closed" /\ conn[s].server = "gone"
      /\ conn' = [conn EXCEPT ![s] = [node |-> n, client |-> "open", server |-> "new"]]
      /\ starting[n] = None
      /\ starting' = [starting EXCEPT ![n] = s]
      /\ UNCHANGED <<record, held, up, outages>>
      /\ n \in Hasty \/ Served(n) = {}
  BY DEF Connect, Over
<1>2. \A m \in Nodes : s # held[m] /\ s # starting[m]
  BY <1>1 DEF StreamsOpen
<1>3. TypeOK'
  BY <1>1, <1>2 DEF Conn, Of
<1>4. StreamsOpen'
  BY <1>1, <1>2 DEF StreamsOpen, Of
<1>5. OneServed'
  BY <1>1 DEF OneServed, Served, Of
<1> QED
  BY <1>3, <1>4, <1>5

LEMMA HoldStep ==
  ASSUME Sound, NEW n \in Nodes, Hold(n)
  PROVE  Sound'
<1> USE RegistryAssumption DEF Sound, TypeOK
<1>1. /\ starting[n] # None
      /\ held' = [held EXCEPT ![n] = starting[n]]
      /\ conn' = Closed({held[n]} \ {None})
      /\ starting' = [starting EXCEPT ![n] = None]
      /\ UNCHANGED <<record, up, outages>>
  BY DEF Hold
<1>2. \A m \in Nodes : held'[m] # None => held'[m] \in Of(m) /\ held'[m] # held[n]
  BY <1>1 DEF StreamsOpen, Of
<1>3. TypeOK'
  BY <1>1, <1>2, ClosedEnds DEF Of
<1>4. StreamsOpen'
  BY <1>1, <1>2, ClosedEnds DEF StreamsOpen, Of
<1>5. OneServed'
  BY <1>1, ClosedEnds DEF OneServed, Served, Of
<1> QED
  BY <1>3, <1>4, <1>5

LEMMA StopStep ==
  ASSUME Sound, NEW n \in Nodes, Stop(n)
  PROVE  Sound'
<1> USE RegistryAssumption DEF Sound, TypeOK
<1>1. /\ starting[n] = None /\ held[n] # None
      /\ conn' = Closed({held[n]})
      /\ held' = [held EXCEPT ![n] = None]
      /\ UNCHANGED <<record, starting, up, outages>>
  BY DEF Stop
<1>2. TypeOK'
  BY <1>1, ClosedEnds DEF Of
<1>3. StreamsOpen'
  BY <1>1, ClosedEnds DEF StreamsOpen, Of
<1>4. OneServed'
  BY <1>1, ClosedEnds DEF OneServed, Served, Of
<1> QED
  BY <1>2, <1>3, <1>4

LEMMA ExitStep ==
  ASSUME Sound, NEW n \in Nodes, Exit(n)
  PROVE  Sound'
<1> USE RegistryAssumption DEF Sound, TypeOK
<1>1. /\ conn' = Closed({starting[n], held[n]} \ {None})
      /\ starting' = [starting EXCEPT ![n] = None]
      /\ held' = [held EXCEPT ![n] = None]
      /\ UNCHANGED <<record, up, outages>>
  BY DEF Exit
<1>2. TypeOK'
  BY <1>1, ClosedEnds DEF Of
<1>3. StreamsOpen'
  BY <1>1, ClosedEnds DEF StreamsOpen, Of
<1>4. OneServed'
  BY <1>1, ClosedEnds DEF OneServed, Served, Of
<1> QED
  BY <1>2, <1>3, <1>4

(* A step of the server on connection s.                                   *)
LEMMA ServerStep ==
  ASSUME Sound, NEW s \in Conns, Register(s) \/ Disconnect(s)
  PROVE  Sound'
<1> USE RegistryAssumption DEF Sound, TypeOK
<1>1. /\ conn[s].server \in {"new", "bound"}
      /\ \E end \in {"bound", "gone"} : conn' = [conn EXCEPT ![s].server = end]
      /\ \E status \in {"Connected", "Disconnected"} :
           record' = [record EXCEPT ![conn[s].node] = status]
      /\ UNCHANGED <<starting, held, up, outages>>
  BY DEF Register, Disconnect
<1>2. \A r \in Conns : /\ conn'[r].node = conn[r].node
                        /\ conn'[r].client = conn[r].client
                        /\ conn'[r].server # "gone" => conn[r].server # "gone"
  BY <1>1 DEF Conn
<1>3. TypeOK'
  <2>1. conn' \in [Conns -> Conn]
    BY <1>1 DEF Conn
  <2>2. record' \in [Nodes -> {"absent", "Connected", "Disconnected"}]
    BY <1>1
  <2>3. \A n \in Nodes : held'[n] # None => held'[n] \in {r \in Conns : conn'[r].node = n}
    BY <1>1, <1>2 DEF Of
  <2> QED
    BY <1>1, <2>1, <2>2, <2>3 DEF Of
<1>4. StreamsOpen'
  BY <1>1, <1>2 DEF StreamsOpen, Of
<1>5. OneServed'
  BY <1>1, <1>2 DEF OneServed, Served, Of
<1> QED
  BY <1>3, <1>4, <1>5

LEMMA OutageStep ==
  ASSUME Sound, Outage
  PROVE  Sound'
<1> USE RegistryAssumption DEF Sound, TypeOK
<1>1. \A r \in Conns : /\ conn'[r].node = conn[r].node
                        /\ conn'[r].client = conn[r].client
                        /\ conn'[r].server = "gone"
  BY DEF Outage, Conn
<1>2. TypeOK'
  <2>1. conn' \in [Conns -> Conn]
    BY DEF Outage, Conn
  <2>2. outages' \in 0..MaxOutages
    BY DEF Outage
  <2>3. record' \in [Nodes -> {"absent", "Connected", "Disconnected"}]
    BY DEF Outage
  <2>4. \A n \in Nodes : held'[n] # None => held'[n] \in {s \in Conns : conn'[s].node = n}
    BY <1>1 DEF Outage, Of
  <2> QED
    BY <2>1, <2>2, <2>3, <2>4 DEF Outage, Of
<1>3. StreamsOpen'
  BY <1>1 DEF Outage, StreamsOpen, Of
<1>4. OneServed'
  BY <1>1 DEF OneServed, Served, Of
<1> QED
  BY <1>2, <1>3, <1>4

LEMMA SoundStep == Sound /\ [Next]_vars => Sound'
<1> SUFFICES ASSUME Sound, [Next]_vars PROVE Sound'
  OBVIOUS
<1>1. CASE Serve
  BY <1>1 DEF Serve, Sound, TypeOK, StreamsOpen, OneServed, Served, Of
<1>2. CASE UNCHANGED vars
  BY <1>2 DEF vars, Sound, TypeOK, StreamsOpen, OneServed, Served, Of
<1> QED
  BY <1>1, <1>2, ConnectStep, HoldStep, StopStep, ExitStep, ServerStep, OutageStep
  DEF Next

LEMMA AlwaysSound == Spec => []Sound
<1>1. Init => Sound
  BY RegistryAssumption
  DEF Init, Sound, TypeOK, Conn, StreamsOpen, OneServed, Served, Of
<1> QED
  BY <1>1, SoundStep, PTL DEF Spec

(* Every reachable state of the registry and its nodes has its type.       *)
THEOREM TypeCorrect == Spec => []TypeOK
<1>1. Sound => TypeOK
  BY DEF Sound
<1> QED
  BY <1>1, AlwaysSound, PTL

----------------------------------------------------------------------------
(* handle_client leaves nobody on the list without a thread that will take *)
(* it off: whatever connections a node opened and closed, in whatever      *)
(* order their threads ran.                                                *)
THEOREM ListedAreServed == Spec => []ListedIsServed
<1>1. Init => ListedIsServed
  BY DEF Init, ListedIsServed, ConnectedPeers
<1>2. Sound /\ ListedIsServed /\ [Next]_vars => ListedIsServed'
  <2> SUFFICES ASSUME Sound, ListedIsServed, [Next]_vars,
                      NEW n \in Nodes, record'[n] = "Connected"
               PROVE  \E s \in Of(n)' : conn'[s].server = "bound"
    BY DEF ListedIsServed, ConnectedPeers
  <2> USE RegistryAssumption DEF Sound, TypeOK
  <2>a. ASSUME record'[n] = record[n],
               \A s \in Of(n) : conn[s].server = "bound" =>
                  conn'[s].node = n /\ conn'[s].server = "bound"
        PROVE  \E s \in Of(n)' : conn'[s].server = "bound"
    BY <2>a DEF ListedIsServed, ConnectedPeers, Of
  <2>1. ASSUME NEW m \in Nodes, NEW s \in Conns, Connect(m, s)
        PROVE  \E r \in Of(n)' : conn'[r].server = "bound"
    BY <2>1, <2>a DEF Connect, Over, Of
  <2>2. ASSUME NEW m \in Nodes, Hold(m) \/ Stop(m) \/ Exit(m)
        PROVE  \E r \in Of(n)' : conn'[r].server = "bound"
    BY <2>2, <2>a, ClosedEnds DEF Hold, Stop, Exit, Of
  <2>3. ASSUME NEW s \in Conns, Register(s)
        PROVE  \E r \in Of(n)' : conn'[r].server = "bound"
    <3>1. conn'[s].node = conn[s].node /\ conn'[s].server = "bound"
      BY <2>3 DEF Register, Conn
    <3>2. CASE conn[s].node = n
      BY <3>1, <3>2 DEF Of
    <3>3. CASE conn[s].node # n
      BY <2>3, <2>a, <3>3 DEF Register, Of
    <3> QED
      BY <3>2, <3>3
  <2>4. ASSUME NEW s \in Conns, Disconnect(s)
        PROVE  \E r \in Of(n)' : conn'[r].server = "bound"
    <3>1. conn[s].node # n
      BY <2>4 DEF Disconnect
    <3> QED
      BY <2>4, <2>a, <3>1 DEF Disconnect, Of
  <2>5. CASE Outage
    BY <2>5 DEF Outage
  <2>6. CASE Serve \/ UNCHANGED vars
    BY <2>6, <2>a DEF Serve, vars, Of
  <2> QED
    BY <2>1, <2>2, <2>3, <2>4, <2>5, <2>6 DEF Next
<1> QED
  BY <1>1, <1>2, AlwaysSound, PTL DEF Spec

(* A node that starts only after the server has seen the end of its last   *)
(* connection is listed while it holds a stream whose Register was read    *)
(* (start, handle_client): the server then serves one connection of it, so *)
(* no other one can take it off the list.                                  *)
THEOREM PatientAreListed == Spec => []PatientIsListed
<1>1. Init => OpenIsListed
  BY DEF Init, OpenIsListed, Of
<1>2. Sound /\ OpenIsListed /\ [Next]_vars => OpenIsListed'
  <2> SUFFICES ASSUME Sound, OpenIsListed, [Next]_vars,
                      NEW n \in Nodes \ Hasty, NEW s \in Conns, conn'[s].node = n,
                      conn'[s].client = "open", conn'[s].server = "bound"
               PROVE  record'[n] = "Connected"
    BY DEF OpenIsListed, Of
  <2> USE RegistryAssumption DEF Sound, TypeOK
  <2>a. ASSUME record'[n] = record[n], conn'[s] = conn[s]
        PROVE  record'[n] = "Connected"
    BY <2>a DEF OpenIsListed, Of
  <2>1. ASSUME NEW m \in Nodes, NEW r \in Conns, Connect(m, r)
        PROVE  record'[n] = "Connected"
    BY <2>1, <2>a DEF Connect
  <2>2. ASSUME NEW m \in Nodes, Hold(m) \/ Stop(m) \/ Exit(m)
        PROVE  record'[n] = "Connected"
    <3>1. \E S : conn' = Closed(S)
      BY <2>2 DEF Hold, Stop, Exit
    <3>2. conn'[s] = conn[s]
      BY <3>1 DEF Closed
    <3> QED
      BY <2>2, <2>a, <3>2 DEF Hold, Stop, Exit
  <2>3. ASSUME NEW r \in Conns, Register(r)
        PROVE  record'[n] = "Connected"
    <3>1. CASE r = s
      BY <2>3, <3>1 DEF Register, Conn
    <3>2. CASE r # s
      <4>1. conn'[s] = conn[s]
        BY <2>3, <3>2 DEF Register
      <4>2. record'[n] = "Connected" \/ record'[n] = record[n]
        BY <2>3 DEF Register
      <4> QED
        BY <2>a, <4>1, <4>2
    <3> QED
      BY <3>1, <3>2
  <2>4. ASSUME NEW r \in Conns, Disconnect(r)
        PROVE  record'[n] = "Connected"
    <3>1. r # s /\ conn'[s] = conn[s]
      BY <2>4 DEF Disconnect, Conn
    <3>2. conn[r].node # n
      <4>1. SUFFICES ASSUME conn[r].node = n PROVE r = s
        BY <3>1
      <4>2. r \in Served(n) /\ s \in Served(n)
        BY <2>4, <3>1, <4>1 DEF Disconnect, Served, Of
      <4> QED
        BY <4>2 DEF OneServed
    <3> QED
      BY <2>4, <2>a, <3>1, <3>2 DEF Disconnect
  <2>5. CASE Outage
    BY <2>5 DEF Outage, Conn
  <2>6. CASE Serve \/ UNCHANGED vars
    BY <2>6, <2>a DEF Serve, vars
  <2> QED
    BY <2>1, <2>2, <2>3, <2>4, <2>5, <2>6 DEF Next
<1>3. Sound /\ OpenIsListed => PatientIsListed
  BY DEF Sound, StreamsOpen, OpenIsListed, PatientIsListed, ConnectedPeers, Of
<1> QED
  BY <1>1, <1>2, <1>3, AlwaysSound, PTL DEF Spec

=============================================================================
