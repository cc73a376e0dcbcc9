---------------------------- MODULE SessionProofs ----------------------------
(***************************************************************************)
(* Theorems about the interactive process, for every set of nodes and      *)
(* registries, whatever ports others take and whatever registries go down. *)
(***************************************************************************)
EXTENDS Session, TLAPS

Listener == [pc : {"spawned", "listening", "failed"}, engine : Engine]

Retrier == [pc : {"asleep", "awake"}, engine : Engine]

(* The invariant.  A node that is started has a listener thread, and only  *)
(* one whose port others take has a listener that failed.                  *)
Threaded == \A n \in Nodes : stream[n] # None => listener[n] # NoThread

BindsUnlessTaken == \A n \in Nodes \ Rivals : listener[n].pc # "failed"

IInv == TypeOK /\ Threaded /\ BindsUnlessTaken /\ ThreadsAskRegistered

----------------------------------------------------------------------------
LEMMA Kinds ==
  /\ \A r \in Listener : r # NoThread /\ r.engine \in Engine
  /\ \A r \in Retrier : r # NoThread /\ r.engine \in Engine
<1>1. NoThread.pc = "none"
  BY DEF NoThread
<1> QED
  BY <1>1 DEF Listener, Retrier

LEMMA StartKeeps ==
  ASSUME IInv, NEW n \in Nodes, NEW s \in Servers, Start(n, s)
  PROVE  IInv'
<1> DEFINE e == [peers |-> peers[n], registry |-> s]
<1> USE DEF IInv, TypeOK
<1>1. e \in Engine /\ engine'[n] = e /\ engine' \in [Nodes -> Engine]
  BY DEF Start, Engine
<1>2. \A m \in Nodes :
        listener'[m] = IF m = n /\ listener[n] = NoThread
                       THEN [pc |-> "spawned", engine |-> e] ELSE listener[m]
  BY <1>1 DEF Start
<1>3. \A m \in Nodes :
        retry'[m] = IF m = n /\ retry[n] = NoThread
                    THEN [pc |-> "asleep", engine |-> e] ELSE retry[m]
  BY <1>1 DEF Start
<1>4. [pc |-> "spawned", engine |-> e] \in Listener /\ [pc |-> "asleep", engine |-> e] \in Retrier
  BY <1>1 DEF Listener, Retrier
<1>5. /\ listener' \in [Nodes -> {NoThread} \cup Listener]
      /\ retry' \in [Nodes -> {NoThread} \cup Retrier]
  <2>1. /\ listener \in [Nodes -> {NoThread} \cup Listener]
        /\ retry \in [Nodes -> {NoThread} \cup Retrier]
    BY DEF Listener, Retrier
  <2> HIDE DEF e
  <2> QED
    BY <1>1, <1>4, <2>1 DEF Start, e
<1>6. TypeOK'
  <2>1. ports' = {m \in Nodes : listener'[m] # NoThread}
    BY <1>2, <1>4, Kinds DEF Start
  <2>2. retrying' = {m \in Nodes : retry'[m] # NoThread}
    BY <1>3, <1>4, Kinds DEF Start
  <2> QED
    BY <1>1, <1>5, <2>1, <2>2 DEF Start, Listener, Retrier
<1>7. Threaded'
  BY <1>2, <1>4, Kinds DEF Start, Threaded
<1>8. BindsUnlessTaken'
  BY <1>2 DEF BindsUnlessTaken
<1>9. ThreadsAskRegistered'
  BY <1>2, <1>3 DEF ThreadsAskRegistered
<1> QED
  BY <1>6, <1>7, <1>8, <1>9

(* A command that makes no thread.                                         *)
LEMMA CommandKeeps ==
  ASSUME IInv, NEW n \in Nodes, NEW m \in Nodes,
         Stop(n) \/ Send(n) \/ Add(n, m) \/ Remove(n, m)
  PROVE  IInv'
<1> USE DEF IInv, TypeOK
<1>1. UNCHANGED <<ports, listener, retrying, retry, reachable, taken>>
  BY DEF Stop, Send, Add, Remove, Synced
<1>2. CASE Stop(n)
  BY <1>1, <1>2 DEF Stop, Threaded, BindsUnlessTaken, ThreadsAskRegistered
<1>3. ASSUME NEW known \in SUBSET Nodes, Synced(n, known) PROVE IInv'
  <2>1. engine' \in [Nodes -> Engine] /\ peers' \in [Nodes -> SUBSET Nodes]
    BY <1>3 DEF Synced, Engine
  <2>2. UNCHANGED stream
    BY <1>3 DEF Synced
  <2> QED
    BY <1>1, <2>1, <2>2 DEF Threaded, BindsUnlessTaken, ThreadsAskRegistered
<1> QED
  BY <1>2, <1>3 DEF Send, Add, Remove

LEMMA ExitKeeps == IInv /\ Exit => IInv'
<1> SUFFICES ASSUME IInv, Exit PROVE IInv'
  OBVIOUS
<1>1. \A n \in Nodes : Fresh(n) \in Engine
  BY SessionAssumption DEF Fresh, Engine
<1>2. Demo \in [Nodes -> SUBSET Nodes]
  BY SessionAssumption
<1>3. TypeOK'
  BY <1>1, <1>2 DEF Exit, IInv, TypeOK
<1>4. NoThread.pc # "failed"
  BY DEF NoThread
<1> QED
  BY <1>3, <1>4 DEF Exit, IInv, Threaded, BindsUnlessTaken, ThreadsAskRegistered

LEMMA ThreadKeeps ==
  ASSUME IInv, NEW n \in Nodes, Bind(n) \/ Wake(n) \/ Pass(n)
  PROVE  IInv'
<1> USE DEF IInv, TypeOK
<1>1. NoThread.pc = "none"
  BY DEF NoThread
<1>2. CASE Bind(n)
  <2>1. listener[n] \in Listener
    BY <1>1, <1>2 DEF Bind, Listener
  <2>2. PICK pc \in {"listening", "failed"} :
          /\ listener' = [listener EXCEPT ![n].pc = pc]
          /\ pc = "failed" => n \in taken
    BY <1>2 DEF Bind
  <2>3. [listener[n] EXCEPT !.pc = pc] \in Listener
        /\ [listener[n] EXCEPT !.pc = pc].engine = listener[n].engine
    BY <2>1 DEF Listener
  <2>4. \A m \in Nodes : listener'[m] = IF m = n THEN [listener[n] EXCEPT !.pc = pc]
                                         ELSE listener[m]
    BY <2>2
  <2>5. TypeOK'
    <3>1. listener' \in [Nodes -> {NoThread} \cup Listener]
      BY <2>2, <2>3 DEF Listener
    <3>2. \A m \in Nodes : listener'[m] = NoThread <=> listener[m] = NoThread
      BY <2>1, <2>3, <2>4, Kinds
    <3> QED
      BY <1>2, <3>1, <3>2 DEF Bind, Listener
  <2>6. Threaded' /\ ThreadsAskRegistered'
    BY <1>2, <2>1, <2>3, <2>4, Kinds DEF Bind, Threaded, ThreadsAskRegistered
  <2>7. BindsUnlessTaken'
    BY <2>2, <2>4 DEF BindsUnlessTaken
  <2> QED
    BY <2>5, <2>6, <2>7
<1>3. CASE Wake(n) \/ Pass(n)
  <2>1. retry[n] \in Retrier
    BY <1>1, <1>3 DEF Wake, Pass, Retrier
  <2>2. PICK pc \in {"asleep", "awake"} : retry' = [retry EXCEPT ![n].pc = pc]
    BY <1>3 DEF Wake, Pass
  <2>3. [retry[n] EXCEPT !.pc = pc] \in Retrier
        /\ [retry[n] EXCEPT !.pc = pc].engine = retry[n].engine
    BY <2>1 DEF Retrier
  <2>4. \A m \in Nodes : retry'[m] = IF m = n THEN [retry[n] EXCEPT !.pc = pc] ELSE retry[m]
    BY <2>2
  <2>5. UNCHANGED <<peers, engine, stream, ports, listener, retrying, reachable, taken>>
    BY <1>3 DEF Wake, Pass
  <2>6. TypeOK'
    <3>1. retry' \in [Nodes -> {NoThread} \cup Retrier]
      BY <2>2, <2>3 DEF Retrier
    <3>2. \A m \in Nodes : retry'[m] = NoThread <=> retry[m] = NoThread
      BY <2>1, <2>3, <2>4, Kinds
    <3> QED
      BY <2>5, <3>1, <3>2 DEF Retrier
  <2>7. ThreadsAskRegistered'
    BY <2>1, <2>3, <2>4, <2>5, Kinds DEF ThreadsAskRegistered
  <2> QED
    BY <2>5, <2>6, <2>7 DEF Threaded, BindsUnlessTaken
<1> QED
  BY <1>2, <1>3

LEMMA IInvStep == IInv /\ [Next]_vars => IInv'
<1> SUFFICES ASSUME IInv, [Next]_vars PROVE IInv'
  OBVIOUS
<1>1. ASSUME NEW s \in Servers, Registry(s) PROVE IInv'
  BY <1>1 DEF Registry, IInv, TypeOK, Threaded, BindsUnlessTaken, ThreadsAskRegistered
<1>2. ASSUME NEW n \in Rivals, Rival(n) PROVE IInv'
  BY <1>2 DEF Rival, IInv, TypeOK, Threaded, BindsUnlessTaken, ThreadsAskRegistered
<1>3. CASE UNCHANGED vars
  BY <1>3 DEF vars, IInv, TypeOK, Threaded, BindsUnlessTaken, ThreadsAskRegistered
<1> QED
  BY <1>1, <1>2, <1>3, StartKeeps, CommandKeeps, ExitKeeps, ThreadKeeps DEF Next

LEMMA IInvInit == Init => IInv
<1>1. \A n \in Nodes : Fresh(n) \in Engine
  BY SessionAssumption DEF Fresh, Engine
<1>2. NoThread.pc # "failed"
  BY DEF NoThread
<1> QED
  BY <1>1, <1>2, SessionAssumption
  DEF Init, IInv, TypeOK, Threaded, BindsUnlessTaken, ThreadsAskRegistered

----------------------------------------------------------------------------
(* The tables of the process and its threads keep their type; a node is in *)
(* LISTENING_PORTS or RETRYING_NODES exactly if it has the thread.         *)
THEOREM TypeCorrect == Spec => []TypeOK
<1>1. IInv => TypeOK
  BY DEF IInv
<1> QED
  BY <1>1, IInvInit, IInvStep, PTL DEF Spec

(* A started node whose port nobody else takes has a listener, however     *)
(* often it was stopped and started and whatever registries were down.     *)
THEOREM StartedListen == Spec => []StartedListens
<1>1. IInv => StartedListens
  BY DEF IInv, TypeOK, Threaded, BindsUnlessTaken, StartedListens, NoThread
<1> QED
  BY <1>1, IInvInit, IInvStep, PTL DEF Spec

(* The listener and the retry thread of a node ask only registries that    *)
(* the node was started with.                                              *)
THEOREM ThreadsAskTheirs == Spec => []ThreadsAskRegistered
<1>1. IInv => ThreadsAskRegistered
  BY DEF IInv
<1> QED
  BY <1>1, IInvInit, IInvStep, PTL DEF Spec

=============================================================================
