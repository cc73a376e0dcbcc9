--------------------------------- MODULE Wire ---------------------------------
(***************************************************************************)
(* The dialogues on TCP connections (src/network/client.rs, server.rs): a  *)
(* client thread makes one call per connection, a server thread answers it.*)
(*   send      a bundle, with its length in front; the answer is `ack'     *)
(*   vector    RequestSV as JSON; the answer has its length in front       *)
(*   lookup    GetConnectedPeers as JSON, to the registry                  *)
(*   register  Register as JSON, to the registry; the connection is kept   *)
(* A message is a sequence of blocks, an unspecified number of bytes each. *)
(* TCP keeps blocks in order but may deliver a message in pieces.  Where   *)
(* the code reads exactly what a length announces, pieces do not matter;   *)
(* where it takes the result of one read for the whole message, they do,   *)
(* and so does a message that is larger than the buffer of the read.       *)
(***************************************************************************)
EXTENDS Naturals, Sequences, FiniteSets

CONSTANTS
  Conns,      \* connections that can exist at the same time
  Data,       \* DATA bundles, of which the peer has some and gets others
  AckOf,      \* AckOf[d]: the ACK of d, a bundle like d
  Here,       \* bundles whose destination is the peer
  Elsewhere,  \* nodes the registry lists, registered before over other connections
  Split,      \* types of messages that TCP may deliver in pieces
  Buffer,     \* blocks in the buffer of a server's read (4096 bytes)
  Room,       \* blocks in the buffer of a look-up's read (16384 bytes)
  MaxTries,   \* connect_with_retry's max_retries
  MaxEvents   \* bound: cuts, ends of processes and changes of the peer's file by
              \* its other jobs in a behaviour

Types == {"bundle", "request", "vector", "ack", "lookup", "register", "peers", "ok", "error"}

Acks == {AckOf[d] : d \in Data}

Bundles == Data \cup Acks

ASSUME WireAssumption ==
  /\ IsFiniteSet(Conns) /\ IsFiniteSet(Data) /\ IsFiniteSet(Elsewhere)
  /\ Data \cap Acks = {} /\ Here \subseteq Bundles
  /\ Split \subseteq Types
  /\ Buffer \in Nat \ {0} /\ Room \in Nat \ {0}
  /\ MaxTries \in Nat \ {0} /\ MaxEvents \in Nat

VARIABLES
  call,     \* call[c]: the call made on connection c
  link,     \* link[c]: "open", or "cut" when the network or the server gave it up
  up,       \* up[c]: blocks on their way to the server, down[c]: to the client
  down,
  thread,   \* thread[c]: the server thread of c
  alive,    \* the servers whose process runs
  stored,   \* bundles in the peer's file
  seen,     \* history: what the file was since the request_peer_sv on c began
  listed,   \* nodes the registry lists as Connected: Elsewhere, or by connection
  events

vars == <<call, link, up, down, thread, alive, stored, seen, listed, events>>

Peers == Conns \cup Elsewhere

Servers == {"peer", "registry"}

Ops == {"send", "vector", "lookup", "register"}

ServerOf(op) == IF op \in {"send", "vector"} THEN "peer" ELSE "registry"

None == "none"

----------------------------------------------------------------------------
(* Messages.  `of' is the content that matters, a set: the one bundle that *)
(* is sent, the ids in a summary vector, the peers in an answer.           *)
Msg(type, of) == [type |-> type, of |-> of]

(* A length prefix is a block of its own; a list has a block per entry.    *)
Size(m) ==
  CASE m.type \in {"bundle", "request", "lookup", "register"} -> 2
    [] m.type \in {"vector", "peers"} -> 1 + Cardinality(m.of)
    [] OTHER -> 1

Whole(m) == [k \in 1..Size(m) |-> <<m, k>>]

Request(op, b) ==
  CASE op = "send" -> Msg("bundle", {b})
    [] op = "vector" -> Msg("request", {})
    [] OTHER -> Msg(op, {})

(* What arrives together of the blocks that are left to write.             *)
Pieces(left) ==
  IF Head(left)[1].type \in Split THEN 1..Len(left) ELSE {Len(left)}

First(n, s) == SubSeq(s, 1, n)
After(n, s) == SubSeq(s, n + 1, Len(s))

(* One read into a buffer of that size.                                    *)
OneRead(s, size) == IF Len(s) < size THEN s ELSE First(size, s)

(* read_exact of a length and of as many bytes as it announces.            *)
Complete(s) == s # <<>> /\ Head(s)[2] = 1 /\ Len(s) >= Size(Head(s)[1])

----------------------------------------------------------------------------
(* A thread that has received a bundle.                                    *)
Busy == {"ack", "handle", "purge", "look", "put"}

NoCall == [op |-> None, bundle |-> None, pc |-> "ended", tries |-> 0, left |-> <<>>,
           ok |-> FALSE, result |-> {}]

NoThread == [pc |-> "gone", left |-> <<>>, got |-> {}, puts |-> <<>>]

Messages ==
  {Msg("bundle", {b}) : b \in Bundles}
    \cup {Msg("vector", S) : S \in SUBSET Bundles}
    \cup {Msg("peers", S) : S \in SUBSET Peers}
    \cup {Msg(t, {}) : t \in {"request", "ack", "lookup", "register", "ok", "error"}}

Stream == Seq(Messages \X (Nat \ {0}))

Call == [op : Ops \cup {None}, bundle : Bundles \cup {None},
         pc : {"connect", "write", "read", "held", "ended"}, tries : 0..(MaxTries - 1),
         left : Stream, ok : BOOLEAN,
         result : (SUBSET Bundles) \cup (SUBSET Peers)]

(* got: the bundle it has received or the list it has answered with; puts: *)
(* the saves and upserts that it is still to make.                         *)
Thread == [pc : {"idle", "answer", "gone"} \cup Busy, left : Stream,
           got : (SUBSET Bundles) \cup (SUBSET Peers),
           puts : Seq({"save", "upsert"} \X Bundles)]

TypeOK ==
  /\ call \in [Conns -> Call] /\ thread \in [Conns -> Thread]
  /\ link \in [Conns -> {"open", "cut"}]
  /\ up \in [Conns -> Stream] /\ down \in [Conns -> Stream]
  /\ \A c \in Conns :
       /\ call[c].pc = "write" <=> call[c].left # <<>>
       /\ thread[c].pc = "answer" <=> thread[c].left # <<>>
       /\ thread[c].pc = "put" <=> thread[c].puts # <<>>
       /\ thread[c].pc # "gone" => ServerOf(call[c].op) \in alive
       /\ thread[c].pc = "gone" => link[c] = "cut" /\ up[c] = <<>>
  /\ alive \subseteq Servers /\ stored \subseteq Bundles
  /\ seen \in [Conns -> SUBSET SUBSET Bundles]
  /\ listed \subseteq Peers /\ events \in 0..MaxEvents

Init ==
  /\ call = [c \in Conns |-> NoCall]
  /\ thread = [c \in Conns |-> NoThread]
  /\ link = [c \in Conns |-> "cut"]
  /\ up = [c \in Conns |-> <<>>] /\ down = [c \in Conns |-> <<>>]
  /\ alive = Servers
  /\ stored = {} /\ seen = [c \in Conns |-> {}]
  /\ listed = Elsewhere
  /\ events = 0

----------------------------------------------------------------------------
(* The client.  A call begins.                                             *)
Begin(c, op, b) ==
  /\ call[c].pc = "ended" /\ thread[c].pc = "gone"
  /\ (op = "send") = (b # None)
  /\ call' = [call EXCEPT ![c] = [NoCall EXCEPT !.op = op, !.bundle = b, !.pc = "connect"]]
  /\ seen' = [seen EXCEPT ![c] = IF op = "vector" THEN {stored} ELSE {}]
  /\ thread' = [thread EXCEPT ![c] = NoThread]
  /\ UNCHANGED <<link, up, down, alive, stored, listed, events>>

(* A call ends, and its stream is closed: what is on its way to the client *)
(* has no reader.                                                          *)
Ended(c, ok, result) ==
  /\ call' = [call EXCEPT ![c].pc = "ended", ![c].tries = 0, ![c].left = <<>>,
                          ![c].ok = ok, ![c].result = result]
  /\ down' = [down EXCEPT ![c] = <<>>]
  /\ seen' = [seen EXCEPT ![c] = {}]

(* Mutant: a failed attempt to connect is not counted.                     *)
ConnectForever(c) ==
  /\ call[c].pc = "connect" /\ ServerOf(call[c].op) \in alive
  /\ call' = [call EXCEPT ![c].pc = "write",
                          ![c].left = Whole(Request(call[c].op, call[c].bundle))]
  /\ thread' = [thread EXCEPT ![c].pc = "idle"]
  /\ link' = [link EXCEPT ![c] = "open"]
  /\ UNCHANGED <<up, down, alive, stored, seen, listed, events>>

(* connect_with_retry: a listener that runs accepts, and starts a thread;  *)
(* another attempt follows a failed one up to MaxTries.                    *)
Connect(c) ==
  /\ call[c].pc = "connect"
  /\ \/ /\ ServerOf(call[c].op) \in alive
        /\ call' = [call EXCEPT ![c].pc = "write", ![c].tries = 0,
                                ![c].left = Whole(Request(call[c].op, call[c].bundle))]
        /\ thread' = [thread EXCEPT ![c].pc = "idle"]
        /\ link' = [link EXCEPT ![c] = "open"]
        /\ UNCHANGED <<down, seen>>
     \/ /\ ServerOf(call[c].op) \notin alive
        /\ IF call[c].tries + 1 < MaxTries
           THEN call' = [call EXCEPT ![c].tries = @ + 1] /\ UNCHANGED <<down, seen>>
           ELSE Ended(c, FALSE, {})
        /\ UNCHANGED <<thread, link>>
  /\ UNCHANGED <<up, alive, stored, listed, events>>

(* write_all, as it arrives at the other end.                              *)
Write(c) ==
  /\ call[c].pc = "write" /\ link[c] = "open"
  /\ \E n \in Pieces(call[c].left) :
       /\ up' = [up EXCEPT ![c] = @ \o First(n, call[c].left)]
       /\ call' = [call EXCEPT ![c].left = After(n, @),
                               ![c].pc = IF n = Len(call[c].left) THEN "read" ELSE @]
  /\ UNCHANGED <<link, down, thread, alive, stored, seen, listed, events>>

(* read_exact: send_bundle and request_peer_sv wait for the whole answer,  *)
(* without a timeout.                                                      *)
ReadExact(c) ==
  /\ call[c].pc = "read" /\ call[c].op \in {"send", "vector"}
  /\ Complete(down[c])
  /\ Ended(c, TRUE, IF call[c].op = "vector" THEN Head(down[c])[1].of ELSE {})
  /\ UNCHANGED <<link, up, thread, alive, stored, listed, events>>

(* Mutant: entries of an answer that did not fit are left out.              *)
ReadOnceInParts(c) ==
  /\ call[c].pc = "read" /\ call[c].op = "lookup" /\ down[c] # <<>>
  /\ \E S \in SUBSET Head(down[c])[1].of :
       Len(OneRead(down[c], Room)) = 1 + Cardinality(S) /\ Ended(c, TRUE, S)
  /\ UNCHANGED <<link, up, thread, alive, stored, listed, events>>

(* get_connected_peers_from_server reads once; what is no whole answer     *)
(* counts as nobody connected.                                             *)
ReadOnce(c) ==
  /\ call[c].pc = "read" /\ call[c].op = "lookup" /\ down[c] # <<>>
  /\ LET read == OneRead(down[c], Room) IN
       IF Head(read)[1].type = "peers" /\ read = Whole(Head(read)[1])
       THEN Ended(c, TRUE, Head(read)[1].of)
       ELSE Ended(c, FALSE, {})
  /\ UNCHANGED <<link, up, thread, alive, stored, listed, events>>

(* connect_to_server reads once too, and holds the connection whatever the *)
(* answer is.                                                              *)
Hold(c) ==
  /\ call[c].pc = "read" /\ call[c].op = "register"
  /\ call' = [call EXCEPT ![c].pc = "held", ![c].ok = TRUE]
  /\ UNCHANGED <<link, up, down, thread, alive, stored, seen, listed, events>>

(* The read timeouts of two seconds, which the other two calls lack.  (An  *)
(* expired timeout of a register is Hold as well.)                         *)
Timeout(c) ==
  /\ call[c].pc = "read" /\ call[c].op = "lookup"
  /\ Ended(c, FALSE, {})
  /\ UNCHANGED <<link, up, thread, alive, stored, listed, events>>

(* Mutant: a read of an answer that fails counts as an empty answer.       *)
FailIgnored(c) ==
  /\ link[c] = "cut"
  /\ call[c].pc \in {"write", "read"} /\ ~Complete(down[c])
  /\ Ended(c, call[c].pc = "read", {})
  /\ UNCHANGED <<link, up, thread, alive, stored, listed, events>>

(* A write or a read fails, because the connection was cut or closed by    *)
(* the server, and what it wrote is not enough.                            *)
Fail(c) ==
  /\ link[c] = "cut"
  /\ \/ call[c].pc = "write"
     \/ call[c].pc = "read" /\ call[c].op \in {"send", "vector"} /\ ~Complete(down[c])
     \/ call[c].pc = "read" /\ call[c].op = "lookup" /\ down[c] = <<>>
  /\ Ended(c, FALSE, {})
  /\ UNCHANGED <<link, up, thread, alive, stored, listed, events>>

(* `stop', or the end of the node's process: the registered stream closes. *)
Release(c) ==
  /\ call[c].pc = "held"
  /\ Ended(c, TRUE, {})
  /\ UNCHANGED <<link, up, thread, alive, stored, listed, events>>

----------------------------------------------------------------------------
(* The peer's file.  DATA is barred by its ACK.                            *)
Cleared(a) == {d \in Data : AckOf[d] = a}

Barred(file, b) == b \in Data /\ AckOf[b] \in file

(* save_bundle: it sweeps what is expired, and then adds the bundle, unless*)
(* it is barred or the file, which holds other bundles too, is full.       *)
Saved(b) ==
  (SUBSET stored) \cup {S \cup {b} : S \in {T \in SUBSET stored : ~Barred(T, b)}}

(* upsert_bundle: of a bundle in the file it changes only the status.      *)
Outcomes(put) ==
  IF put[1] = "upsert" /\ put[2] \in stored THEN {stored} ELSE Saved(put[2])

(* A request_peer_sv that has not ended.                                   *)
Asking(c) == call[c].op = "vector" /\ call[c].pc # "ended"

Stores(file) ==
  /\ stored' = file
  /\ seen' = [c \in Conns |-> IF Asking(c) THEN seen[c] \cup {file} ELSE seen[c]]

----------------------------------------------------------------------------
(* The server threads.                                                     *)
Idle(c, server) ==
  thread[c].pc = "idle" /\ ServerOf(call[c].op) = server

Answering(c, m, got) ==
  thread' = [thread EXCEPT ![c] = [NoThread EXCEPT !.pc = "answer", !.left = Whole(m), !.got = got]]

Turns(c, pc) == thread' = [thread EXCEPT ![c].pc = pc, ![c].puts = <<>>]

Puts(c, puts) ==
  thread' = [thread EXCEPT ![c].pc = IF puts = <<>> THEN "idle" ELSE "put", ![c].puts = puts]

(* What route_bundle stores of DATA: at its destination also the ACK.      *)
DataPuts(d) ==
  IF d \in Here
  THEN <<<<"upsert", d>>, <<"save", AckOf[d]>>, <<"upsert", AckOf[d]>>>>
  ELSE <<<<"save", d>>, <<"upsert", d>>>>

(* Mutant: no look at the first byte.                                      *)
IsJsonNever(c) == FALSE

(* What is written has a reader.                                           *)
Heard(c) == link[c] = "open" /\ call[c].pc # "ended"

(* handle_peer_to_peer peeks at the first byte: JSON begins with a brace.  *)
IsJson(c) == up[c] # <<>> /\ Head(up[c]) = <<Msg("request", {}), 1>>

(* Mutant: the answer is what was loaded when the storage layer was made.  *)
RespondUnrefreshed(c) ==
  /\ Idle(c, "peer") /\ IsJson(c)
  /\ up' = [up EXCEPT ![c] = After(Len(OneRead(@, Buffer)), @)]
  /\ Answering(c, Msg("vector", {}), {})
  /\ UNCHANGED <<call, link, down, alive, stored, seen, listed, events>>

(* respond_peer_sv: one read.  What does not parse is dropped.             *)
Respond(c) ==
  /\ Idle(c, "peer") /\ IsJson(c)
  /\ LET read == OneRead(up[c], Buffer) IN
       /\ up' = [up EXCEPT ![c] = After(Len(read), @)]
       /\ IF read = Whole(Msg("request", {}))
          THEN Answering(c, Msg("vector", stored), stored)
          ELSE UNCHANGED thread
  /\ UNCHANGED <<call, link, down, alive, stored, seen, listed, events>>

(* receive_bundle: read_exact of the length, then of the payload.          *)
Receive(c) ==
  /\ Idle(c, "peer") /\ ~IsJson(c) /\ Complete(up[c])
  /\ up' = [up EXCEPT ![c] = After(Size(Head(@)[1]), @)]
  /\ thread' = [thread EXCEPT ![c] = [NoThread EXCEPT !.pc = "ack", !.got = Head(up[c])[1].of]]
  /\ UNCHANGED <<call, link, down, alive, stored, seen, listed, events>>

(* It answers ...                                                          *)
Acknowledge(c) ==
  /\ thread[c].pc = "ack"
  /\ down' = [down EXCEPT ![c] = IF Heard(c) THEN @ \o Whole(Msg("ack", {})) ELSE @]
  /\ thread' = [thread EXCEPT ![c].pc = "handle"]
  /\ UNCHANGED <<call, link, up, alive, stored, seen, listed, events>>

(* ... and then handle_peer_to_peer looks whether the bundle is known, and *)
(* routes it, if not: DATA is saved and upserted, unless it is expired.    *)
Handle(c) ==
  /\ thread[c].pc = "handle"
  /\ \E b \in thread[c].got :
       \/ b \in stored /\ Turns(c, "idle")
       \/ b \notin stored /\ Turns(c, "purge")
       \/ b \in Data \ stored /\ Puts(c, DataPuts(b))
  /\ UNCHANGED <<call, link, up, down, alive, stored, seen, listed, events>>

(* handle_incoming_ack looks for the DATA and deletes it: the step is the  *)
(* delete or, when there is nothing to delete, the look.  route_bundle     *)
(* deletes DATA that it finds expired.                                     *)
Purge(c) ==
  /\ thread[c].pc = "purge"
  /\ \E b \in thread[c].got :
       IF b \in Data
       THEN Stores(stored \ {b}) /\ Turns(c, "idle")
       ELSE Stores(stored \ Cleared(b)) /\ Turns(c, "look")
  /\ UNCHANGED <<call, link, up, down, alive, listed, events>>

(* handle_incoming_ack looks for the ACK.  To know it ends the job, but at *)
(* the DATA's source, which upserts it anyway.                             *)
LookForAck(c) ==
  /\ thread[c].pc = "look"
  /\ \E b \in thread[c].got :
       IF b \notin stored THEN Puts(c, <<<<"save", b>>, <<"upsert", b>>>>)
       ELSE IF b \in Here THEN Puts(c, <<<<"upsert", b>>>>)
       ELSE Turns(c, "idle")
  /\ UNCHANGED <<call, link, up, down, alive, stored, seen, listed, events>>

(* The next save or upsert.  The job ends early when a save was refused or *)
(* nobody was reached.                                                     *)
Put(c) ==
  /\ thread[c].pc = "put"
  /\ \E file \in Outcomes(Head(thread[c].puts)) : Stores(file)
  /\ Puts(c, Tail(thread[c].puts)) \/ Turns(c, "idle")
  /\ UNCHANGED <<call, link, up, down, alive, listed, events>>

(* Other jobs of the peer, its commands and retries, store too (an upsert  *)
(* stores what a save does, or nothing).                                   *)
Store ==
  /\ events < MaxEvents /\ "peer" \in alive
  /\ \E file \in UNION {Saved(b) : b \in Bundles} : Stores(file)
  /\ events' = events + 1
  /\ UNCHANGED <<call, link, up, down, thread, alive, listed>>

(* The registry's handle_client: one read for one request.                 *)
Serve(c) ==
  /\ Idle(c, "registry") /\ up[c] # <<>>
  /\ LET read == OneRead(up[c], Buffer) IN
       /\ up' = [up EXCEPT ![c] = After(Len(read), @)]
       /\ IF read = Whole(Msg("register", {}))
          THEN Answering(c, Msg("ok", {}), {}) /\ listed' = listed \cup {c}
          ELSE /\ IF read = Whole(Msg("lookup", {}))
                  THEN Answering(c, Msg("peers", listed), listed)
                  ELSE Answering(c, Msg("error", {}), {})
               /\ UNCHANGED listed
  /\ UNCHANGED <<call, link, down, alive, stored, seen, events>>

(* write_all of an answer.  Its failure is ignored.                        *)
Answer(c) ==
  /\ thread[c].pc = "answer"
  /\ \E n \in Pieces(thread[c].left) :
       /\ down' = [down EXCEPT ![c] = IF Heard(c) THEN @ \o First(n, thread[c].left) ELSE @]
       /\ thread' = [thread EXCEPT ![c].left = After(n, @),
                                   ![c].pc = IF n = Len(thread[c].left) THEN "idle" ELSE @]
  /\ UNCHANGED <<call, link, up, alive, stored, seen, listed, events>>

(* Mutant: a read of nothing is not taken for the end.                     *)
LeaveOnError(c) ==
  /\ thread[c].pc = "idle" /\ link[c] = "cut"
  /\ thread' = [thread EXCEPT ![c].pc = "gone"]
  /\ listed' = listed \ {c}
  /\ link' = [link EXCEPT ![c] = "cut"] /\ up' = [up EXCEPT ![c] = <<>>]
  /\ UNCHANGED <<call, down, alive, stored, seen, events>>

(* A read finds the connection closed or cut, with nothing left that could *)
(* be used: the thread ends.                                               *)
Leave(c) ==
  /\ thread[c].pc = "idle"
  /\ call[c].pc = "ended" \/ link[c] = "cut"
  /\ up[c] = <<>> \/ (ServerOf(call[c].op) = "peer" /\ ~IsJson(c) /\ ~Complete(up[c]))
  /\ thread' = [thread EXCEPT ![c].pc = "gone"]
  /\ listed' = listed \ {c}
  /\ link' = [link EXCEPT ![c] = "cut"] /\ up' = [up EXCEPT ![c] = <<>>]
  /\ UNCHANGED <<call, down, alive, stored, seen, events>>

----------------------------------------------------------------------------
(* The network gives up a connection, with what is on its way; a process   *)
(* ends, with its threads.                                                 *)
Cut(c) ==
  /\ events < MaxEvents /\ link[c] = "open" /\ call[c].pc # "ended"
  /\ link' = [link EXCEPT ![c] = "cut"]
  /\ up' = [up EXCEPT ![c] = <<>>] /\ down' = [down EXCEPT ![c] = <<>>]
  /\ events' = events + 1
  /\ UNCHANGED <<call, thread, alive, stored, seen, listed>>

(* Mutant: the threads of the process go on.                               *)
DieWithoutThreads(s) ==
  /\ events < MaxEvents /\ s \in alive
  /\ alive' = alive \ {s} /\ events' = events + 1
  /\ UNCHANGED <<call, link, up, down, thread, stored, seen, listed>>

Die(s) ==
  /\ events < MaxEvents /\ s \in alive
  /\ alive' = alive \ {s} /\ events' = events + 1
  /\ LET its == {c \in Conns : thread[c].pc # "gone" /\ ServerOf(call[c].op) = s} IN
       /\ thread' = [c \in Conns |-> IF c \in its
                                    THEN [thread[c] EXCEPT !.pc = "gone", !.left = <<>>,
                                                           !.puts = <<>>]
                                    ELSE thread[c]]
       /\ link' = [c \in Conns |-> IF c \in its THEN "cut" ELSE link[c]]
       /\ up' = [c \in Conns |-> IF c \in its THEN <<>> ELSE up[c]]
  /\ listed' = IF s = "registry" THEN {} ELSE listed
  /\ UNCHANGED <<call, down, stored, seen>>

Restart(s) ==
  /\ s \notin alive /\ alive' = alive \cup {s}
  /\ UNCHANGED <<call, link, up, down, thread, stored, seen, listed, events>>

----------------------------------------------------------------------------
ClientStep(c) ==
  Connect(c) \/ Write(c) \/ ReadExact(c) \/ ReadOnce(c) \/ Hold(c) \/ Timeout(c) \/ Fail(c)

ThreadStep(c) ==
  \/ Respond(c) \/ Receive(c) \/ Acknowledge(c)
  \/ Handle(c) \/ Purge(c) \/ LookForAck(c) \/ Put(c)
  \/ Serve(c) \/ Answer(c) \/ Leave(c)

Next ==
  \/ \E c \in Conns :
       \/ \E op \in Ops, b \in Bundles \cup {None} : Begin(c, op, b)
       \/ ClientStep(c) \/ Release(c) \/ ThreadStep(c) \/ Cut(c)
  \/ \E s \in Servers : Die(s) \/ Restart(s)
  \/ Store

(* Threads go on when they can: nothing else is needed for a call to end.  *)
Fairness == \A c \in Conns : WF_vars(ClientStep(c)) /\ WF_vars(ThreadStep(c))

Spec == Init /\ [][Next]_vars /\ Fairness

----------------------------------------------------------------------------
(* A send that returns true was received: the server thread has decoded    *)
(* that very bundle, even if its process ended since (send_bundle waits    *)
(* for the answer of receive_bundle).                                      *)
SentIsReceived ==
  \A c \in Conns : call[c].op = "send" /\ call[c].ok => thread[c].got = {call[c].bundle}

(* Nothing is made up: however TCP splits what is written and wherever a   *)
(* dialogue breaks off, what a thread takes for a bundle, and handles as   *)
(* one, was sent as that bundle (handle_peer_to_peer's look at the first *)
(* byte, receive_bundle's framing).                                        *)
NothingMadeUp ==
  \A c \in Conns : thread[c].pc \in Busy =>
    call[c].op = "send" /\ thread[c].got = {call[c].bundle}

(* A summary vector is what the peer's file was at one moment of the call, *)
(* neither a part of it nor older than the request, although the answer    *)
(* may come in pieces, and other threads of the peer save, purge and sweep *)
(* meanwhile (anti_entropy sends what is not in it, and nothing else).     *)
VectorIsCurrent ==
  [][\A c \in Conns : Asking(c) /\ call'[c].pc = "ended" /\ call'[c].ok =>
       call'[c].result \in seen[c]]_vars

(* A look-up finds what the registry answered or nobody, never a part of   *)
(* it, although it reads once (get_connected_peers_from_server).           *)
AllOrNobody ==
  \A c \in Conns : call[c].op = "lookup" /\ call[c].pc = "ended" =>
    call[c].result \in {{}, thread[c].got}

(* Every call ends or, for a register, gets its stream: nobody waits for   *)
(* somebody who waits for him (send_bundle, request_peer_sv and            *)
(* receive_bundle read without a timeout).                                 *)
CallsEnd == \A c \in Conns : call[c].pc = "connect" ~> call[c].pc \in {"held", "ended"}

(* A server thread does not outlive its connection (the loops of           *)
(* handle_peer_to_peer and handle_client).                                 *)
ThreadsEnd == \A c \in Conns :
  call[c].pc = "ended" ~> (thread[c].pc = "gone" \/ call[c].pc # "ended")

=============================================================================
