---------------------------- MODULE CourierProofs ----------------------------
(***************************************************************************)
(* The network of routing engines implements Courier, as far as safety     *)
(* goes: a bundle passes its stages one by one and in order, for every set *)
(* of nodes, bundles and peers and any number of lost sends, answers,      *)
(* summary vectors, look-ups, stops and crashes; a bundle that may expire  *)
(* on the way is not one that Courier speaks of, but the others do not     *)
(* mind it.                                                                *)
(***************************************************************************)
EXTENDS RoutingRefinement, RoutingProofs

(* The DATA bundles that have the time it takes.                           *)
LastingData == Data \ MayExpire

(* Progress, of these bundles.                                             *)
LastingProgress ==
  [d \in LastingData |->
     IF Has(disk[Destination[d]], d)
     THEN IF Has(disk[Source[d]], d) THEN "delivered" ELSE "confirmed"
     ELSE IF Has(disk[Source[d]], d) THEN "held" ELSE "unsent"]

Lasting == INSTANCE Courier WITH Data <- LastingData, state <- LastingProgress

(* What Courier leaves out: two jobs at once at a node, which can          *)
(* acknowledge a bundle twice, and a bundle to oneself.                    *)
CourierConditions ==
  /\ OneLane
  /\ \A d \in LastingData : Source[d] # Destination[d]

(* The source of a DATA bundle has its ACK or could take it.               *)
RoomAtSources ==
  \A a \in AckIds : AckOf[a] \in LastingData =>
    LET S == disk[Source[AckOf[a]]] IN Has(S, a) \/ Cardinality(S) < Capacity

Room == RoomAtEnds /\ RoomAtSources

(* A job about to save an ACK, after the DATA of it is deleted.            *)
Keeping(n, l, d) ==
  LET k == task[n][l] IN k # Idle /\ k.stage = "keep" /\ AckOf[k.id] = d

(* No source crashes between these two calls (handle_incoming_ack), unless *)
(* it has an ACK already: after that it has nothing that keeps the DATA    *)
(* from being stored again.                                                *)
SettlesUnbroken ==
  \A n \in Nodes : Crash(n) =>
    \A l \in Lanes, d \in LastingData :
      Source[d] = n /\ Keeping(n, l, d) => HasAckFor(disk[n], d)

----------------------------------------------------------------------------
NothingExpired == LastingData \cap expired = {}

(* Copies of a DATA bundle that its source let out of its hands.           *)
Out(d) ==
  \E n \in Nodes :
    \/ n # Source[d] /\ Has(disk[n], d)
    \/ inbox[n][d] > 0
    \/ \E l \in Lanes :
         LET k == task[n][l] IN
           k # Idle /\ (d \in k.offer \/ (n # Source[d] /\ d = k.id))

(* While copies are out, one of the ends has the bundle.                   *)
EndsHold == \A d \in LastingData : Out(d) => Has(disk[Source[d]], d) \/ Has(disk[Destination[d]], d)

(* A source that let go of a delivered bundle keeps its ACK, or is about   *)
(* to.                                                                     *)
Closed ==
  \A d \in LastingData : Has(disk[Destination[d]], d) /\ ~Has(disk[Source[d]], d) =>
    HasAckFor(disk[Source[d]], d) \/ \E l \in Lanes : Keeping(Source[d], l, d)

CInv == Sound /\ EndsSound /\ NothingExpired /\ EndsHold /\ Closed

LEMMA NothingExpiredStep ==
  ASSUME CourierConditions, NothingExpired, [Next]_vars
  PROVE  NothingExpired'
BY Expiry, BundleAssumption DEF NothingExpired, LastingData, Expire

----------------------------------------------------------------------------
(* A step changes one file, and there the presence of one id.              *)
LEMMA OneFile ==
  ASSUME Sound, [Next]_vars, NEW n \in Nodes, NEW m \in Nodes,
         disk'[n] # disk[n], disk'[m] # disk[m]
  PROVE  n = m
<1>1. PICK q \in Nodes : \E S : Write(q, S)
  BY OneWrite
<1> QED
  BY <1>1, WriteFile DEF Sound

Flips(n, i) == ~(Has(disk'[n], i) <=> Has(disk[n], i))

LEMMA OneId ==
  ASSUME Sound, [Next]_vars, NEW n \in Nodes,
         NEW i, NEW e, i \notin expired, e \notin expired, Flips(n, i), Flips(n, e)
  PROVE  i = e
<1> DEFINE S == disk[n]
           T == disk'[n]
           Same(g) == Has(T, g) <=> Has(S, g)
<1> SUFFICES \E b : \A g : g # b /\ g \notin expired => Same(g)
  BY DEF Flips
<1>0. S \in SUBSET Bundle
  BY DEF Sound, TypeOK
<1>1. ASSUME NEW b \in Bundle, T = Saved(S, b) \/ T = Updated(S, b) \/ T = Upserted(S, b)
      PROVE  \A g : g # b.id /\ g \notin expired => Same(g)
  <2>1. CASE T = Saved(S, b)
    <3> DEFINE L == Live(S, expired)
    <3>1. \A g : g \notin expired => (Has(L, g) <=> Has(S, g))
      BY DEF Live, Has
    <3>2. T = L \/ T = L \cup {b}
      BY <2>1 DEF Saved, Added
    <3> QED
      BY <3>1, <3>2 DEF Has
  <2>2. CASE T = Updated(S, b)
    BY <1>0, <2>2, UpdatedFacts
  <2> QED
    BY <1>1, <2>1, <2>2 DEF Upserted
<1>2. ASSUME NEW b, T = Without(S, b)
      PROVE  \A g : g # b => Same(g)
  BY <1>2 DEF Without, Has
<1>3. CASE T = S
  BY <1>3
<1>4. CASE \E l \in Lanes : task[n][l] # Idle /\ Writes(task[n][l], S, T)
  <2>1. PICK l \in Lanes : task[n][l] # Idle /\ Writes(task[n][l], S, T)
    BY <1>4
  <2> DEFINE k == task[n][l]
  <2>2. /\ k.stage \in {"save", "deliver", "acknowledge"} => k.id \in Ids
        /\ k.stage \in {"mark", "purge", "keep", "settle"} => k.id \in Ids /\ AckOf[k.id] \in Ids
        /\ k.sent \subseteq Ids
    BY <2>1, JobIds DEF Ids
  <2>3. \/ \E b \in Bundle : T = Saved(S, b) \/ T = Updated(S, b) \/ T = Upserted(S, b)
        \/ T = Without(S, AckOf[k.id])
    BY <2>1, <2>2, RecOf DEF Writes, Status, Ids
  <2> QED
    BY <1>1, <1>2, <2>3
<1> QED
  BY <1>2, <1>3, <1>4, Writers

----------------------------------------------------------------------------
(* The four ways in which the presence of a bundle at its ends can change. *)
LEMMA DestinationKeeps ==
  ASSUME Sound, EndsSound, NothingExpired, [Next]_vars, NEW d \in LastingData,
         Has(disk[Destination[d]], d)
  PROVE  Has(disk'[Destination[d]], d)
<1> DEFINE n == Destination[d]
<1>0. d \in Data /\ d \notin expired
  BY DEF LastingData, NothingExpired
<1>1. PICK x \in disk[n] : x.id = d
  BY DEF Has
<1>2. x \in Bundle /\ x.status = "Delivered"
  BY <1>0, <1>1, RoutingAssumption DEF Sound, TypeOK, EndsSound, OnlyDelivered
<1>3. Held(d)
  BY <1>1, <1>2 DEF Held, Rec, Bundle
<1>4. n \in Nodes
  BY <1>0, RoutingAssumption
<1>5. CASE x \in disk'[n]
  BY <1>1, <1>5 DEF Has
<1>6. CASE x \notin disk'[n]
  BY <1>0, <1>1, <1>3, <1>4, HeldUntilDeliveredStep DEF Has, IdsOf
<1> QED
  BY <1>5, <1>6

LEMMA SourceLetsGo ==
  ASSUME Sound, EndsSound, NothingExpired, [Next]_vars, NEW d \in LastingData,
         Has(disk[Source[d]], d), ~Has(disk'[Source[d]], d)
  PROVE  Has(disk[Destination[d]], d)
<1>0. d \in Data /\ d \notin expired
  BY DEF LastingData, NothingExpired
<1>1. Source[d] \in Nodes
  BY <1>0, RoutingAssumption
<1>2. d \in Data \cap (IdsOf(disk[Source[d]]) \ IdsOf(disk'[Source[d]]))
  BY <1>0 DEF Has, IdsOf
<1> QED
  BY <1>0, <1>1, <1>2, HeldUntilDeliveredStep

(* What puts a DATA bundle into a file that lacks it.                      *)
LEMMA DataArrives ==
  ASSUME Sound, EndsSound, NothingExpired, [Next]_vars, NEW n \in Nodes, NEW d \in LastingData,
         ~Has(disk[n], d), Has(disk'[n], d)
  PROVE  \E l \in Lanes : LET k == task[n][l] IN
           /\ k # Idle /\ k.job = "data" /\ k.id = d
           /\ \/ k.stage = "deliver" /\ n = Destination[d]
              \/ k.stage \in {"save", "forward"} /\ n # Destination[d] /\ ~HasAckFor(disk[n], d)
<1> DEFINE S == disk[n]
<1>1. PICK x \in disk'[n] : x.id = d
  BY DEF Has
<1>2. x \notin S
  BY <1>1 DEF Has
<1>3. PICK l \in Lanes : task[n][l] # Idle /\ Writes(task[n][l], S, disk'[n])
  BY <1>2, Writers DEF Without
<1> DEFINE k == task[n][l]
<1>0. /\ d \in Data /\ d \notin expired /\ d \notin AckIds
      /\ HasAckFor(S, d) => HasAckFor(Live(S, expired), d)
  <2>1. d \in Data /\ d \notin expired
    BY DEF LastingData, NothingExpired
  <2>2. \A a \in AckIds : AckOf[a] = d => a \notin expired
    BY <2>1 DEF EndsSound, AcksOutlive
  <2> QED
    BY <2>1, <2>2, BundleAssumption DEF HasAckFor, Live, IsAck
<1>4. /\ S \in SUBSET Bundle
      /\ JobSound(n, k) /\ k.sent \subseteq Ids
      /\ k.stage \in {"mark", "purge", "keep", "settle"} => k.id \in AckIds /\ AckOf[k.id] \in Ids
      /\ k.stage \in {"save", "deliver"} => k.id \in Data
  BY <1>3, JobIds DEF Ids
<1>5. \A i \in Ids : \A s \in Status : Rec(i, s) \in Bundle /\ Rec(i, s).id = i
  BY RecOf
<1>6. ASSUME NEW b \in Bundle, disk'[n] = Saved(S, b)
      PROVE  b.id = d /\ ~HasAckFor(S, d)
  <2> DEFINE L == Live(S, expired)
  <2>1. L \subseteq S
    BY DEF Live
  <2>2. disk'[n] = L \cup {b} /\ CanSave(L, b)
    BY <1>1, <1>2, <1>6, <2>1 DEF Saved, Added
  <2>3. b = x
    BY <1>1, <1>2, <2>1, <2>2
  <2>4. b.id = d /\ ~IsAck(b)
    BY <1>0, <1>1, <2>3 DEF IsAck
  <2>5. ~HasAckFor(L, d)
    BY <2>2, <2>4 DEF CanSave, Barred
  <2> QED
    BY <1>0, <2>4, <2>5
<1>7. ASSUME NEW b \in Bundle, disk'[n] = Updated(S, b) PROVE FALSE
  BY <1>4, <1>7, UpdatedFacts
<1>8. ASSUME NEW b \in Bundle, disk'[n] = Upserted(S, b)
      PROVE  b.id = d /\ ~HasAckFor(S, d)
  BY <1>6, <1>7, <1>8 DEF Upserted
<1>9. CASE k.stage \in {"save", "deliver"}
  <2>1. k.id = d
    BY <1>0, <1>3, <1>4, <1>5, <1>6, <1>8, <1>9 DEF Writes, Status, Ids
  <2>2. k.stage = "save" => ~HasAckFor(S, d)
    BY <1>3, <1>4, <1>5, <1>6 DEF Writes, Status, Ids
  <2> QED
    BY <1>0, <1>3, <1>4, <1>9, <2>1, <2>2 DEF JobSound, Task
<1>10. CASE k.stage = "forward"
  <2>1. d \in k.sent /\ (k.job = "retry" => Has(S, d)) /\ ~HasAckFor(S, d)
    BY <1>3, <1>4, <1>5, <1>8, <1>10 DEF Writes, Status
  <2>2. k.job = "data" /\ k.id = d
    BY <1>0, <1>4, <2>1 DEF JobSound, Task
  <2> QED
    BY <1>0, <1>3, <1>4, <1>10, <2>1, <2>2 DEF JobSound
<1>11. CASE k.stage = "purge"
  BY <1>1, <1>2, <1>3, <1>11 DEF Writes, Without
<1>12. CASE k.stage \in {"acknowledge", "keep", "settle"}
  BY <1>0, <1>3, <1>4, <1>5, <1>6, <1>8, <1>12 DEF Writes, Status, Ids
<1>13. CASE k.stage = "mark"
  BY <1>3, <1>4, <1>5, <1>7, <1>13 DEF Writes, Status
<1> QED
  BY <1>3, <1>9, <1>10, <1>11, <1>12, <1>13 DEF Writes

LEMMA DeliveredFromHeld ==
  ASSUME CourierConditions, CInv, [Next]_vars, NEW d \in LastingData,
         ~Has(disk[Destination[d]], d), Has(disk'[Destination[d]], d)
  PROVE  Has(disk[Source[d]], d) /\ Has(disk'[Source[d]], d)
<1> DEFINE n == Destination[d]
           s == Source[d]
<1>1. n \in Nodes /\ s \in Nodes /\ n # s
  BY RoutingAssumption DEF CourierConditions, LastingData
<1>2. Out(d)
  BY <1>1, DataArrives DEF CInv, Out
<1>3. Has(disk[s], d)
  BY <1>2 DEF CInv, EndsHold
<1>4. disk'[s] = disk[s]
  BY <1>1, OneFile DEF CInv
<1> QED
  BY <1>3, <1>4

LEMMA SourceStaysClosed ==
  ASSUME CourierConditions, CInv, [Next]_vars, NEW d \in LastingData,
         ~Has(disk[Source[d]], d), Has(disk'[Source[d]], d)
  PROVE  ~Has(disk[Destination[d]], d)
<1> DEFINE s == Source[d]
<1> SUFFICES ASSUME Has(disk[Destination[d]], d) PROVE FALSE
  OBVIOUS
<1>1. s \in Nodes /\ s # Destination[d]
  BY RoutingAssumption DEF CourierConditions, LastingData
<1>2. PICK l \in Lanes : LET k == task[s][l] IN
        k # Idle /\ k.stage \in {"save", "forward"} /\ ~HasAckFor(disk[s], d)
  BY <1>1, DataArrives DEF CInv
<1>3. \A h \in Lanes : ~Keeping(s, h, d)
  BY <1>2 DEF CourierConditions, OneLane, Keeping
<1> QED
  BY <1>2, <1>3 DEF CInv, Closed

----------------------------------------------------------------------------
LEMMA OutFrom ==
  ASSUME Sound, EndsSound, NothingExpired, [Next]_vars, NEW d \in LastingData, Out(d)'
  PROVE  Out(d) \/ Has(disk[Source[d]], d) \/ Has(disk'[Source[d]], d)
<1> DEFINE s == Source[d]
           Done == Out(d) \/ Has(disk[s], d) \/ Has(disk'[s], d)
<1>0. d \in Data /\ d \in Ids /\ d \notin AckIds
  BY BundleAssumption DEF Ids, LastingData
<1>1. ASSUME NEW n \in Nodes, Has(disk'[n], d) PROVE Done
  <2>1. CASE n = s \/ Has(disk[n], d)
    BY <1>1, <2>1 DEF Out
  <2>2. CASE n # s /\ ~Has(disk[n], d)
    BY <1>1, <2>2, DataArrives DEF Out
  <2> QED
    BY <2>1, <2>2
<1>2. ASSUME NEW n \in Nodes, inbox'[n][d] > 0 PROVE Done
  BY <1>0, <1>2, InboxFrom DEF Out
<1>3. ASSUME NEW n \in Nodes, NEW l \in Lanes, task'[n][l] # Idle,
             d \in task'[n][l].offer \/ (n # s /\ d = task'[n][l].id)
      PROVE  Done
  <2> DEFINE k == task[n][l]
             j == task'[n][l]
  <2>1. CASE j = k
    BY <1>3, <2>1 DEF Out
  <2>2. CASE k = Idle /\ Starts(n, j)
    <3>1. CASE j.id = "none" /\ j.offer = Retryable(disk[n])
      <4>1. Has(disk[n], d)
        BY <1>0, <1>3, <3>1, RoutingAssumption DEF Retryable, IdsOf, Has
      <4> QED
        BY <4>1 DEF Out
    <3>2. CASE j.offer = {} /\ d = j.id /\ inbox[n][d] > 0
      BY <3>2 DEF Out
    <3> QED
      BY <1>3, <2>2, <3>1, <3>2 DEF Starts
  <2>3. CASE k # Idle /\ Advances(n, k, j)
    <3>1. CASE d \in k.offer \/ (n # s /\ d = k.id)
      BY <2>3, <3>1 DEF Out
    <3>2. CASE Has(disk'[n], d)
      BY <1>1, <3>2
    <3>3. k.stage = "keep" => k.id \in AckIds
      BY <2>3, JobIds
    <3> QED
      BY <1>0, <1>3, <2>3, <3>1, <3>2, <3>3 DEF Advances, IdsOf, Has
  <2> QED
    BY <1>3, <2>1, <2>2, <2>3, Jobs
<1> QED
  BY <1>1, <1>2, <1>3 DEF Out

LEMMA EndsHoldStep ==
  ASSUME CourierConditions, CInv, [Next]_vars
  PROVE  EndsHold'
<1> SUFFICES ASSUME NEW d \in LastingData, Out(d)'
             PROVE  Has(disk'[Source[d]], d) \/ Has(disk'[Destination[d]], d)
  BY DEF EndsHold
<1>1. CASE Has(disk[Destination[d]], d)
  BY <1>1, DestinationKeeps DEF CInv
<1>2. CASE Has(disk[Source[d]], d)
  BY <1>1, <1>2, SourceLetsGo DEF CInv
<1> QED
  BY <1>1, <1>2, OutFrom DEF CInv, EndsHold

(* The two calls that replace the DATA of a source by its ACK.             *)
LEMMA AtSource ==
  ASSUME OneLane, Sound, [Next]_vars, NEW n \in Nodes, NEW l \in Lanes, ~Crash(n),
         task[n][l] # Idle, task[n][l].stage \in {"purge", "keep"},
         disk'[n] # disk[n] \/ task'[n][l] # task[n][l]
  PROVE  Purge(n, l) \/ Keep(n, l)
<1>0. TypeOK
  BY DEF Sound
<1>1. ASSUME NEW m \in Nodes, NEW h \in Lanes, ~Free(n, l), Free(m, h),
             NEW i \in Ids, Route(m, h, i)
      PROVE  FALSE
  <2>1. m # n
    BY <1>1 DEF OneLane
  <2>2. disk'[n] = disk[n]
    BY <1>0, <1>1, <2>1, WriteFile DEF Route
  <2>3. CASE UNCHANGED task
    BY <2>2, <2>3
  <2>4. CASE \E k : Set(m, h, k)
    BY <1>0, <2>1, <2>2, <2>4, OneTask
  <2> QED
    BY <1>1, <2>3, <2>4 DEF Route
<1>2. ASSUME NEW m \in Nodes, NEW h \in Lanes, Step(m, h) PROVE Purge(n, l) \/ Keep(n, l)
  <2>1. (\E q : Set(m, h, q)) /\ ((\E S : Write(m, S)) \/ UNCHANGED disk)
    <3>1. CASE \E p \in Nodes : Ask(m, h, p)
      BY <3>1 DEF Ask
    <3>2. CASE \E p \in Nodes : \E i \in Ids : Send(m, h, p, i)
      BY <3>2 DEF Send
    <3>3. CASE Save(m, h) \/ Deliver(m, h) \/ Mark(m, h) \/ Purge(m, h) \/ Settle(m, h)
      BY <3>3 DEF Save, Deliver, Mark, Purge, Settle
    <3>4. CASE Acknowledge(m, h) \/ Finish(m, h)
      BY <3>4 DEF Acknowledge, Finish
    <3>5. CASE Keep(m, h)
      BY <3>5 DEF Keep
    <3> QED
      BY <1>2, <3>1, <3>2, <3>3, <3>4, <3>5 DEF Step
  <2>2. m = n
    BY <1>0, <2>1, WriteFile, OneTask
  <2>3. h = l
    BY DEF OneLane
  <2> QED
    BY <1>2, <2>2, <2>3
    DEF Step, Save, Deliver, Acknowledge, Mark, Ask, Send, Settle, Finish, In
<1>3. ASSUME NEW m \in Nodes, NEW h \in Lanes, Retry(m, h) PROVE FALSE
  <2>1. m = n /\ h = l
    BY <1>0, <1>3, OneTask DEF Retry
  <2> QED
    BY <1>3, <2>1 DEF Retry, Free
<1>4. ~Free(n, l)
  BY DEF Free
<1>5. ASSUME NEW m \in Nodes, Crash(m) PROVE FALSE
  <2>1. m # n
    BY <1>5
  <2> QED
    BY <1>0, <1>5, <2>1 DEF Crash, TypeOK
<1> QED
  BY <1>1, <1>2, <1>3, <1>4, <1>5
  DEF Next, vars, CliSend, Handle, Stop, Start, Expire, Ids

LEMMA PurgeKeeps ==
  ASSUME Sound, NEW n \in Nodes, NEW l \in Lanes, Purge(n, l)
  PROVE  LET j == task'[n][l] IN
           j # Idle /\ j.stage = "keep" /\ j.id = task[n][l].id
<1>1. TypeOK /\ task[n][l] # Idle /\ Set(n, l, At(task[n][l], "keep"))
  BY DEF Purge, In, Sound
<1>2. task'[n][l] = At(task[n][l], "keep")
  BY <1>1, SetTask
<1>3. task[n][l] \in Task
  BY <1>1 DEF TypeOK
<1> QED
  BY <1>2, <1>3 DEF At, Task, Idle

LEMMA RoomForPart ==
  ASSUME NEW S, IsFiniteSet(S), NEW L \in SUBSET S, Cardinality(S) < Capacity
  PROVE  Cardinality(L) < Capacity
<1>1. Cardinality(L) \in Nat /\ Cardinality(S) \in Nat /\ Cardinality(L) <= Cardinality(S)
  BY FS_Subset, FS_CardinalityType
<1> QED
  BY <1>1, BundleAssumption

LEMMA KeepKeeps ==
  ASSUME Sound, EndsSound, NothingExpired, RoomAtSources,
         NEW n \in Nodes, NEW l \in Lanes, Keep(n, l),
         NEW d \in LastingData, d = AckOf[task[n][l].id], n = Source[d]
  PROVE  HasAckFor(disk'[n], d)
<1> DEFINE k == task[n][l]
           S == disk[n]
           L == Live(S, expired)
           known == HasAckFor(S, d) \/ Has(S, k.id)
           b == Rec(k.id, "Pending")
<1>1. k # Idle /\ k.stage = "keep"
  BY DEF Keep, In
<1>2. k.id \in AckIds /\ b.id = k.id
  BY <1>1, JobIds DEF Rec
<1>3. disk'[n] = IF known THEN S ELSE Saved(S, b)
  BY WriteFile DEF Keep, Sound
<1>4. CASE known
  BY <1>2, <1>3, <1>4 DEF Has, HasAckFor, IsAck
<1>5. CASE ~known
  <2>1. L \subseteq S /\ IsFiniteSet(S)
    BY DEF Live, EndsSound, FilesFinite
  <2>3. Cardinality(S) < Capacity
    BY <1>2, <1>5 DEF RoomAtSources
  <2>4. Cardinality(L) < Capacity
    BY <2>1, <2>3, RoomForPart
  <2>5. CanSave(L, b)
    BY <1>2, <1>5, <2>1, <2>4 DEF CanSave, Barred, IsAck, Has
  <2>6. b \in disk'[n]
    BY <1>3, <1>5, <2>5 DEF Saved, Added
  <2> QED
    BY <1>2, <2>6 DEF HasAckFor, IsAck
<1> QED
  BY <1>4, <1>5

LEMMA ClosedStep ==
  ASSUME CourierConditions, CInv, RoomAtSources, [Next]_vars, SettlesUnbroken
  PROVE  Closed'
<1> SUFFICES ASSUME NEW d \in LastingData, Has(disk'[Destination[d]], d), ~Has(disk'[Source[d]], d)
             PROVE  HasAckFor(disk'[Source[d]], d) \/
                      \E l \in Lanes : LET j == task'[Source[d]][l] IN
                        j # Idle /\ j.stage = "keep" /\ AckOf[j.id] = d
  BY DEF Closed, Keeping
<1> DEFINE s == Source[d]
<1>0. s \in Nodes /\ d \notin expired
  BY RoutingAssumption DEF LastingData, CInv, NothingExpired
<1>1. Has(disk[Destination[d]], d)
  BY DeliveredFromHeld
<1>2. CASE HasAckFor(disk[s], d)
  <2>1. PICK b \in disk[s] : IsAck(b) /\ AckOf[b.id] = d
    BY <1>2 DEF HasAckFor
  <2>2. b.id \in AckIds \ expired
    BY <1>0, <2>1 DEF CInv, EndsSound, AcksOutlive, IsAck
  <2>3. Has(disk'[s], b.id)
    BY <1>0, <2>1, <2>2, AckStays DEF CInv, Has
  <2> QED
    BY <2>1, <2>3 DEF Has, HasAckFor, IsAck
<1>3. ASSUME NEW l \in Lanes, Keeping(s, l, d), ~HasAckFor(disk[s], d)
      PROVE  HasAckFor(disk'[s], d) \/ Keeping(s, l, d)'
  <2>1. CASE task'[s][l] = task[s][l]
    BY <1>3, <2>1 DEF Keeping
  <2>2. CASE task'[s][l] # task[s][l]
    <3>0. ~Crash(s)
      BY <1>0, <1>3 DEF SettlesUnbroken
    <3>1. Keep(s, l)
      BY <1>0, <1>3, <2>2, <3>0, AtSource DEF CInv, CourierConditions, Keeping, Purge, In
    <3> QED
      BY <1>0, <1>3, <3>1, KeepKeeps DEF CInv, Keeping
  <2> QED
    BY <2>1, <2>2
<1>4. CASE Has(disk[s], d)
  <2>1. PICK x \in disk[s] : x.id = d
    BY <1>4 DEF Has
  <2>2. x \notin disk'[s]
    BY <2>1 DEF Has
  <2>3. PICK l \in Lanes : task[s][l] # Idle /\ Drops(s, task[s][l], x)
    BY <1>0, <2>2, <2>1, GoneRecords DEF CInv
  <2>4. task[s][l].stage = "purge" /\ AckOf[task[s][l].id] = d
    BY <2>1, <2>3 DEF Drops, Has, Rec
  <2>5. Purge(s, l)
    <3>1. ~Crash(s)
      BY <2>2 DEF Crash
    <3> QED
      BY <1>0, <2>2, <2>3, <3>1, <2>4, AtSource DEF CInv, CourierConditions, Keep, In
  <2> QED
    BY <1>0, <2>4, <2>5, PurgeKeeps DEF CInv
<1> QED
  BY <1>1, <1>2, <1>3, <1>4 DEF CInv, Closed, Keeping

----------------------------------------------------------------------------
LEMMA CInvStep ==
  ASSUME CourierConditions
  PROVE  CInv /\ Room /\ [Next]_vars /\ SettlesUnbroken => CInv'
BY SoundStep, EndsSoundStep, NothingExpiredStep, EndsHoldStep, ClosedStep DEF CInv, Room

LEMMA CInvInit == Init => CInv /\ Lasting!Init
<1> SUFFICES ASSUME Init PROVE CInv /\ Lasting!Init
  OBVIOUS
<1>1. /\ \A n \in Nodes : disk[n] = {} /\ \A i \in Ids : inbox[n][i] = 0
      /\ \A n \in Nodes, l \in Lanes : task[n][l] = Idle
      /\ \A d \in LastingData : Source[d] \in Nodes /\ Destination[d] \in Nodes /\ d \in Ids
  BY RoutingAssumption DEF Init, Ids, LastingData
<1>2. NothingExpired /\ EndsHold /\ Closed
  BY <1>1 DEF Init, NothingExpired, EndsHold, Out, Closed, Has
<1>3. Lasting!Init
  BY <1>1 DEF Lasting!Init, LastingProgress, Has
<1> QED
  BY <1>2, <1>3, EndsSoundInit DEF CInv

(* What one bundle does while another one, or none, changes its stage.     *)
Still(d) == ~Flips(Source[d], d) /\ ~Flips(Destination[d], d)

LEMMA StillProgress ==
  ASSUME NEW d \in LastingData, Still(d)
  PROVE  LastingProgress'[d] = LastingProgress[d]
BY DEF Still, Flips, LastingProgress

LEMMA OthersAreStill ==
  ASSUME CourierConditions, CInv, [Next]_vars, NEW d \in LastingData, ~Still(d),
         NEW e \in LastingData, e # d
  PROVE  Still(e)
<1>1. \A c \in LastingData :
      /\ Source[c] \in Nodes /\ Destination[c] \in Nodes
      /\ c \notin expired
  BY RoutingAssumption DEF LastingData, CInv, NothingExpired
<1>2. PICK n \in Nodes : Flips(n, d)
  BY <1>1 DEF Still
<1>3. ASSUME NEW m \in Nodes, Flips(m, e) PROVE FALSE
  <2>1. m = n
    BY <1>2, <1>3, OneFile DEF CInv, Flips
  <2> QED
    BY <1>1, <1>2, <1>3, <2>1, OneId DEF CInv
<1> QED
  BY <1>1, <1>3 DEF Still

LEMMA CourierMoves ==
  ASSUME CourierConditions, CInv, [Next]_vars, NEW d \in LastingData, ~Still(d)
  PROVE  \/ LastingProgress[d] = "unsent" /\ LastingProgress'[d] = "held"
         \/ LastingProgress[d] = "held" /\ LastingProgress'[d] = "delivered"
         \/ LastingProgress[d] = "delivered" /\ LastingProgress'[d] = "confirmed"
<1> DEFINE s == Source[d]
           n == Destination[d]
<1>1. s \in Nodes /\ n \in Nodes /\ s # n
  BY RoutingAssumption DEF CourierConditions, LastingData
<1>2. CASE Flips(n, d)
  <2>1. ~Has(disk[n], d) /\ Has(disk'[n], d)
    BY <1>2, DestinationKeeps DEF CInv, Flips
  <2>2. Has(disk[s], d) /\ Has(disk'[s], d)
    BY <2>1, DeliveredFromHeld
  <2> QED
    BY <2>1, <2>2 DEF LastingProgress
<1>3. CASE Flips(s, d)
  <2>1. disk'[n] = disk[n]
    BY <1>1, <1>3, OneFile DEF CInv, Flips
  <2>2. CASE Has(disk[s], d)
    <3>1. ~Has(disk'[s], d) /\ Has(disk[n], d)
      BY <1>3, <2>2, SourceLetsGo DEF CInv, Flips
    <3> QED
      BY <2>1, <2>2, <3>1 DEF LastingProgress
  <2>3. CASE ~Has(disk[s], d)
    <3>1. Has(disk'[s], d) /\ ~Has(disk[n], d)
      BY <1>3, <2>3, SourceStaysClosed DEF Flips
    <3> QED
      BY <2>1, <2>3, <3>1 DEF LastingProgress
  <2> QED
    BY <2>2, <2>3
<1> QED
  BY <1>2, <1>3 DEF Still

LEMMA CourierStep ==
  ASSUME CourierConditions, CInv, [Next]_vars
  PROVE  [Lasting!Next]_LastingProgress
<1>0. /\ DOMAIN LastingProgress = LastingData /\ DOMAIN LastingProgress' = LastingData
      /\ LastingProgress = [e \in LastingData |-> LastingProgress[e]]
      /\ LastingProgress' = [e \in LastingData |-> LastingProgress'[e]]
  BY DEF LastingProgress
<1>1. CASE \A d \in LastingData : Still(d)
  BY <1>0, <1>1, StillProgress
<1>2. ASSUME NEW d \in LastingData, ~Still(d) PROVE Lasting!Next
  <2>1. \A e \in LastingData : e # d => LastingProgress'[e] = LastingProgress[e]
    BY <1>2, OthersAreStill, StillProgress
  <2>2. LastingProgress' = [LastingProgress EXCEPT ![d] = LastingProgress'[d]]
    BY <1>0, <2>1
  <2> QED
    BY <1>2, <2>2, CourierMoves
    DEF Lasting!Next, Lasting!Accept, Lasting!Deliver, Lasting!Confirm, Lasting!Moves
<1> QED
  BY <1>1, <1>2

(* With one job at a time, room for a bundle at its destination and for    *)
(* its ACK at its source, and no source dying between the delete of a      *)
(* delivered bundle and the save of its ACK: whatever else crashes, is     *)
(* lost, stopped or expires, the bundles that do not expire themselves are *)
(* accepted, delivered and confirmed once each and in this order, and      *)
(* their source lets go of them only when they are delivered               *)
(* (route_bundle, handle_incoming_ack, retry_unsynced_bundles).            *)
THEOREM LastingBundlesAreCarried ==
  ASSUME CourierConditions
  PROVE  Spec /\ []Room /\ [][SettlesUnbroken]_vars => Lasting!Spec
<1>1. Room => RoomAtEnds
  BY DEF Room
<1>2. CInv /\ [Next]_vars => [Lasting!Next]_LastingProgress
  BY CourierStep
<1>3. CInv /\ Room /\ [Next]_vars /\ [SettlesUnbroken]_vars => CInv'
  <2>1. UNCHANGED vars => SettlesUnbroken
    BY DEF vars, Crash, SettlesUnbroken
  <2> QED
    BY <2>1, CInvStep
<1> QED
  BY <1>1, <1>2, <1>3, CInvInit, PTL DEF Spec, Lasting!Spec

(* Where nothing expires, that is every bundle: the network implements     *)
(* Courier, or ImplementsCourier without its fairness.                     *)
THEOREM RefinesCourier ==
  ASSUME CourierConditions, MayExpire = {}
  PROVE  Spec /\ []Room /\ [][SettlesUnbroken]_vars => Ends!Spec
<1>1. LastingData = Data
  BY DEF LastingData
<1>2. LastingProgress = Progress /\ LastingProgress' = Progress'
  BY <1>1 DEF LastingProgress, Progress
<1>3. Lasting!Init => Ends!Init
  BY <1>1, <1>2 DEF Lasting!Init, Ends!Init
<1>4. [Lasting!Next]_LastingProgress => [Ends!Next]_Progress
  BY <1>1, <1>2
  DEF Lasting!Next, Lasting!Accept, Lasting!Deliver, Lasting!Confirm, Lasting!Moves,
      Ends!Next, Ends!Accept, Ends!Deliver, Ends!Confirm, Ends!Moves
<1> QED
  BY <1>3, <1>4, LastingBundlesAreCarried, PTL DEF Lasting!Spec, Ends!Spec

==============================================================================
