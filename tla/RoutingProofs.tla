---------------------------- MODULE RoutingProofs ----------------------------
(***************************************************************************)
(* Theorems about the network of routing engines, for every set of nodes,  *)
(* bundles and peers, any number of faults of every kind and any number of *)
(* copies on the way.                                                      *)
(***************************************************************************)
EXTENDS Routing, FiniteSetTheorems, TLAPS

(* A node does one job at a time.                                          *)
OneLane == \A l, m \in Lanes : l = m

(* The destination of a DATA bundle has it or could take it, as long as it *)
(* is not expired.                                                         *)
RoomAtEnds ==
  \A d \in Data \ expired :
    Has(disk[Destination[d]], d) \/ Cardinality(disk[Destination[d]]) < Capacity

----------------------------------------------------------------------------
(* What is true of a job of node n whatever the files hold.                *)
JobSound(n, k) ==
  /\ k \in Task
  /\ k.job = "data" =>
       k.id \in Data /\ k.stage \in {"save", "deliver", "acknowledge", "forward"}
  /\ k.job = "ack" =>
       k.id \in AckIds /\ k.stage \in {"mark", "purge", "keep", "settle", "forward"}
  /\ k.job = "retry" => k.stage = "forward"
  /\ k.stage \in {"deliver", "acknowledge"} <=> k.job = "data" /\ n = Destination[k.id]
  /\ \A p \in Nodes, i \in Ids : <<p, i>> \in k.out => i \in k.offer
  /\ k.sent \subseteq IF k.job = "data" THEN {k.id} ELSE k.offer
  /\ k.job = "ack" => k.offer \subseteq {k.id}
  /\ k.stage # "forward" => k.offer = {} /\ k.sent = {}

JobsSound ==
  \A n \in Nodes, l \in Lanes : task[n][l] # Idle => JobSound(n, task[n][l])

Sound == TypeOK /\ JobsSound

----------------------------------------------------------------------------
(* Files and jobs after a step.                                            *)
LEMMA WriteFile ==
  ASSUME TypeOK, NEW n \in Nodes, NEW S, Write(n, S)
  PROVE  /\ \A m \in Nodes : disk'[m] = IF m = n THEN S ELSE disk[m]
         /\ S \in SUBSET Bundle => disk' \in [Nodes -> SUBSET Bundle]
BY DEF TypeOK, Write

LEMMA SetTask ==
  ASSUME TypeOK, NEW n \in Nodes, NEW l \in Lanes, NEW k, Set(n, l, k)
  PROVE  /\ \A m \in Nodes, j \in Lanes :
              task'[m][j] = IF m = n /\ j = l THEN k ELSE task[m][j]
         /\ k \in Task \cup {Idle} => task' \in [Nodes -> [Lanes -> Task \cup {Idle}]]
BY DEF TypeOK, Set

(* The storage calls: what they may put into a file, and what they keep.   *)
LEMMA SavedFacts ==
  ASSUME NEW S \in SUBSET Bundle, NEW b \in Bundle
  PROVE  /\ Saved(S, b) \in SUBSET Bundle
         /\ Live(S, expired) \subseteq Saved(S, b)
         /\ Saved(S, b) \subseteq Live(S, expired) \cup {b}
         /\ Saved(S, b) # Live(S, expired) => CanSave(Live(S, expired), b)
BY DEF Saved, Added, Live

LEMMA UpdatedFacts ==
  ASSUME NEW S \in SUBSET Bundle, NEW b \in Bundle
  PROVE  /\ Updated(S, b) \in SUBSET Bundle
         /\ \A x \in S : x.id # b.id => x \in Updated(S, b)
         /\ Updated(S, b) \subseteq S \cup {b}
         /\ \A i : Has(Updated(S, b), i) <=> Has(S, i)
<1>1. CASE CanUpdate(S, b)
  <2>1. Updated(S, b) = {IF x.id = b.id THEN b ELSE x : x \in S}
    BY <1>1 DEF Updated, Replaced
  <2>2. \A x \in S : (IF x.id = b.id THEN b ELSE x).id = x.id
    OBVIOUS
  <2>3. ASSUME NEW i PROVE Has(Updated(S, b), i) <=> Has(S, i)
    BY <2>1, <2>2 DEF Has
  <2> QED
    BY <2>1, <2>3
<1>2. CASE ~CanUpdate(S, b)
  BY <1>2 DEF Updated
<1> QED
  BY <1>1, <1>2

LEMMA UpsertedFacts ==
  ASSUME NEW S \in SUBSET Bundle, NEW b \in Bundle
  PROVE  /\ Upserted(S, b) \in SUBSET Bundle
         /\ \A x \in Live(S, expired) : x.id # b.id => x \in Upserted(S, b)
         /\ Upserted(S, b) \subseteq S \cup {b}
         /\ \A i : Has(Live(S, expired), i) => Has(Upserted(S, b), i)
         /\ ~Has(S, b.id) => Upserted(S, b) = Saved(S, b)
         /\ Has(S, b.id) => \A i : Has(Upserted(S, b), i) <=> Has(S, i)
<1>1. CASE Has(S, b.id)
  <2>1. Upserted(S, b) = Updated(S, b)
    BY <1>1 DEF Upserted
  <2>2. \A i : Has(Live(S, expired), i) => Has(S, i)
    BY DEF Has, Live
  <2>3. Live(S, expired) \subseteq S
    BY DEF Live
  <2> QED
    BY <1>1, <2>1, <2>2, <2>3, UpdatedFacts
<1>2. CASE ~Has(S, b.id)
  <2>1. Upserted(S, b) = Saved(S, b)
    BY <1>2 DEF Upserted
  <2>2. \A i : Has(Live(S, expired), i) => Has(Saved(S, b), i)
    BY SavedFacts DEF Has
  <2>3. Live(S, expired) \subseteq S
    BY DEF Live
  <2> QED
    BY <1>2, <2>1, <2>2, <2>3, SavedFacts
<1> QED
  BY <1>1, <1>2

LEMMA CallsAddOne ==
  ASSUME NEW S \in SUBSET Bundle, NEW b \in Bundle
  PROVE  /\ Saved(S, b) \subseteq S \cup {b}
         /\ Updated(S, b) \subseteq S \cup {b}
         /\ Upserted(S, b) \subseteq S \cup {b}
<1>1. Live(S, expired) \subseteq S
  BY DEF Live
<1> QED
  BY <1>1, SavedFacts, UpdatedFacts, UpsertedFacts

LEMMA CallTypes ==
  ASSUME NEW S \in SUBSET Bundle, NEW b \in Bundle
  PROVE  /\ Saved(S, b) \in SUBSET Bundle
         /\ Updated(S, b) \in SUBSET Bundle
         /\ Upserted(S, b) \in SUBSET Bundle
BY SavedFacts, UpdatedFacts, UpsertedFacts

----------------------------------------------------------------------------
LEMMA SoundMoved ==
  ASSUME Sound, NEW n \in Nodes, NEW l \in Lanes, NEW k, k = Idle \/ JobSound(n, k),
         Set(n, l, k),
         disk' \in [Nodes -> SUBSET Bundle], fresh' \subseteq Ids,
         inbox' \in [Nodes -> [Ids -> 0..MaxCopies]], spent' \in 0..MaxFaults,
         UNCHANGED <<expired, alive, online>>
  PROVE  Sound'
<1>1. k \in Task \cup {Idle}
  BY DEF JobSound
<1>2. TypeOK'
  BY <1>1, SetTask DEF Sound, TypeOK
<1>3. JobsSound'
  BY SetTask DEF Sound, JobsSound
<1> QED
  BY <1>2, <1>3 DEF Sound

LEMMA SoundCall ==
  ASSUME Sound, NEW n \in Nodes, NEW l \in Lanes, NEW k, k = Idle \/ JobSound(n, k),
         Set(n, l, k), NEW S \in SUBSET Bundle, Write(n, S), fresh' \subseteq Ids,
         UNCHANGED <<expired, alive, online, inbox, spent>>
  PROVE  Sound'
<1>1. disk' \in [Nodes -> SUBSET Bundle]
  BY WriteFile DEF Sound
<1>2. inbox' \in [Nodes -> [Ids -> 0..MaxCopies]] /\ spent' \in 0..MaxFaults
  BY DEF Sound, TypeOK
<1> QED
  BY <1>1, <1>2, SoundMoved

LEMMA RecOf ==
  ASSUME NEW i \in Ids, NEW s \in Status
  PROVE  Rec(i, s) \in Bundle /\ Rec(i, s).id = i /\ Rec(i, s).status = s
BY DEF Rec, Bundle

LEMMA RouteSound ==
  ASSUME Sound, NEW n \in Nodes, NEW l \in Lanes, NEW i \in Ids, Route(n, l, i),
         fresh' \subseteq Ids, inbox' \in [Nodes -> [Ids -> 0..MaxCopies]],
         UNCHANGED <<expired, alive, online>>
  PROVE  Sound'
<1>1. CASE i \in Data \cap expired /\ Write(n, Without(disk[n], i)) /\ UNCHANGED <<task, spent>>
  <2>1. Without(disk[n], i) \in SUBSET Bundle
    BY DEF Sound, TypeOK, Without
  <2> QED
    BY <1>1, <2>1, WriteFile DEF Sound, TypeOK, JobsSound
<1>2. CASE i \notin Data \cap expired /\ UNCHANGED disk
  <2>1. PICK peers \in SUBSET Nodes :
          /\ Lookup(n, Peers[n] \cup {Origin(i)}, peers)
          /\ Set(n, l, [job |-> IF i \in Data THEN "data" ELSE "ack", id |-> i,
                        stage |-> IF i \in AckIds THEN "mark"
                                  ELSE IF n = To(i) THEN "deliver" ELSE "save",
                        todo |-> peers, offer |-> {}, out |-> {}, sent |-> {}])
    BY <1>2 DEF Route
  <2> DEFINE k == [job |-> IF i \in Data THEN "data" ELSE "ack", id |-> i,
                   stage |-> IF i \in AckIds THEN "mark"
                             ELSE IF n = To(i) THEN "deliver" ELSE "save",
                   todo |-> peers, offer |-> {}, out |-> {}, sent |-> {}]
  <2>2. JobSound(n, k)
    BY BundleAssumption DEF JobSound, Task, Stages, Ids, To
  <2>3. spent' \in 0..MaxFaults
    BY <2>1, RoutingAssumption DEF Lookup, Fault, Sound, TypeOK
  <2> QED
    BY <1>2, <2>1, <2>2, <2>3, SoundMoved DEF Sound, TypeOK
<1> QED
  BY <1>1, <1>2 DEF Route

LEMMA CallsSound ==
  ASSUME Sound, NEW n \in Nodes, NEW l \in Lanes,
         Save(n, l) \/ Deliver(n, l) \/ Acknowledge(n, l) \/ Finish(n, l)
  PROVE  Sound'
<1> DEFINE k == task[n][l]
<1> USE DEF Sound, TypeOK
<1>1. /\ k # Idle /\ JobSound(n, k) /\ k.id \in Ids \cup {"none"}
      /\ UNCHANGED <<expired, alive, online, inbox, spent>>
  BY DEF JobsSound, In, Local, Save, Deliver, Acknowledge, Finish, JobSound, Task
<1>0. disk[n] \in SUBSET Bundle /\ fresh \subseteq Ids
  BY DEF Sound, TypeOK
<1>2. CASE Save(n, l)
  <2> DEFINE S == Saved(disk[n], Rec(k.id, "Pending"))
  <2>1. k.stage = "save" /\ k.job = "data" /\ k.id \in Data
    BY <1>1, <1>2 DEF Save, In, JobSound, Task
  <2>2. Rec(k.id, "Pending") \in Bundle
    BY <2>1 DEF Rec, Bundle, Status, Ids
  <2>3. S \in SUBSET Bundle
    BY <1>0, <2>2, CallTypes, Zenon
  <2>4. IdsOf({b \in S : b.status = "Pending"}) \subseteq Ids
    BY <2>3 DEF IdsOf, Bundle
  <2>5. JobSound(n, [At(k, "forward") EXCEPT !.offer = IdsOf({b \in S : b.status = "Pending"})])
    BY <1>1, <2>1, <2>4 DEF JobSound, Task, Stages, At
  <2> QED
    BY <1>0, <1>1, <1>2, <2>3, <2>5, SoundCall DEF Save
<1>3. CASE Deliver(n, l)
  <2>1. k.stage = "deliver" /\ k.job = "data" /\ k.id \in Data
    BY <1>1, <1>3 DEF Deliver, In, JobSound, Task
  <2>2. Rec(k.id, "Delivered") \in Bundle
    BY <2>1 DEF Rec, Bundle, Status, Ids
  <2>3. JobSound(n, At(k, "acknowledge"))
    BY <1>1, <2>1 DEF JobSound, Task, Stages, At
  <2> QED
    BY <1>0, <1>1, <1>3, <2>2, <2>3, CallTypes, SoundCall DEF Deliver
<1>4. CASE Acknowledge(n, l)
  <2>1. PICK a \in fresh \cap AckIds :
          /\ AckOf[a] = k.id /\ fresh' = fresh \ {a}
          /\ Write(n, Saved(disk[n], Rec(a, "Pending")))
          /\ Set(n, l, IF Has(Saved(disk[n], Rec(a, "Pending")), a)
                       THEN [At(k, "forward") EXCEPT !.job = "ack", !.id = a, !.offer = {a}]
                       ELSE Idle)
    BY <1>4 DEF Acknowledge
  <2>2. Rec(a, "Pending") \in Bundle
    BY DEF Rec, Bundle, Status, Ids
  <2>3. JobSound(n, [At(k, "forward") EXCEPT !.job = "ack", !.id = a, !.offer = {a}])
    <3>1. k.stage = "acknowledge" /\ k.sent = {} /\ k \in Task
      BY <1>1, <1>4 DEF Acknowledge, In, JobSound
    <3>2. \A p \in Nodes, i \in Ids : <<p, i>> \notin k.out
      BY <1>1, <3>1 DEF JobSound
    <3> QED
      BY <3>1, <3>2 DEF JobSound, Task, Stages, At, Ids
  <2> QED
    BY <1>0, <1>1, <2>1, <2>2, <2>3, CallTypes, SoundCall
<1>5. CASE Finish(n, l)
  <2>1. CASE k.sent = {} /\ Set(n, l, Idle) /\ UNCHANGED disk
    BY <1>1, <1>5, <2>1, SoundMoved DEF Finish
  <2>2. CASE \E i \in k.sent :
               /\ Write(n, IF k.job = "retry" /\ ~Has(disk[n], i) THEN disk[n]
                           ELSE Upserted(disk[n], Rec(i, "InTransit")))
               /\ Set(n, l, IF k.sent = {i} THEN Idle ELSE [k EXCEPT !.sent = @ \ {i}])
    <3>1. PICK i \in k.sent :
               /\ Write(n, IF k.job = "retry" /\ ~Has(disk[n], i) THEN disk[n]
                           ELSE Upserted(disk[n], Rec(i, "InTransit")))
               /\ Set(n, l, IF k.sent = {i} THEN Idle ELSE [k EXCEPT !.sent = @ \ {i}])
      BY <2>2
    <3>2. Rec(i, "InTransit") \in Bundle
      BY <1>1 DEF JobSound, Task, Rec, Bundle, Status, Ids
    <3>3. k.stage = "forward"
      BY <1>5 DEF Finish, In
    <3>4. JobSound(n, [k EXCEPT !.sent = @ \ {i}])
      BY <1>1, <3>3 DEF JobSound, Task
    <3> QED
      BY <1>0, <1>1, <1>5, <3>1, <3>2, <3>4, CallTypes, SoundCall DEF Finish
  <2> QED
    BY <1>5, <2>1, <2>2 DEF Finish
<1> QED
  BY <1>2, <1>3, <1>4, <1>5

LEMMA AckCallsSound ==
  ASSUME Sound, NEW n \in Nodes, NEW l \in Lanes,
         Mark(n, l) \/ Purge(n, l) \/ Keep(n, l) \/ Settle(n, l)
  PROVE  Sound'
<1> DEFINE k == task[n][l]
           d == AckOf[k.id]
<1> USE DEF Sound, TypeOK
<1>1. /\ k # Idle /\ JobSound(n, k)
      /\ UNCHANGED <<expired, alive, online, inbox, spent, fresh>>
      /\ k.job = "ack" /\ k.id \in AckIds
      /\ k.stage \in {"mark", "purge", "keep", "settle"}
  BY DEF JobsSound, In, Local, Mark, Purge, Keep, Settle, JobSound, Task
<1>2. /\ d \in Data
      /\ \A s \in Status : Rec(d, s) \in Bundle /\ Rec(k.id, s) \in Bundle
  BY <1>1, BundleAssumption DEF Rec, Bundle, Ids
<1>3. ASSUME NEW stage \in {"purge", "keep", "settle", "forward"}
      PROVE  /\ JobSound(n, At(k, stage))
             /\ stage = "forward" => JobSound(n, [At(k, stage) EXCEPT !.offer = {k.id}])
  <2>1. JobSound(n, At(k, stage))
    BY <1>1 DEF JobSound, Task, Stages, At
  <2>2. ASSUME stage = "forward" PROVE JobSound(n, [At(k, stage) EXCEPT !.offer = {k.id}])
    BY <1>1, <2>2 DEF JobSound, Task, Stages, At, Ids
  <2> QED
    BY <2>1, <2>2
<1>0. disk[n] \in SUBSET Bundle /\ fresh \subseteq Ids
  BY DEF Sound, TypeOK
<1>4. CASE Mark(n, l)
  <2>1. Updated(disk[n], Rec(d, "Delivered")) \in SUBSET Bundle
    BY <1>0, <1>2, CallTypes DEF Status
  <2> QED
    BY <1>0, <1>1, <1>3, <1>4, <2>1, SoundCall DEF Mark
<1>5. CASE Purge(n, l)
  <2>1. Without(disk[n], d) \in SUBSET Bundle
    BY DEF Without
  <2> QED
    BY <1>0, <1>1, <1>3, <1>5, <2>1, SoundCall DEF Purge
<1>6. CASE Keep(n, l)
  <2> DEFINE known == HasAckFor(disk[n], d) \/ Has(disk[n], k.id)
             S == IF known THEN disk[n] ELSE Saved(disk[n], Rec(k.id, "Pending"))
  <2>1. S \in SUBSET Bundle
    BY <1>0, <1>2, CallTypes DEF Status
  <2> HIDE DEF S, known
  <2>2. /\ Write(n, S)
        /\ Set(n, l, IF n = To(k.id) THEN At(k, "settle")
                     ELSE IF ~known /\ Has(S, k.id)
                          THEN [At(k, "forward") EXCEPT !.offer = {k.id}]
                          ELSE Idle)
    BY <1>6 DEF Keep, S, known
  <2> QED
    BY <1>0, <1>1, <1>3, <2>1, <2>2, SoundCall
<1>7. CASE Settle(n, l)
  <2>1. Upserted(disk[n], Rec(k.id, "Delivered")) \in SUBSET Bundle
    BY <1>0, <1>2, CallTypes DEF Status
  <2> QED
    BY <1>0, <1>1, <1>7, <2>1, SoundCall DEF Settle
<1> QED
  BY <1>4, <1>5, <1>6, <1>7

(* A job after one of its sends.                                           *)
LEMMA JobSends ==
  ASSUME NEW k \in Task, NEW e, NEW more \in SUBSET Ids
  PROVE  [k EXCEPT !.out = @ \ {e}, !.sent = @ \cup more] \in Task
BY DEF Task

(* The waiting copies of one bundle at one node change.                    *)
LEMMA CountOne ==
  ASSUME NEW box \in [Nodes -> [Ids -> 0..MaxCopies]], NEW p \in Nodes, NEW i \in Ids,
         NEW c \in 0..MaxCopies
  PROVE  [box EXCEPT ![p][i] = c] \in [Nodes -> [Ids -> 0..MaxCopies]]
<1> DEFINE Rows == [Ids -> 0..MaxCopies]
           row == [box[p] EXCEPT ![i] = c]
<1>1. row \in Rows
  OBVIOUS
<1>2. [box EXCEPT ![p][i] = c] = [box EXCEPT ![p] = row]
  OBVIOUS
<1> HIDE DEF row
<1>3. [box EXCEPT ![p] = row] \in [Nodes -> Rows]
  BY <1>1
<1> QED
  BY <1>2, <1>3

LEMMA SoundStep == Sound /\ [Next]_vars => Sound'
<1> SUFFICES ASSUME Sound, [Next]_vars PROVE Sound'
  OBVIOUS
<1> USE DEF Sound, TypeOK
<1>1. ASSUME NEW n \in Nodes, NEW l \in Lanes, NEW d \in Data, CliSend(n, l, d) PROVE Sound'
  BY <1>1, RouteSound DEF CliSend, Ids
<1>2. ASSUME NEW n \in Nodes, NEW l \in Lanes, NEW i \in Ids, Handle(n, l, i) PROVE Sound'
  <2>1. inbox' \in [Nodes -> [Ids -> 0..MaxCopies]]
    BY <1>2, RoutingAssumption DEF Handle
  <2>2. CASE Has(disk[n], i) /\ UNCHANGED <<disk, task, spent>>
    BY <1>2, <2>1, <2>2 DEF Handle, JobsSound
  <2>3. CASE Route(n, l, i)
    BY <1>2, <2>1, <2>3, RouteSound DEF Handle
  <2> QED
    BY <1>2, <2>2, <2>3 DEF Handle
<1>3. ASSUME NEW n \in Nodes, NEW l \in Lanes, Retry(n, l) PROVE Sound'
  <2> DEFINE k == [job |-> "retry", id |-> "none", stage |-> "forward",
                   todo |-> Connected(n, Peers[n]), offer |-> Retryable(disk[n]),
                   out |-> {}, sent |-> {}]
  <2>1. Connected(n, Peers[n]) \subseteq Nodes
    BY DEF Connected
  <2>2. Retryable(disk[n]) \subseteq Ids
    BY DEF Retryable, IdsOf, Bundle
  <2>3. JobSound(n, k)
    BY <2>1, <2>2 DEF JobSound, Task, Stages
  <2> QED
    BY <1>3, <2>3, SoundMoved DEF Retry
<1>4. ASSUME NEW n \in Nodes, NEW l \in Lanes, NEW p \in Nodes, Ask(n, l, p) PROVE Sound'
  <2> DEFINE k == task[n][l]
  <2>1. k # Idle /\ k.stage = "forward" /\ JobSound(n, k)
    BY <1>4 DEF Ask, In, JobsSound
  <2>0. spent' \in 0..MaxFaults
    BY <1>4, RoutingAssumption DEF Ask, Fault
  <2>2. PICK has \in SUBSET Ids :
          /\ Set(n, l, [k EXCEPT !.todo = @ \ {p}, !.out = @ \cup ({p} \X (k.offer \ has))])
    BY <1>4 DEF Ask
  <2> DEFINE more == [k EXCEPT !.todo = @ \ {p}, !.out = @ \cup ({p} \X (k.offer \ has))]
  <2>3. more \in Task
    BY <2>1 DEF JobSound, Task
  <2>4. JobSound(n, more)
    BY <2>1, <2>3 DEF JobSound, Task
  <2> QED
    BY <1>4, <2>0, <2>2, <2>4, SoundMoved DEF Ask
<1>5. ASSUME NEW n \in Nodes, NEW l \in Lanes, NEW p \in Nodes, NEW i \in Ids, Send(n, l, p, i)
      PROVE  Sound'
  <2> DEFINE k == task[n][l]
             after(ok) == [k EXCEPT !.out = @ \ {<<p, i>>},
               !.sent = @ \cup (IF k.job = "data" THEN {k.id} ELSE IF ok THEN {i} ELSE {})]
  <2>1. k # Idle /\ k.stage = "forward" /\ JobSound(n, k) /\ <<p, i>> \in k.out
    BY <1>5 DEF Send, In, JobsSound
  <2>2. PICK ok \in BOOLEAN : Set(n, l, after(ok))
    BY <1>5 DEF Send
  <2>3. spent' \in 0..MaxFaults
    BY <1>5, RoutingAssumption DEF Send, Fault
  <2>6. inbox' \in [Nodes -> [Ids -> 0..MaxCopies]]
    <3> DEFINE c == IF inbox[p][i] < MaxCopies THEN inbox[p][i] + 1 ELSE inbox[p][i]
    <3>1. \/ inbox' = inbox
          \/ inbox' = [inbox EXCEPT ![p][i] = c]
      BY <1>5 DEF Send
    <3>2. inbox \in [Nodes -> [Ids -> 0..MaxCopies]] /\ inbox[p][i] \in 0..MaxCopies
      OBVIOUS
    <3>3. c \in 0..MaxCopies
      BY <3>2, RoutingAssumption
    <3> HIDE DEF c
    <3>4. [inbox EXCEPT ![p][i] = c] \in [Nodes -> [Ids -> 0..MaxCopies]]
      BY <3>2, <3>3, CountOne
    <3>5. CASE inbox' = inbox
      BY <3>2, <3>5
    <3>6. CASE inbox' = [inbox EXCEPT ![p][i] = c]
      BY <3>4, <3>6
    <3> QED
      BY <3>1, <3>5, <3>6
  <2>4. after(ok) \in Task
    <3> DEFINE more == IF k.job = "data" THEN {k.id} ELSE IF ok THEN {i} ELSE {}
    <3>1. k \in Task /\ i \in Ids /\ (k.job = "data" => k.id \in Ids)
      BY <2>1 DEF JobSound, Ids
    <3>2. more \subseteq Ids
      BY <3>1
    <3>3. after(ok) = [k EXCEPT !.out = @ \ {<<p, i>>}, !.sent = @ \cup more]
      OBVIOUS
    <3> HIDE DEF more, k
    <3>4. [k EXCEPT !.out = @ \ {<<p, i>>}, !.sent = @ \cup more] \in Task
      BY <3>1, <3>2, JobSends
    <3> QED
      BY <3>3, <3>4
  <2>5. JobSound(n, after(ok))
    BY <2>1, <2>4 DEF JobSound, Task
  <2> QED
    BY <1>5, <2>2, <2>3, <2>5, <2>6, SoundMoved DEF Send
<1>6. ASSUME NEW n \in Nodes, Stop(n) \/ Crash(n) \/ Start(n) PROVE Sound'
  <2>1. spent' \in 0..MaxFaults /\ alive' \subseteq Nodes /\ online' \subseteq alive'
    BY <1>6, RoutingAssumption DEF Stop, Crash, Start, Fault
  <2>2. inbox' \in [Nodes -> [Ids -> 0..MaxCopies]]
    BY <1>6, RoutingAssumption DEF Stop, Crash, Start
  <2>3. \A m \in Nodes, l \in Lanes : task'[m][l] \in {Idle, task[m][l]}
    BY <1>6 DEF Stop, Crash, Start
  <2>4. task' \in [Nodes -> [Lanes -> Task \cup {Idle}]]
    BY <1>6 DEF Stop, Crash, Start
  <2> QED
    BY <1>6, <2>1, <2>2, <2>3, <2>4 DEF Stop, Crash, Start, JobsSound
<1>7. ASSUME NEW i \in Ids, Expire(i) PROVE Sound'
  BY <1>7 DEF Expire, JobsSound
<1>8. CASE UNCHANGED vars
  BY <1>8 DEF vars, JobsSound
<1> QED
  BY <1>1, <1>2, <1>3, <1>4, <1>5, <1>6, <1>7, <1>8, CallsSound, AckCallsSound DEF Next, Step

(* Whatever goes wrong and however the nodes interleave, every variable    *)
(* keeps its type.                                                         *)
THEOREM TypeCorrect == Spec => []TypeOK
<1>1. Init => Sound
  BY RoutingAssumption DEF Init, Sound, TypeOK, JobsSound
<1>2. Sound => TypeOK
  BY DEF Sound
<1> QED
  BY <1>1, <1>2, SoundStep, PTL DEF Spec

----------------------------------------------------------------------------
(* What any step does.  A file changes by a call of a job of its node, or  *)
(* because route_bundle finds a bundle expired.                            *)
Writes(k, S, T) ==
  \/ k.stage = "save" /\ T = Saved(S, Rec(k.id, "Pending"))
  \/ k.stage = "deliver" /\ T = Upserted(S, Rec(k.id, "Delivered"))
  \/ /\ k.stage = "acknowledge"
     /\ \E a \in AckIds \cap (fresh \ fresh') :
          AckOf[a] = k.id /\ T = Saved(S, Rec(a, "Pending"))
  \/ k.stage = "mark" /\ T = Updated(S, Rec(AckOf[k.id], "Delivered"))
  \/ k.stage = "purge" /\ T = Without(S, AckOf[k.id])
  \/ k.stage = "keep" /\ T = Saved(S, Rec(k.id, "Pending"))
  \/ k.stage = "settle" /\ T = Upserted(S, Rec(k.id, "Delivered"))
  \/ /\ k.stage = "forward"
     /\ \E i \in k.sent : /\ T = Upserted(S, Rec(i, "InTransit"))
                          /\ k.job = "retry" => Has(S, i)

LEMMA Writers ==
  ASSUME Sound, [Next]_vars, NEW n \in Nodes, disk'[n] # disk[n]
  PROVE  \/ \E i \in Data \cap expired : disk'[n] = Without(disk[n], i)
         \/ \E l \in Lanes : task[n][l] # Idle /\ Writes(task[n][l], disk[n], disk'[n])
<1> DEFINE Done == \/ \E i \in Data \cap expired : disk'[n] = Without(disk[n], i)
                   \/ \E l \in Lanes : task[n][l] # Idle /\ Writes(task[n][l], disk[n], disk'[n])
<1>0. TypeOK
  BY DEF Sound
<1>1. ASSUME NEW m \in Nodes, NEW l \in Lanes, NEW i \in Ids, Route(m, l, i) PROVE Done
  BY <1>0, <1>1, WriteFile DEF Route
<1>2. ASSUME NEW m \in Nodes, NEW l \in Lanes, Step(m, l) PROVE Done
  <2>1. CASE UNCHANGED disk
    BY <2>1
  <2>2. CASE Save(m, l) \/ Deliver(m, l) \/ Mark(m, l) \/ Purge(m, l) \/ Settle(m, l)
    BY <1>0, <2>2, WriteFile DEF Save, Deliver, Mark, Purge, Settle, In, Writes
  <2>3. CASE Acknowledge(m, l)
    BY <1>0, <2>3, WriteFile DEF Acknowledge, In, Writes
  <2>4. CASE Keep(m, l)
    BY <1>0, <2>4, WriteFile DEF Keep, In, Writes
  <2>5. CASE Finish(m, l)
    <3>1. PICK i \in task[m][l].sent :
            Write(m, IF task[m][l].job = "retry" /\ ~Has(disk[m], i) THEN disk[m]
                     ELSE Upserted(disk[m], Rec(i, "InTransit")))
      BY <2>1, <2>5 DEF Finish
    <3>2. /\ m = n /\ disk'[n] = Upserted(disk[n], Rec(i, "InTransit"))
          /\ task[m][l].job = "retry" => Has(disk[n], i)
      BY <1>0, <3>1, WriteFile
    <3> QED
      BY <2>5, <3>1, <3>2 DEF Finish, In, Writes
  <2> QED
    BY <1>2, <2>1, <2>2, <2>3, <2>4, <2>5 DEF Step, Ask, Send
<1> QED
  BY <1>1, <1>2 DEF Next, vars, CliSend, Handle, Retry, Stop, Crash, Start, Expire, Ids

(* A record that is new in a file.                                         *)
Brings(n, k, x) ==
  \/ k.stage = "save" /\ x = Rec(k.id, "Pending")
  \/ k.stage = "deliver" /\ x = Rec(k.id, "Delivered")
  \/ /\ k.stage = "acknowledge" /\ x.status = "Pending"
     /\ x.id \in AckIds \cap (fresh \ fresh') /\ AckOf[x.id] = k.id
  \/ k.stage = "mark" /\ x = Rec(AckOf[k.id], "Delivered") /\ Has(disk[n], x.id)
  \/ k.stage = "keep" /\ x = Rec(k.id, "Pending")
  \/ k.stage = "settle" /\ x = Rec(k.id, "Delivered")
  \/ /\ k.stage = "forward"
     /\ \E i \in k.sent : x = Rec(i, "InTransit") /\ (k.job = "retry" => Has(disk[n], i))

(* A record that a file had: why it is not there any more.                 *)
Drops(n, k, x) ==
  \/ k.stage \in {"deliver", "settle"} /\ x.id = k.id /\ Has(disk'[n], x.id)
  \/ k.stage = "mark" /\ x.id = AckOf[k.id] /\ Rec(x.id, "Delivered") \in disk'[n]
  \/ k.stage = "purge" /\ x.id = AckOf[k.id]
  \/ k.stage = "forward" /\ x.id \in k.sent /\ Has(disk'[n], x.id)

LEMMA JobIds ==
  ASSUME Sound, NEW n \in Nodes, NEW l \in Lanes, task[n][l] # Idle
  PROVE  LET k == task[n][l] IN
           /\ JobSound(n, k)
           /\ disk[n] \in SUBSET Bundle
           /\ k.stage \in {"save", "deliver", "acknowledge"} => k.id \in Data
           /\ k.stage \in {"mark", "purge", "keep", "settle"} =>
                k.id \in AckIds /\ AckOf[k.id] \in Data
           /\ k.sent \subseteq Ids
BY BundleAssumption DEF Sound, TypeOK, JobsSound, JobSound, Task

LEMMA NewRecords ==
  ASSUME Sound, [Next]_vars, NEW n \in Nodes, NEW x \in disk'[n] \ disk[n]
  PROVE  \E l \in Lanes : task[n][l] # Idle /\ Brings(n, task[n][l], x)
<1>1. PICK l \in Lanes : task[n][l] # Idle /\ Writes(task[n][l], disk[n], disk'[n])
  BY Writers DEF Without
<1> DEFINE k == task[n][l]
           S == disk[n]
<1>2. /\ S \in SUBSET Bundle
      /\ k.stage \in {"save", "deliver", "acknowledge"} => k.id \in Ids
      /\ k.stage \in {"mark", "purge", "keep", "settle"} => k.id \in Ids /\ AckOf[k.id] \in Ids
      /\ k.sent \subseteq Ids
  BY <1>1, JobIds DEF Ids
<1>3. ASSUME NEW b \in Bundle, disk'[n] = Saved(S, b) \/ disk'[n] = Upserted(S, b) PROVE x = b
  <2>1. Saved(S, b) \subseteq S \cup {b}
    BY <1>2, CallsAddOne, Zenon
  <2>2. Upserted(S, b) \subseteq S \cup {b}
    BY <1>2, CallsAddOne, Zenon
  <2>3. x \in S \cup {b}
    BY <1>3, <2>1, <2>2, Zenon
  <2> QED
    BY <2>3, Zenon
<1>4. ASSUME NEW b \in Bundle, disk'[n] = Updated(S, b) PROVE x = b /\ Has(S, x.id)
  <2>1. Updated(S, b) \subseteq S \cup {b}
    BY <1>2, UpdatedFacts, Zenon
  <2>2. \A i : Has(Updated(S, b), i) <=> Has(S, i)
    BY <1>2, UpdatedFacts, Zenon
  <2>3. x \in S \cup {b}
    BY <1>4, <2>1, Zenon
  <2>4. Has(Updated(S, b), x.id)
    BY <1>4 DEF Has
  <2> QED
    BY <2>2, <2>3, <2>4, Zenon
<1>5. \A i \in Ids : \A s \in Status : Rec(i, s) \in Bundle /\ Rec(i, s).id = i /\ Rec(i, s).status = s
  BY RecOf
<1> QED
  BY <1>1, <1>2, <1>3, <1>4, <1>5 DEF Writes, Brings, Without, Status, Ids

LEMMA GoneRecords ==
  ASSUME Sound, [Next]_vars, NEW n \in Nodes, NEW x \in disk[n] \ disk'[n]
  PROVE  \/ x.id \in expired
         \/ \E l \in Lanes : task[n][l] # Idle /\ Drops(n, task[n][l], x)
<1> SUFFICES ASSUME x.id \notin expired
             PROVE  \E l \in Lanes : task[n][l] # Idle /\ Drops(n, task[n][l], x)
  OBVIOUS
<1>1. PICK l \in Lanes : task[n][l] # Idle /\ Writes(task[n][l], disk[n], disk'[n])
  BY Writers DEF Without
<1> DEFINE k == task[n][l]
           S == disk[n]
<1>2. /\ S \in SUBSET Bundle
      /\ k.stage \in {"save", "deliver", "acknowledge"} => k.id \in Ids
      /\ k.stage \in {"mark", "purge", "keep", "settle"} => k.id \in Ids /\ AckOf[k.id] \in Ids
      /\ k.sent \subseteq Ids
  BY <1>1, JobIds DEF Ids
<1>3. x \in Live(S, expired) /\ Has(Live(S, expired), x.id)
  BY DEF Live, Has
<1>4. \A b \in Bundle : disk'[n] # Saved(S, b)
  BY <1>2, <1>3, SavedFacts
<1>5. ASSUME NEW b \in Bundle, disk'[n] = Upserted(S, b) PROVE x.id = b.id /\ Has(disk'[n], x.id)
  BY <1>2, <1>3, <1>5, UpsertedFacts
<1>6. ASSUME NEW b \in Bundle, disk'[n] = Updated(S, b) PROVE x.id = b.id /\ b \in disk'[n]
  <2>1. x.id = b.id
    BY <1>2, <1>6, UpdatedFacts
  <2>2. CanUpdate(S, b)
    BY <1>6 DEF Updated
  <2> QED
    BY <1>6, <2>1, <2>2 DEF Updated, Replaced
<1>7. \A i \in Ids : \A s \in Status : Rec(i, s) \in Bundle /\ Rec(i, s).id = i
  BY RecOf
<1> QED
  BY <1>1, <1>2, <1>4, <1>5, <1>6, <1>7 DEF Writes, Drops, Without, Status, Ids

(* A job begins: a retry, or the routing of a bundle.                      *)
Starts(n, j) ==
  \/ j.job = "retry" /\ j.stage = "forward" /\ j.id = "none" /\ j.offer = Retryable(disk[n])
  \/ /\ j.id \in Ids /\ j.id \notin Data \cap expired
     /\ j.offer = {} /\ j.job = IF j.id \in Data THEN "data" ELSE "ack"
     /\ j.stage = IF j.id \in AckIds THEN "mark" ELSE IF n = To(j.id) THEN "deliver" ELSE "save"
     /\ \/ j.id \in Data \cap (fresh \ fresh') /\ n = Source[j.id]
        \/ inbox[n][j.id] > 0 /\ ~Has(disk[n], j.id)

(* A job goes on.                                                          *)
Advances(n, k, j) ==
  \/ /\ k.stage = "acknowledge" /\ j.stage = "forward" /\ j.job = "ack"
     /\ j.id \in AckIds \cap (fresh \ fresh') /\ AckOf[j.id] = k.id
     /\ j.offer = {j.id} /\ Has(disk'[n], j.id)
  \/ /\ j.id = k.id /\ j.job = k.job
     /\ \/ /\ k.stage = "save" /\ j.stage = "forward"
           /\ j.offer = IdsOf({b \in disk'[n] : b.status = "Pending"})
        \/ /\ k.stage = "deliver" /\ j.stage = "acknowledge" /\ j.offer = k.offer
           /\ disk'[n] = Upserted(disk[n], Rec(k.id, "Delivered"))
        \/ /\ k.stage = "mark" /\ j.offer = k.offer
           /\ j.stage = IF Has(disk[n], AckOf[k.id]) THEN "purge" ELSE "keep"
           /\ disk'[n] = Updated(disk[n], Rec(AckOf[k.id], "Delivered"))
        \/ /\ k.stage = "purge" /\ j.stage = "keep" /\ j.offer = k.offer
           /\ disk'[n] = Without(disk[n], AckOf[k.id])
        \/ k.stage = "keep" /\ j.stage = "settle" /\ j.offer = k.offer /\ n = To(k.id)
        \/ /\ k.stage = "keep" /\ j.stage = "forward"
           /\ j.offer = {k.id} /\ Has(disk'[n], k.id)
        \/ k.stage = "forward" /\ j.stage = "forward" /\ j.offer = k.offer

LEMMA OneTask ==
  ASSUME TypeOK, NEW n \in Nodes, NEW l \in Lanes, \E k : Set(n, l, k),
         NEW m \in Nodes, NEW h \in Lanes, task'[m][h] # task[m][h]
  PROVE  m = n /\ h = l
<1>1. PICK k : Set(n, l, k)
  OBVIOUS
<1> QED
  BY <1>1, SetTask

LEMMA RouteStarts ==
  ASSUME Sound, NEW n \in Nodes, NEW l \in Lanes, NEW i \in Ids, Free(n, l), Route(n, l, i),
         NEW m \in Nodes, NEW h \in Lanes, task'[m][h] # Idle, task'[m][h] # task[m][h],
         \/ i \in Data \cap (fresh \ fresh') /\ n = Source[i]
         \/ inbox[n][i] > 0 /\ ~Has(disk[n], i)
  PROVE  task[m][h] = Idle /\ Starts(m, task'[m][h])
<1>0. TypeOK
  BY DEF Sound
<1>1. /\ i \notin Data \cap expired
      /\ \E peers \in SUBSET Nodes :
           Set(n, l, [job |-> IF i \in Data THEN "data" ELSE "ack", id |-> i,
                      stage |-> IF i \in AckIds THEN "mark"
                                ELSE IF n = To(i) THEN "deliver" ELSE "save",
                      todo |-> peers, offer |-> {}, out |-> {}, sent |-> {}])
  BY DEF Route
<1>2. m = n /\ h = l
  BY <1>0, <1>1, OneTask
<1>3. PICK peers \in SUBSET Nodes :
        Set(n, l, [job |-> IF i \in Data THEN "data" ELSE "ack", id |-> i,
                   stage |-> IF i \in AckIds THEN "mark"
                             ELSE IF n = To(i) THEN "deliver" ELSE "save",
                   todo |-> peers, offer |-> {}, out |-> {}, sent |-> {}])
  BY <1>1
<1>4. task'[n][l] = [job |-> IF i \in Data THEN "data" ELSE "ack", id |-> i,
                     stage |-> IF i \in AckIds THEN "mark"
                               ELSE IF n = To(i) THEN "deliver" ELSE "save",
                     todo |-> peers, offer |-> {}, out |-> {}, sent |-> {}]
  BY <1>0, <1>3, SetTask
<1> QED
  BY <1>1, <1>2, <1>4 DEF Free, Starts

LEMMA Jobs ==
  ASSUME Sound, [Next]_vars, NEW n \in Nodes, NEW l \in Lanes,
         task'[n][l] # Idle, task'[n][l] # task[n][l]
  PROVE  \/ task[n][l] = Idle /\ Starts(n, task'[n][l])
         \/ task[n][l] # Idle /\ Advances(n, task[n][l], task'[n][l])
<1> DEFINE k == task[n][l]
           j == task'[n][l]
           Done == \/ k = Idle /\ Starts(n, j)
                   \/ k # Idle /\ Advances(n, k, j)
<1>0. /\ TypeOK
      /\ k # Idle => k \in Task
  BY DEF Sound, TypeOK
<1>1. ASSUME NEW m \in Nodes, NEW h \in Lanes, NEW d \in Data, CliSend(m, h, d) PROVE Done
  BY <1>1, RouteStarts DEF CliSend, Ids
<1>2. ASSUME NEW m \in Nodes, NEW h \in Lanes, NEW i \in Ids, Handle(m, h, i) PROVE Done
  BY <1>2, RouteStarts DEF Handle
<1>3. ASSUME NEW m \in Nodes, NEW h \in Lanes, Retry(m, h) PROVE Done
  BY <1>0, <1>3, SetTask DEF Retry, Free, Starts
<1>4. ASSUME NEW m \in Nodes, NEW h \in Lanes, Step(m, h) PROVE Done
  <2>1. m = n /\ h = l /\ k # Idle
    <3>1. CASE \E p \in Nodes : Ask(m, h, p) \/ \E i \in Ids : Send(m, h, p, i)
      <4>1. task[m][h] # Idle /\ \E q : Set(m, h, q)
        BY <3>1 DEF Ask, Send, In
      <4> QED
        BY <1>0, <4>1, OneTask
    <3>2. CASE \/ Save(m, h) \/ Deliver(m, h) \/ Acknowledge(m, h) \/ Mark(m, h)
               \/ Purge(m, h) \/ Keep(m, h) \/ Settle(m, h) \/ Finish(m, h)
      <4>1. task[m][h] # Idle /\ \E q : Set(m, h, q)
        BY <3>2 DEF Save, Deliver, Acknowledge, Mark, Purge, Keep, Settle, Finish, In
      <4> QED
        BY <1>0, <4>1, OneTask
    <3> QED
      BY <1>4, <3>1, <3>2 DEF Step
  <2>2. CASE Save(n, l)
    <3> DEFINE S == Saved(disk[n], Rec(k.id, "Pending"))
    <3>1. /\ k.stage = "save" /\ disk'[n] = S
          /\ j = [At(k, "forward") EXCEPT !.offer = IdsOf({b \in S : b.status = "Pending"})]
      BY <1>0, <2>2, SetTask, WriteFile DEF Save, In
    <3> HIDE DEF S
    <3> QED
      BY <1>0, <2>1, <3>1 DEF At, Advances, Task
  <2>9. CASE Deliver(n, l)
    <3>1. /\ k.stage = "deliver" /\ j = At(k, "acknowledge")
          /\ disk'[n] = Upserted(disk[n], Rec(k.id, "Delivered"))
      BY <1>0, <2>9, SetTask, WriteFile DEF Deliver, In
    <3> QED
      BY <1>0, <2>1, <3>1 DEF At, Advances, Task
  <2>3. CASE Acknowledge(n, l)
    <3>1. PICK a \in fresh \cap AckIds :
            /\ AckOf[a] = k.id /\ fresh' = fresh \ {a}
            /\ Write(n, Saved(disk[n], Rec(a, "Pending")))
            /\ Set(n, l, IF Has(Saved(disk[n], Rec(a, "Pending")), a)
                         THEN [At(k, "forward") EXCEPT !.job = "ack", !.id = a, !.offer = {a}]
                         ELSE Idle)
      BY <2>3 DEF Acknowledge
    <3>2. /\ Has(disk'[n], a)
          /\ j = [At(k, "forward") EXCEPT !.job = "ack", !.id = a, !.offer = {a}]
      BY <1>0, <3>1, SetTask, WriteFile
    <3>3. k.stage = "acknowledge"
      BY <2>3 DEF Acknowledge, In
    <3> QED
      BY <1>0, <2>1, <3>1, <3>2, <3>3 DEF At, Advances, Task
  <2>4. CASE Mark(n, l) \/ Purge(n, l)
    BY <1>0, <2>1, <2>4, SetTask, WriteFile DEF Mark, Purge, In, At, Advances, Task
  <2>5. CASE Keep(n, l)
    <3> DEFINE known == HasAckFor(disk[n], AckOf[k.id]) \/ Has(disk[n], k.id)
               S == IF known THEN disk[n] ELSE Saved(disk[n], Rec(k.id, "Pending"))
    <3>1. /\ Write(n, S) /\ k.stage = "keep"
          /\ Set(n, l, IF n = To(k.id) THEN At(k, "settle")
                       ELSE IF ~known /\ Has(S, k.id)
                            THEN [At(k, "forward") EXCEPT !.offer = {k.id}]
                            ELSE Idle)
      BY <2>5 DEF Keep, In
    <3> HIDE DEF S, known
    <3>2. \/ j = At(k, "settle") /\ n = To(k.id)
          \/ j = [At(k, "forward") EXCEPT !.offer = {k.id}] /\ Has(disk'[n], k.id)
      BY <1>0, <3>1, SetTask, WriteFile
    <3> QED
      BY <1>0, <2>1, <3>1, <3>2 DEF At, Advances, Task
  <2>6. CASE Settle(n, l)
    BY <1>0, <2>6, SetTask DEF Settle
  <2>7. CASE \E p \in Nodes : Ask(n, l, p) \/ \E i \in Ids : Send(n, l, p, i)
    <3>1. PICK p \in Nodes : Ask(n, l, p) \/ \E i \in Ids : Send(n, l, p, i)
      BY <2>7
    <3>2. ASSUME Ask(n, l, p) PROVE Done
      <4>1. PICK more : Set(n, l, [k EXCEPT !.todo = @ \ {p}, !.out = more])
        BY <3>2 DEF Ask
      <4>2. k.stage = "forward" /\ j = [k EXCEPT !.todo = @ \ {p}, !.out = more]
        BY <1>0, <3>2, <4>1, SetTask DEF Ask, In
      <4> QED
        BY <1>0, <2>1, <4>2 DEF Advances, Task
    <3>3. ASSUME NEW i \in Ids, Send(n, l, p, i) PROVE Done
      <4>1. PICK more : Set(n, l, [k EXCEPT !.out = @ \ {<<p, i>>}, !.sent = more])
        BY <3>3 DEF Send
      <4>2. k.stage = "forward" /\ j = [k EXCEPT !.out = @ \ {<<p, i>>}, !.sent = more]
        BY <1>0, <3>3, <4>1, SetTask DEF Send, In
      <4> QED
        BY <1>0, <2>1, <4>2 DEF Advances, Task
    <3> QED
      BY <3>1, <3>2, <3>3
  <2>8. CASE Finish(n, l)
    <3>1. PICK more : Set(n, l, Idle) \/ Set(n, l, [k EXCEPT !.sent = more])
      BY <2>8 DEF Finish
    <3>2. k.stage = "forward" /\ j = [k EXCEPT !.sent = more]
      BY <1>0, <2>8, <3>1, SetTask DEF Finish, In
    <3> QED
      BY <1>0, <2>1, <3>2 DEF Advances, Task
  <2> QED
    BY <1>4, <2>1, <2>2, <2>3, <2>4, <2>5, <2>6, <2>7, <2>8, <2>9 DEF Step
<1>5. ASSUME NEW m \in Nodes, Crash(m) PROVE Done
  BY <1>0, <1>5 DEF Crash, TypeOK
<1> QED
  BY <1>1, <1>2, <1>3, <1>4, <1>5 DEF Next, vars, Stop, Start, Expire

----------------------------------------------------------------------------
(* A bundle is nowhere unless it was somewhere, or is created.             *)
LEMMA InboxFrom ==
  ASSUME Sound, [Next]_vars, NEW n \in Nodes, NEW i \in Ids, inbox'[n][i] > 0
  PROVE  \/ inbox[n][i] > 0
         \/ \E m \in Nodes, l \in Lanes : task[m][l] # Idle /\ i \in task[m][l].offer
<1> DEFINE Done == \/ inbox[n][i] > 0
                   \/ \E m \in Nodes, l \in Lanes : task[m][l] # Idle /\ i \in task[m][l].offer
<1>0. inbox \in [Nodes -> [Ids -> 0..MaxCopies]]
  BY DEF Sound, TypeOK
<1>1. ASSUME NEW m \in Nodes, NEW l \in Lanes, NEW p \in Nodes, NEW e \in Ids, Send(m, l, p, e)
      PROVE  Done
  <2>1. task[m][l] # Idle /\ e \in task[m][l].offer
    BY <1>1 DEF Sound, JobsSound, JobSound, Send, In
  <2>2. CASE UNCHANGED inbox
    BY <2>2
  <2>3. CASE inbox' = [inbox EXCEPT ![p][e] = IF @ < MaxCopies THEN @ + 1 ELSE @]
    <3>1. p # n \/ e # i => inbox'[n][i] = inbox[n][i]
      BY <1>0, <2>3
    <3> QED
      BY <2>1, <3>1
  <2> QED
    BY <1>1, <2>2, <2>3 DEF Send
<1>2. ASSUME NEW m \in Nodes, NEW l \in Lanes, NEW e \in Ids, Handle(m, l, e) PROVE Done
  <2>1. inbox' = [inbox EXCEPT ![m][e] = @ - 1] /\ inbox[m][e] > 0
    BY <1>2 DEF Handle
  <2>2. m # n \/ e # i => inbox'[n][i] = inbox[n][i]
    BY <1>0, <2>1
  <2> QED
    BY <2>1, <2>2
<1>3. ASSUME NEW m \in Nodes, Crash(m) PROVE Done
  BY <1>0, <1>3 DEF Crash
<1>4. CASE UNCHANGED inbox
  BY <1>4
<1>5. ASSUME NEW m \in Nodes, NEW l \in Lanes, Step(m, l) PROVE Done
  <2>1. CASE \E p \in Nodes : Ask(m, l, p)
    BY <1>4, <2>1 DEF Ask
  <2>2. CASE \E p \in Nodes : \E e \in Ids : Send(m, l, p, e)
    BY <1>1, <2>2
  <2> QED
    BY <1>4, <1>5, <2>1, <2>2
    DEF Step, Save, Deliver, Acknowledge, Mark, Purge, Keep, Settle, Finish, Local
<1> QED
  BY <1>2, <1>3, <1>4, <1>5 DEF Next, vars, CliSend, Retry, Stop, Start, Expire

Created(i) ==
  /\ i \in fresh \ fresh'
  /\ i \in AckIds =>
       \E n \in Nodes, l \in Lanes :
         /\ task[n][l] # Idle /\ task[n][l].stage = "acknowledge"
         /\ AckOf[i] = task[n][l].id /\ Has(disk'[n], i)

LEMMA RecordFrom ==
  ASSUME Sound, [Next]_vars, NEW n \in Nodes, NEW x \in disk'[n]
  PROVE  Somewhere(x.id) \/ Created(x.id)
<1>1. CASE x \in disk[n]
  BY <1>1 DEF Somewhere, Has
<1>2. CASE x \notin disk[n]
  <2>1. PICK l \in Lanes : task[n][l] # Idle /\ Brings(n, task[n][l], x)
    BY <1>2, NewRecords
  <2>2. JobSound(n, task[n][l])
    BY <2>1, JobIds
  <2>3. x.id = task[n][l].id \/ x.id \in task[n][l].offer => Somewhere(x.id)
    BY <2>1 DEF Somewhere
  <2>4. Has(disk'[n], x.id)
    BY DEF Has
  <2>5. \A i, s : Rec(i, s).id = i
    BY DEF Rec
  <2> DEFINE k == task[n][l]
  <2>6. CASE \/ x \in {Rec(k.id, s) : s \in Status}
             \/ k.stage = "forward" /\ \E i \in k.sent : x = Rec(i, "InTransit")
    BY <2>2, <2>3, <2>5, <2>6 DEF JobSound
  <2>7. CASE /\ k.stage = "acknowledge" /\ x.id \in AckIds \cap (fresh \ fresh')
             /\ AckOf[x.id] = k.id
    BY <2>1, <2>4, <2>7, Zenon DEF Created
  <2>8. CASE k.stage = "mark" /\ x = Rec(AckOf[k.id], "Delivered") /\ Has(disk[n], x.id)
    BY <2>8 DEF Somewhere
  <2>9. \A s \in {"Pending", "Delivered"} : s \in Status
    BY DEF Status
  <2> QED
    BY <2>1, <2>6, <2>7, <2>8, <2>9 DEF Brings
<1> QED
  BY <1>1, <1>2

LEMMA Grows ==
  ASSUME Sound, [Next]_vars, NEW i \in Ids, Somewhere(i)'
  PROVE  Somewhere(i) \/ Created(i)
<1>1. ASSUME NEW n \in Nodes, Has(disk'[n], i) PROVE Somewhere(i) \/ Created(i)
  BY <1>1, RecordFrom DEF Has
<1>2. ASSUME NEW n \in Nodes, inbox'[n][i] > 0 PROVE Somewhere(i)
  BY <1>2, InboxFrom DEF Somewhere
<1>3. ASSUME NEW n \in Nodes, NEW l \in Lanes, task'[n][l] # Idle,
             i = task'[n][l].id \/ i \in task'[n][l].offer
      PROVE  Somewhere(i) \/ Created(i)
  <2> DEFINE k == task[n][l]
             j == task'[n][l]
  <2>1. CASE j = k
    BY <1>3, <2>1 DEF Somewhere
  <2>2. CASE k = Idle /\ Starts(n, j)
    <3>1. CASE j.id = "none" /\ j.offer = Retryable(disk[n])
      BY <1>3, <3>1, RoutingAssumption DEF Retryable, IdsOf, Somewhere, Has
    <3>2. CASE i = j.id /\ i \in Data \cap (fresh \ fresh')
      BY <3>2, BundleAssumption DEF Created
    <3>3. CASE i = j.id /\ inbox[n][i] > 0
      BY <3>3 DEF Somewhere
    <3> QED
      BY <1>3, <2>2, <3>1, <3>2, <3>3 DEF Starts
  <2>3. CASE k # Idle /\ Advances(n, k, j)
    <3>1. CASE i = k.id \/ i \in k.offer
      BY <2>3, <3>1 DEF Somewhere
    <3>2. CASE Has(disk'[n], i)
      BY <1>1, <3>2
    <3> QED
      BY <1>3, <2>3, <3>1, <3>2 DEF Advances, IdsOf, Has
  <2> QED
    BY <1>3, <2>1, <2>2, <2>3, Jobs
<1> QED
  BY <1>1, <1>2, <1>3 DEF Somewhere

----------------------------------------------------------------------------
(* What the destination of a DATA bundle knows.                            *)
End(a) == Destination[AckOf[a]]

Held(d) == d \in expired \/ Rec(d, "Delivered") \in disk[Destination[d]]

FilesFinite == \A n \in Nodes : IsFiniteSet(disk[n])

(* The destination has the bundle only as Delivered, and does not send it. *)
OnlyDelivered ==
  \A d \in Data :
    /\ \A b \in disk[Destination[d]] : b.id = d => b.status = "Delivered"
    /\ \A l \in Lanes : LET k == task[Destination[d]][l] IN k # Idle => d \notin k.offer

(* An ACK does not expire before its DATA.                                 *)
AcksOutlive == \A a \in AckIds : a \in expired => AckOf[a] \in expired

(* Wherever an ACK is, the destination holds it, and its DATA.             *)
EndsKnow ==
  \A a \in AckIds : Somewhere(a) =>
    Held(AckOf[a]) /\ (AckOf[a] \in expired \/ Has(disk[End(a)], a))

(* The destination acknowledges what it holds, and lets an ACK from other  *)
(* nodes delete it only when it has expired.                               *)
EndJob(n, k) ==
  /\ k.stage = "acknowledge" => Held(k.id)
  /\ k.stage \in {"mark", "purge", "keep", "settle"} /\ n = End(k.id) => AckOf[k.id] \in expired

EndJobs == \A n \in Nodes, l \in Lanes : task[n][l] # Idle => EndJob(n, task[n][l])

EndsSound == FilesFinite /\ OnlyDelivered /\ AcksOutlive /\ EndsKnow /\ EndJobs

LEMMA FilesFiniteStep ==
  ASSUME Sound, FilesFinite, [Next]_vars
  PROVE  FilesFinite'
<1> SUFFICES ASSUME NEW n \in Nodes PROVE IsFiniteSet(disk'[n])
  BY DEF FilesFinite
<1> DEFINE S == disk[n]
           T == disk'[n]
<1>1. IsFiniteSet(S)
  BY DEF FilesFinite
<1>2. \A b : IsFiniteSet(S \cup {b})
  BY <1>1, FS_AddElement
<1>3. (\E b : T \subseteq S \cup {b}) => IsFiniteSet(T)
  BY <1>2, FS_Subset
<1>4. CASE T = S
  BY <1>1, <1>4
<1>5. CASE \E i \in Data : T = Without(S, i)
  BY <1>3, <1>5 DEF Without
<1>6. CASE \E l \in Lanes : task[n][l] # Idle /\ Writes(task[n][l], S, T)
  <2>1. PICK l \in Lanes : task[n][l] # Idle /\ Writes(task[n][l], S, T)
    BY <1>6
  <2> DEFINE k == task[n][l]
  <2>2. /\ S \in SUBSET Bundle
        /\ k.stage \in {"save", "deliver", "acknowledge"} => k.id \in Ids
        /\ k.stage \in {"mark", "purge", "keep", "settle"} => k.id \in Ids /\ AckOf[k.id] \in Ids
        /\ k.sent \subseteq Ids
    BY <2>1, JobIds DEF Ids
  <2>3. \/ \E b \in Bundle : T = Saved(S, b) \/ T = Updated(S, b) \/ T = Upserted(S, b)
        \/ T = Without(S, AckOf[k.id])
    BY <2>1, <2>2, RecOf DEF Writes, Status, Ids
  <2> QED
    <3>1. Without(S, AckOf[k.id]) \subseteq S
      BY DEF Without
    <3>2. \A b \in Bundle : /\ Saved(S, b) \subseteq S \cup {b}
                           /\ Updated(S, b) \subseteq S \cup {b}
                           /\ Upserted(S, b) \subseteq S \cup {b}
      BY <2>2, CallsAddOne
    <3> QED
      BY <1>3, <2>3, <3>1, <3>2
<1> QED
  BY <1>4, <1>5, <1>6, Writers

LEMMA Expiry ==
  ASSUME [Next]_vars
  PROVE  UNCHANGED expired \/ \E i \in Ids : Expire(i)
<1>1. ASSUME NEW n \in Nodes, NEW l \in Lanes, Step(n, l) PROVE UNCHANGED expired
  <2>1. CASE \E p \in Nodes : Ask(n, l, p)
    BY <2>1 DEF Ask
  <2>2. CASE \E p \in Nodes : \E i \in Ids : Send(n, l, p, i)
    BY <2>2 DEF Send
  <2> QED
    BY <1>1, <2>1, <2>2
    DEF Step, Save, Deliver, Acknowledge, Mark, Purge, Keep, Settle, Finish, Local
<1> QED
  BY <1>1 DEF Next, vars, CliSend, Handle, Retry, Stop, Crash, Start

LEMMA ExpiredStays ==
  ASSUME [Next]_vars
  PROVE  expired \subseteq expired'
BY Expiry DEF Expire

LEMMA AcksOutliveStep ==
  ASSUME AcksOutlive, [Next]_vars
  PROVE  AcksOutlive'
<1>1. ASSUME NEW i \in Ids, Expire(i) PROVE AcksOutlive'
  BY <1>1, RoutingAssumption, BundleAssumption DEF AcksOutlive, Expire
<1>2. CASE UNCHANGED expired
  BY <1>2 DEF AcksOutlive
<1> QED
  BY <1>1, <1>2, Expiry

(* A record of the destination's stays until it expires.                   *)
LEMMA SentIds ==
  ASSUME Sound, NEW n \in Nodes, NEW l \in Lanes, task[n][l] # Idle,
         NEW i \in task[n][l].sent
  PROVE  LET k == task[n][l] IN
           /\ k.stage = "forward" /\ i \in Ids
           /\ i \in k.offer \/ (k.job = "data" /\ i = k.id /\ i \in Data /\ n # Destination[i])
BY JobIds DEF JobSound, Task

LEMMA OnlyDeliveredStep ==
  ASSUME Sound, OnlyDelivered, [Next]_vars
  PROVE  OnlyDelivered'
<1> SUFFICES ASSUME NEW d \in Data
             PROVE  /\ \A b \in disk'[Destination[d]] : b.id = d => b.status = "Delivered"
                    /\ \A l \in Lanes : LET k == task'[Destination[d]][l] IN
                         k # Idle => d \notin k.offer
  BY DEF OnlyDelivered
<1> DEFINE n == Destination[d]
<1>0. n \in Nodes /\ d \in Ids /\ d \notin AckIds
  BY RoutingAssumption, BundleAssumption DEF Ids
<1>1. ASSUME NEW b \in disk'[n], b.id = d PROVE b.status = "Delivered"
  <2>1. CASE b \in disk[n]
    BY <1>1, <2>1 DEF OnlyDelivered
  <2>2. CASE b \notin disk[n]
    <3>1. PICK l \in Lanes : task[n][l] # Idle /\ Brings(n, task[n][l], b)
      BY <1>0, <2>2, NewRecords
    <3> DEFINE k == task[n][l]
    <3>2. JobSound(n, k) /\ d \notin k.offer
      BY <1>0, <3>1, JobIds DEF OnlyDelivered
    <3>3. d \notin k.sent
      BY <1>0, <3>1, <3>2, SentIds
    <3>4. d = k.id => k.stage \notin {"save", "keep"}
      <4>1. d = k.id => k.stage # "save"
        BY <3>2 DEF JobSound, Task
      <4>2. d = k.id => k.stage # "keep"
        BY <1>0, <3>1, JobIds
      <4> QED
        BY <4>1, <4>2
    <3>5. \A i, s : Rec(i, s).id = i /\ Rec(i, s).status = s
      BY DEF Rec
    <3> QED
      BY <1>0, <1>1, <3>1, <3>3, <3>4, <3>5 DEF Brings
  <2> QED
    BY <2>1, <2>2
<1>2. ASSUME NEW l \in Lanes, task'[n][l] # Idle PROVE d \notin task'[n][l].offer
  <2> DEFINE k == task[n][l]
             j == task'[n][l]
  <2>1. k # Idle => d \notin k.offer
    BY DEF OnlyDelivered
  <2>2. CASE k = Idle /\ Starts(n, j)
    <3>1. d \notin Retryable(disk[n])
      BY DEF OnlyDelivered, Retryable, IdsOf
    <3> QED
      BY <2>2, <3>1 DEF Starts
  <2>3. CASE k # Idle /\ Advances(n, k, j)
    <3>1. d \notin IdsOf({b \in disk'[n] : b.status = "Pending"})
      BY <1>1 DEF IdsOf
    <3>2. k.stage = "keep" => k.id # d
      BY <1>0, <2>3, JobIds
    <3> QED
      BY <1>0, <2>1, <2>3, <3>1, <3>2 DEF Advances
  <2> QED
    BY <1>0, <1>2, <2>1, <2>2, <2>3, Jobs
<1> QED
  BY <1>1, <1>2

LEMMA HeldStays ==
  ASSUME Sound, EndsSound, [Next]_vars, NEW d \in Data, Held(d)
  PROVE  Held(d)'
<1> SUFFICES ASSUME d \notin expired PROVE Rec(d, "Delivered") \in disk'[Destination[d]]
  BY ExpiredStays DEF Held
<1> DEFINE n == Destination[d]
           x == Rec(d, "Delivered")
<1>1. n \in Nodes /\ x \in disk[n] /\ x.id = d
  BY RoutingAssumption DEF Held, Rec
<1> SUFFICES ASSUME x \notin disk'[n] PROVE FALSE
  OBVIOUS
<1>2. PICK l \in Lanes : task[n][l] # Idle /\ Drops(n, task[n][l], x)
  BY <1>1, GoneRecords
<1> DEFINE k == task[n][l]
<1>3. JobSound(n, k) /\ EndJob(n, k) /\ d \notin k.offer
  BY <1>1, <1>2, JobIds DEF EndsSound, EndJobs, OnlyDelivered
<1>4. d \notin k.sent
  BY <1>1, <1>2, <1>3, SentIds
<1>5. k.stage \in {"mark", "purge"} /\ d = AckOf[k.id] => d \in expired
  BY <1>1, <1>3 DEF EndJob, End
<1>6. k.stage # "settle"
  BY <1>1, <1>2, JobIds, BundleAssumption DEF Drops
<1>7. ~Has(disk'[n], d)
  <2> SUFFICES ASSUME NEW y \in disk'[n], y.id = d PROVE y = x
    BY DEF Has
  <2>1. y.status = "Delivered"
    BY OnlyDeliveredStep DEF EndsSound, OnlyDelivered
  <2>2. y \in Bundle
    BY <1>1, SoundStep DEF Sound, TypeOK
  <2> QED
    BY <2>1, <2>2 DEF Bundle, Rec
<1> QED
  BY <1>1, <1>2, <1>4, <1>5, <1>6, <1>7 DEF Drops

(* An ACK stays in every file until it expires.                            *)
LEMMA AckStays ==
  ASSUME Sound, [Next]_vars, NEW n \in Nodes, NEW a \in AckIds \ expired, Has(disk[n], a)
  PROVE  Has(disk'[n], a)
<1>1. PICK x \in disk[n] : x.id = a
  BY DEF Has
<1>2. CASE x \in disk'[n]
  BY <1>1, <1>2 DEF Has
<1>3. CASE x \notin disk'[n]
  <2>1. PICK l \in Lanes : task[n][l] # Idle /\ Drops(n, task[n][l], x)
    BY <1>1, <1>3, GoneRecords
  <2>2. task[n][l].stage \in {"mark", "purge"} => AckOf[task[n][l].id] # a
    BY <2>1, JobIds, BundleAssumption
  <2> QED
    BY <1>1, <2>1, <2>2 DEF Drops
<1> QED
  BY <1>2, <1>3

LEMMA EndsKnowStep ==
  ASSUME Sound, EndsSound, [Next]_vars
  PROVE  EndsKnow'
<1> SUFFICES ASSUME NEW a \in AckIds, Somewhere(a)'
             PROVE  Held(AckOf[a])' /\ (AckOf[a] \in expired' \/ Has(disk'[End(a)], a))
  BY DEF EndsKnow, End
<1> DEFINE d == AckOf[a]
           n == End(a)
<1>0. d \in Data /\ n \in Nodes /\ a \in Ids /\ d # a
  BY BundleAssumption, RoutingAssumption DEF End, Ids
<1>1. CASE Somewhere(a)
  <2>1. Held(d) /\ (d \in expired \/ Has(disk[n], a))
    BY <1>1 DEF EndsSound, EndsKnow
  <2>2. a \in expired => d \in expired
    BY DEF EndsSound, AcksOutlive
  <2> QED
    BY <1>0, <2>1, <2>2, HeldStays, ExpiredStays, AckStays
<1>2. CASE Created(a)
  <2>1. PICK m \in Nodes, l \in Lanes :
          /\ task[m][l] # Idle /\ task[m][l].stage = "acknowledge"
          /\ d = task[m][l].id /\ Has(disk'[m], a)
    BY <1>2 DEF Created
  <2>2. Held(d)
    BY <2>1 DEF EndsSound, EndJobs, EndJob
  <2>3. m = n
    BY <2>1, JobIds DEF JobSound, End
  <2> QED
    BY <1>0, <2>1, <2>2, <2>3, HeldStays
<1> QED
  BY <1>0, <1>1, <1>2, Grows

(* Where there is room, the destination does keep the bundle.              *)
LEMMA Delivers ==
  ASSUME Sound, EndsSound, RoomAtEnds, [Next]_vars, NEW d \in Data \ expired,
         disk'[Destination[d]] = Upserted(disk[Destination[d]], Rec(d, "Delivered"))
  PROVE  Rec(d, "Delivered") \in disk'[Destination[d]]
<1> DEFINE n == Destination[d]
           S == disk[n]
           x == Rec(d, "Delivered")
           L == Live(S, expired)
<1>1. /\ n \in Nodes /\ S \in SUBSET Bundle /\ x \in Bundle
      /\ x.id = d /\ x.status = "Delivered" /\ d \notin AckIds
  BY RoutingAssumption, BundleAssumption, RecOf DEF Sound, TypeOK, Ids, Status
<1>2. CASE Has(S, d)
  <2>1. Has(disk'[n], d)
    BY <1>1, <1>2, UpsertedFacts
  <2>2. PICK y \in disk'[n] : y.id = d
    BY <2>1 DEF Has
  <2>3. y.status = "Delivered"
    BY <2>2, OnlyDeliveredStep DEF EndsSound, OnlyDelivered
  <2>4. y \in Bundle
    BY <1>1, SoundStep DEF Sound, TypeOK
  <2> QED
    BY <2>2, <2>3, <2>4 DEF Bundle, Rec
<1>3. CASE ~Has(S, d)
  <2>1. disk'[n] = Saved(S, x)
    BY <1>1, <1>3 DEF Upserted
  <2>2. L \subseteq S /\ ~Has(L, d)
    BY <1>3 DEF Live, Has
  <2>3. IsFiniteSet(S) /\ Cardinality(S) < Capacity
    BY <1>1, <1>3 DEF EndsSound, FilesFinite, RoomAtEnds
  <2>4. Cardinality(L) < Capacity
    <3>1. Cardinality(L) \in Nat /\ Cardinality(S) \in Nat /\ Cardinality(L) <= Cardinality(S)
      BY <2>2, <2>3, FS_Subset, FS_CardinalityType
    <3> QED
      BY <2>3, <3>1, BundleAssumption
  <2>5. ~HasAckFor(L, d)
    <3> SUFFICES ASSUME NEW b \in L, IsAck(b), AckOf[b.id] = d PROVE FALSE
      BY DEF HasAckFor
    <3>1. Somewhere(b.id)
      BY <1>1, <2>2 DEF Somewhere, Has
    <3>2. Held(d)
      BY <3>1 DEF EndsSound, EndsKnow, IsAck
    <3> QED
      BY <1>1, <1>3, <3>2 DEF Held, Has
  <2>6. CanSave(L, x)
    BY <1>1, <2>2, <2>4, <2>5 DEF CanSave, Barred
  <2> QED
    BY <2>1, <2>6 DEF Saved, Added
<1> QED
  BY <1>2, <1>3

LEMMA EndJobsStep ==
  ASSUME Sound, EndsSound, RoomAtEnds, [Next]_vars
  PROVE  EndJobs'
<1> DEFINE HeldNext(d) == d \in expired' \/ Rec(d, "Delivered") \in disk'[Destination[d]]
<1> SUFFICES ASSUME NEW n \in Nodes, NEW l \in Lanes, task'[n][l] # Idle
             PROVE  LET j == task'[n][l] IN
                      /\ j.stage = "acknowledge" => HeldNext(j.id)
                      /\ j.stage \in {"mark", "purge", "keep", "settle"} /\ n = End(j.id) =>
                           AckOf[j.id] \in expired'
  BY DEF EndJobs, EndJob, End, Held
<1> HIDE DEF HeldNext
<1> DEFINE k == task[n][l]
           j == task'[n][l]
<1>1. JobSound(n, j)
  BY SoundStep DEF Sound, JobsSound
<1>2. ASSUME j.stage = "acknowledge" PROVE HeldNext(j.id)
  <2>1. j.id \in Data /\ n = Destination[j.id]
    BY <1>1, <1>2 DEF JobSound
  <2>2. CASE j = k
    <3>1. Held(k.id)
      BY <1>2, <2>2 DEF EndsSound, EndJobs, EndJob
    <3>2. \A d \in Data : Held(d) => HeldNext(d)
      BY HeldStays DEF Held, HeldNext
    <3> QED
      BY <2>1, <2>2, <3>1, <3>2
  <2>3. CASE k # Idle /\ disk'[n] = Upserted(disk[n], Rec(j.id, "Delivered"))
    BY <2>1, <2>3, Delivers, ExpiredStays DEF HeldNext
  <2> QED
    BY <1>2, <2>2, <2>3, Jobs DEF Starts, Advances
<1>3. ASSUME j.stage \in {"mark", "purge", "keep", "settle"}, n = End(j.id)
      PROVE  AckOf[j.id] \in expired'
  <2>1. j.id \in AckIds
    BY <1>1, <1>3 DEF JobSound, Task
  <2>2. CASE j = k \/ (k # Idle /\ Advances(n, k, j))
    <3>1. k # Idle /\ j.id = k.id /\ k.stage \in {"mark", "purge", "keep", "settle"}
      BY <1>3, <2>2 DEF Advances
    <3>2. AckOf[k.id] \in expired
      BY <1>3, <3>1 DEF EndsSound, EndJobs, EndJob
    <3> QED
      BY <3>1, <3>2, ExpiredStays
  <2>3. CASE k = Idle /\ Starts(n, j)
    <3>1. inbox[n][j.id] > 0 /\ ~Has(disk[n], j.id)
      BY <1>3, <2>1, <2>3, BundleAssumption DEF Starts
    <3>2. Somewhere(j.id)
      BY <3>1 DEF Somewhere
    <3> QED
      BY <1>3, <2>1, <3>1, <3>2, ExpiredStays DEF EndsSound, EndsKnow
  <2> QED
    BY <2>2, <2>3, Jobs
<1> QED
  BY <1>2, <1>3

LEMMA EndsSoundStep ==
  Sound /\ EndsSound /\ RoomAtEnds /\ [Next]_vars => EndsSound'
BY FilesFiniteStep, OnlyDeliveredStep, AcksOutliveStep, EndsKnowStep, EndJobsStep DEF EndsSound

LEMMA EndsSoundInit == Init => Sound /\ EndsSound
<1> SUFFICES ASSUME Init PROVE Sound /\ EndsSound
  OBVIOUS
<1>1. Sound
  BY RoutingAssumption DEF Init, Sound, TypeOK, JobsSound
<1>2. \A d \in Data : Destination[d] \in Nodes
  BY RoutingAssumption
<1>3. \A i \in Ids : ~Somewhere(i)
  BY DEF Init, Somewhere, Has
<1>4. FilesFinite /\ OnlyDelivered /\ AcksOutlive /\ EndsKnow /\ EndJobs
  BY <1>2, <1>3, FS_EmptySet
  DEF Init, FilesFinite, OnlyDelivered, AcksOutlive, EndsKnow, EndJobs, Ids
<1> QED
  BY <1>1, <1>4 DEF EndsSound

(* Whatever is lost, answered falsely, retried or restarted, in any number *)
(* of lanes: an ACK is found anywhere only if the destination holds its    *)
(* DATA as Delivered or that has expired, as long as the destinations have *)
(* room for what they must deliver.                                        *)
THEOREM AcksMeanDelivered == Spec /\ []RoomAtEnds => []AckMeansDelivered
<1>1. EndsSound => AckMeansDelivered
  BY DEF EndsSound, EndsKnow, AckMeansDelivered, Held
<1> QED
  BY <1>1, SoundStep, EndsSoundStep, EndsSoundInit, PTL DEF Spec

LEMMA HeldUntilDeliveredStep ==
  ASSUME Sound, EndsSound, [Next]_vars, NEW n \in Nodes,
         NEW d \in Data \cap (IdsOf(disk[n]) \ IdsOf(disk'[n]))
  PROVE  d \in expired \/ (n # Destination[d] /\ Has(disk[Destination[d]], d))
<1> SUFFICES ASSUME d \notin expired
             PROVE  n # Destination[d] /\ Has(disk[Destination[d]], d)
  OBVIOUS
<1>1. PICK x \in disk[n] : x.id = d
  BY DEF IdsOf
<1>2. ~Has(disk'[n], d) /\ x \notin disk'[n]
  BY <1>1 DEF IdsOf, Has
<1>3. PICK l \in Lanes : task[n][l] # Idle /\ Drops(n, task[n][l], x)
  BY <1>1, <1>2, GoneRecords
<1> DEFINE k == task[n][l]
<1>4. k.stage = "purge" /\ d = AckOf[k.id]
  BY <1>1, <1>2, <1>3 DEF Drops, Has, Rec
<1>5. k.id \in AckIds /\ Somewhere(k.id)
  BY <1>3, <1>4, JobIds DEF Somewhere
<1>6. n # Destination[d]
  BY <1>3, <1>4 DEF EndsSound, EndJobs, EndJob, End
<1>7. Rec(d, "Delivered") \in disk[Destination[d]]
  BY <1>4, <1>5 DEF EndsSound, EndsKnow, Held
<1> QED
  BY <1>6, <1>7 DEF Has, Rec

(* No node drops DATA that has not expired before the destination has it,  *)
(* whatever goes wrong on the way.                                         *)
THEOREM DataHeldUntilDelivered == Spec /\ []RoomAtEnds => HeldUntilDelivered
<1>1. Sound /\ EndsSound /\ [Next]_vars =>
        [\A n \in Nodes : \A d \in Data \cap (IdsOf(disk[n]) \ IdsOf(disk'[n])) :
           d \in expired \/ (n # Destination[d] /\ Has(disk[Destination[d]], d))]_vars
  BY HeldUntilDeliveredStep
<1> QED
  BY <1>1, SoundStep, EndsSoundStep, EndsSoundInit, PTL DEF Spec, HeldUntilDelivered

----------------------------------------------------------------------------
(* With one lane: an id is fresh until a bundle has it, and a destination  *)
(* that is about to acknowledge a bundle is the first to do so.            *)
FreshNowhere == \A i \in Ids \cap fresh : ~Somewhere(i) /\ i \notin expired

FirstAck(k) ==
  k.stage \in {"deliver", "acknowledge"} =>
    \A a \in AckIds : AckOf[a] = k.id => ~Somewhere(a)

FirstAcks == \A n \in Nodes, l \in Lanes : task[n][l] # Idle => FirstAck(task[n][l])

AcksSound == FreshNowhere /\ FirstAcks /\ OneAckPerData

LEMMA FreshNowhereStep ==
  ASSUME Sound, FreshNowhere, [Next]_vars
  PROVE  FreshNowhere'
<1>1. fresh' \subseteq fresh
  <2>1. ASSUME NEW n \in Nodes, NEW l \in Lanes, Step(n, l) PROVE fresh' \subseteq fresh
    <3>1. CASE \E p \in Nodes : Ask(n, l, p)
      BY <3>1 DEF Ask
    <3>2. CASE \E p \in Nodes : \E i \in Ids : Send(n, l, p, i)
      BY <3>2 DEF Send
    <3> QED
      BY <2>1, <3>1, <3>2
      DEF Step, Save, Deliver, Acknowledge, Mark, Purge, Keep, Settle, Finish
  <2> QED
    BY <2>1 DEF Next, vars, CliSend, Handle, Retry, Stop, Crash, Start, Expire
<1>2. ASSUME NEW i \in Ids \cap fresh' PROVE ~Somewhere(i)' /\ i \notin expired'
  <2>1. ~Somewhere(i)'
    BY <1>1, <1>2, Grows DEF FreshNowhere, Created
  <2>2. i \notin expired'
    BY <1>1, <1>2, Expiry DEF FreshNowhere, Expire
  <2> QED
    BY <2>1, <2>2
<1> QED
  BY <1>2 DEF FreshNowhere

LEMMA OneAckStep ==
  ASSUME Sound, EndsSound, AcksSound, [Next]_vars
  PROVE  OneAckPerData'
<1> SUFFICES ASSUME NEW a \in AckIds, NEW b \in AckIds, AckOf[a] = AckOf[b],
                    Somewhere(a)', Somewhere(b)', a # b
             PROVE  FALSE
  BY DEF OneAckPerData
<1>1. a \in Ids /\ b \in Ids
  BY DEF Ids
<1>2. ~(Somewhere(a) /\ Somewhere(b))
  BY DEF AcksSound, OneAckPerData
<1>3. ASSUME NEW c \in AckIds, NEW e \in AckIds, AckOf[c] = AckOf[e], Created(c)
      PROVE  ~Somewhere(e)
  BY <1>3 DEF Created, AcksSound, FirstAcks, FirstAck
<1>4. ~(Created(a) /\ Created(b))
  \* one step creates one bundle
  <2>1. \E i \in Ids : fresh \ fresh' \subseteq {i}
    <3>1. ASSUME NEW n \in Nodes, NEW l \in Lanes, Step(n, l)
          PROVE  UNCHANGED fresh \/ \E i \in Ids : fresh' = fresh \ {i}
      <4>1. CASE \E p \in Nodes : Ask(n, l, p)
        BY <4>1 DEF Ask
      <4>2. CASE \E p \in Nodes : \E i \in Ids : Send(n, l, p, i)
        BY <4>2 DEF Send
      <4>3. CASE Acknowledge(n, l)
        BY <4>3 DEF Acknowledge, Ids
      <4> QED
        BY <3>1, <4>1, <4>2, <4>3 DEF Step, Save, Deliver, Mark, Purge, Keep, Settle, Finish
    <3>2. ASSUME NEW n \in Nodes, NEW l \in Lanes, NEW d \in Data, CliSend(n, l, d)
          PROVE  fresh' = fresh \ {d}
      BY <3>2 DEF CliSend
    <3>3. UNCHANGED fresh \/ \E i \in Ids : fresh' = fresh \ {i}
      BY <3>1, <3>2 DEF Next, vars, Handle, Retry, Stop, Crash, Start, Expire, Ids
    <3> QED
      BY <1>1, <3>3
  <2> QED
    BY <2>1 DEF Created
<1> QED
  BY <1>1, <1>2, <1>3, <1>4, Grows

LEMMA AckCreated ==
  ASSUME Sound, [Next]_vars, NEW a \in AckIds \cap (fresh \ fresh')
  PROVE  \E n \in Nodes, l \in Lanes :
           /\ task[n][l] # Idle /\ task[n][l].stage = "acknowledge" /\ AckOf[a] = task[n][l].id
           /\ task'[n][l] = Idle \/ task'[n][l].stage = "forward"
<1>0. TypeOK
  BY DEF Sound
<1>1. PICK n \in Nodes, l \in Lanes : Acknowledge(n, l)
  <2>1. ASSUME NEW n \in Nodes, NEW l \in Lanes, Step(n, l)
        PROVE  UNCHANGED fresh \/ Acknowledge(n, l)
    <3>1. CASE \E p \in Nodes : Ask(n, l, p)
      BY <3>1 DEF Ask
    <3>2. CASE \E p \in Nodes : \E i \in Ids : Send(n, l, p, i)
      BY <3>2 DEF Send
    <3> QED
      BY <2>1, <3>1, <3>2 DEF Step, Save, Deliver, Mark, Purge, Keep, Settle, Finish
  <2>2. ASSUME NEW n \in Nodes, NEW l \in Lanes, NEW d \in Data, CliSend(n, l, d) PROVE FALSE
    BY <2>2, BundleAssumption DEF CliSend
  <2> QED
    BY <2>1, <2>2 DEF Next, vars, Handle, Retry, Stop, Crash, Start, Expire
<1> DEFINE k == task[n][l]
           S(b) == Saved(disk[n], Rec(b, "Pending"))
<1>2. PICK b \in fresh \cap AckIds :
        /\ AckOf[b] = k.id /\ fresh' = fresh \ {b}
        /\ Set(n, l, IF Has(S(b), b)
                     THEN [At(k, "forward") EXCEPT !.job = "ack", !.id = b, !.offer = {b}]
                     ELSE Idle)
  BY <1>1 DEF Acknowledge
<1>3. b = a
  BY <1>2
<1>4. \/ task'[n][l] = Idle
      \/ task'[n][l] = [At(k, "forward") EXCEPT !.job = "ack", !.id = b, !.offer = {b}]
  BY <1>0, <1>2, SetTask
<1>5. k # Idle /\ k.stage = "acknowledge" /\ k \in Task
  BY <1>0, <1>1 DEF Acknowledge, In, TypeOK
<1> QED
  BY <1>2, <1>3, <1>4, <1>5 DEF At, Task

LEMMA FirstAcksStep ==
  ASSUME OneLane, Sound, EndsSound, AcksSound, [Next]_vars
  PROVE  FirstAcks'
<1> SUFFICES ASSUME NEW n \in Nodes, NEW l \in Lanes, task'[n][l] # Idle,
                    task'[n][l].stage \in {"deliver", "acknowledge"},
                    NEW a \in AckIds, AckOf[a] = task'[n][l].id, Somewhere(a)'
             PROVE  FALSE
  BY DEF FirstAcks, FirstAck, Somewhere
<1> DEFINE k == task[n][l]
           j == task'[n][l]
<1>1. j.id \in Data /\ n = Destination[j.id] /\ a \in Ids
  BY SoundStep DEF Sound, JobsSound, JobSound, Ids
<1>2. CASE Somewhere(a)
  <2>1. CASE j = k \/ (k # Idle /\ Advances(n, k, j))
    <3>1. k # Idle /\ k.id = j.id /\ k.stage \in {"deliver", "acknowledge"}
      BY <2>1 DEF Advances
    <3> QED
      BY <1>2, <3>1 DEF AcksSound, FirstAcks, FirstAck
  <2>2. CASE k = Idle /\ Starts(n, j)
    <3>1. Held(j.id)
      BY <1>2 DEF EndsSound, EndsKnow
    <3>2. j.id \notin expired /\ (j.id \in fresh \/ ~Has(disk[n], j.id))
      BY <1>1, <2>2 DEF Starts
    <3>3. Has(disk[n], j.id)
      BY <1>1, <3>1, <3>2 DEF Held, Has, Rec
    <3>4. Somewhere(j.id)
      BY <1>1, <3>3, RoutingAssumption DEF Somewhere
    <3> QED
      BY <1>1, <3>2, <3>3, <3>4 DEF AcksSound, FreshNowhere, Ids
  <2> QED
    BY <2>1, <2>2, Jobs
<1>3. CASE Created(a)
  <2>1. PICK m \in Nodes, h \in Lanes :
          /\ task[m][h] # Idle /\ task[m][h].stage = "acknowledge" /\ AckOf[a] = task[m][h].id
          /\ task'[m][h] = Idle \/ task'[m][h].stage = "forward"
    BY <1>3, AckCreated DEF Created
  <2>2. m = n /\ h = l
    BY <1>1, <2>1, JobIds DEF JobSound, OneLane
  <2> QED
    BY <2>1, <2>2
<1> QED
  BY <1>1, <1>2, <1>3, Grows

LEMMA AcksSoundInit == Init => AcksSound
<1> SUFFICES ASSUME Init PROVE AcksSound
  OBVIOUS
<1>1. \A i \in Ids : ~Somewhere(i)
  BY DEF Init, Somewhere, Has
<1> QED
  BY <1>1 DEF Init, AcksSound, FreshNowhere, FirstAcks, OneAckPerData, Ids

(* A DATA bundle is acknowledged once, by a destination that does one job  *)
(* at a time and has room for the bundle, whatever is lost, duplicated or  *)
(* restarted.                                                              *)
THEOREM OneAckOnly ==
  ASSUME OneLane
  PROVE  Spec /\ []RoomAtEnds => []OneAckPerData
<1>1. Sound /\ EndsSound /\ AcksSound /\ [Next]_vars => AcksSound'
  BY FreshNowhereStep, OneAckStep, FirstAcksStep DEF AcksSound
<1>2. AcksSound => OneAckPerData
  BY DEF AcksSound
<1> QED
  BY <1>1, <1>2, SoundStep, EndsSoundStep, EndsSoundInit, AcksSoundInit, PTL DEF Spec

----------------------------------------------------------------------------
(* A job that keeps or forwards an ACK: the DATA is gone, or was delivered *)
(* here.                                                                   *)
Gone(n, k) ==
  k.job = "ack" /\ k.stage \in {"keep", "settle", "forward"} =>
    n = End(k.id) \/ ~Has(disk[n], AckOf[k.id])

AllGone == \A n \in Nodes, l \in Lanes : task[n][l] # Idle => Gone(n, task[n][l])

LEMMA StaysGone ==
  ASSUME OneLane, Sound, [Next]_vars, NEW n \in Nodes, NEW l \in Lanes,
         task[n][l] # Idle, task[n][l].job = "ack",
         task[n][l].stage \in {"keep", "settle", "forward"},
         ~Has(disk[n], AckOf[task[n][l].id])
  PROVE  ~Has(disk'[n], AckOf[task[n][l].id])
<1> DEFINE k == task[n][l]
           d == AckOf[k.id]
<1> SUFFICES ASSUME NEW x \in disk'[n], x.id = d PROVE FALSE
  BY DEF Has
<1>1. x \notin disk[n]
  BY DEF Has
<1>2. Brings(n, k, x)
  BY <1>1, NewRecords DEF OneLane
<1>3. k.id \in AckIds /\ d # k.id /\ k.sent \subseteq {k.id}
  BY JobIds, BundleAssumption DEF JobSound
<1> QED
  BY <1>2, <1>3 DEF Brings, Rec

LEMMA AllGoneStep ==
  ASSUME OneLane, Sound, AllGone, [Next]_vars
  PROVE  AllGone'
<1> SUFFICES ASSUME NEW n \in Nodes, NEW l \in Lanes, task'[n][l] # Idle,
                    task'[n][l].job = "ack",
                    task'[n][l].stage \in {"keep", "settle", "forward"}
             PROVE  n = End(task'[n][l].id) \/ ~Has(disk'[n], AckOf[task'[n][l].id])
  BY DEF AllGone, Gone, End, Has
<1> DEFINE k == task[n][l]
           j == task'[n][l]
<1>1. CASE k # Idle /\ k.id = j.id /\ k.job = "ack" /\ k.stage \in {"keep", "settle", "forward"}
  BY <1>1, StaysGone DEF AllGone, Gone
<1>2. CASE k # Idle /\ Advances(n, k, j) /\ k.stage = "acknowledge"
  <2>1. AckOf[j.id] = k.id /\ n = Destination[k.id]
    BY <1>2, JobIds DEF Advances, JobSound
  <2> QED
    BY <2>1 DEF End
<1>3. CASE k # Idle /\ Advances(n, k, j) /\ k.stage \in {"mark", "purge"}
  <2>1. j.id = k.id /\ AckOf[k.id] \in Ids /\ disk[n] \in SUBSET Bundle
    BY <1>3, JobIds DEF Advances, Ids
  <2>2. CASE k.stage = "mark"
    <3>1. ~Has(disk[n], AckOf[k.id])
      BY <1>3, <2>2 DEF Advances
    <3>2. disk'[n] = Updated(disk[n], Rec(AckOf[k.id], "Delivered"))
      BY <1>3, <2>2 DEF Advances
    <3>3. Rec(AckOf[k.id], "Delivered") \in Bundle
      BY <2>1, RecOf DEF Status
    <3> QED
      BY <2>1, <3>1, <3>2, <3>3, UpdatedFacts
  <2>3. CASE k.stage = "purge"
    BY <1>3, <2>1, <2>3 DEF Advances, Without, Has
  <2> QED
    BY <1>3, <2>2, <2>3
<1>4. CASE k = Idle /\ Starts(n, j)
  BY <1>4 DEF Starts
<1>5. k # Idle => JobSound(n, k)
  BY JobIds
<1> QED
  BY <1>1, <1>2, <1>3, <1>4, <1>5, Jobs DEF Advances, JobSound

LEMMA NoDataBesideAckStep ==
  ASSUME Sound, AllGone, NoDataBesideAck, [Next]_vars
  PROVE  NoDataBesideAck'
<1> SUFFICES ASSUME NEW n \in Nodes, NEW d \in Data, n # Destination[d], Has(disk'[n], d),
                    NEW y \in disk'[n], IsAck(y), AckOf[y.id] = d, y.id \notin expired'
             PROVE  FALSE
  BY DEF NoDataBesideAck, HasAckFor, Live, IdsOf, Has
<1>1. y.id \notin expired /\ y.id \in AckIds /\ d \notin AckIds
  BY ExpiredStays, BundleAssumption DEF IsAck
<1>2. ~(Has(disk[n], d) /\ Has(disk[n], y.id))
  BY <1>1 DEF NoDataBesideAck, HasAckFor, Live, IdsOf, Has, IsAck
<1>3. \A i, s : Rec(i, s).id = i
  BY DEF Rec
<1>4. CASE ~Has(disk[n], d)
  <2>1. PICK x \in disk'[n] : x.id = d
    BY DEF Has
  <2>2. PICK l \in Lanes : task[n][l] # Idle /\ Writes(task[n][l], disk[n], disk'[n])
    BY <1>4, <2>1, Writers DEF Has, Without
  <2> DEFINE k == task[n][l]
             S == disk[n]
  <2>3. ASSUME NEW b \in Bundle, disk'[n] = Saved(S, b) PROVE FALSE
    <3>1. S \in SUBSET Bundle /\ ~Has(Live(S, expired), d)
      BY <1>4 DEF Sound, TypeOK, Has, Live
    <3>2. x = b
      BY <2>1, <2>3, <3>1, SavedFacts DEF Has
    <3>3. CanSave(Live(S, expired), b)
      BY <2>1, <2>3, <3>1, SavedFacts DEF Has
    <3>4. y \in Live(S, expired)
      BY <1>1, <2>1, <2>3, <3>1, <3>2, SavedFacts
    <3> QED
      BY <1>1, <2>1, <3>2, <3>3, <3>4 DEF CanSave, Barred, HasAckFor, IsAck
  <2>4. /\ k.stage = "save" => k.id \in Ids
        /\ k.stage = "deliver" => n = Destination[k.id] /\ k.id \in Ids
        /\ k.stage \in {"mark", "purge", "keep", "settle"} =>
             k.id \in AckIds /\ k.id \in Ids /\ AckOf[k.id] \in Ids
        /\ k.sent \subseteq Ids /\ S \in SUBSET Bundle
    BY <2>2, JobIds DEF Ids, JobSound
  <2>5. \A i \in Ids : \A s \in Status : Rec(i, s) \in Bundle
    BY RecOf
  <2>6. ASSUME NEW b \in Bundle, disk'[n] = Upserted(S, b) PROVE b.id # d
    BY <1>4, <2>3, <2>6 DEF Upserted
  <2>7. ASSUME NEW b \in Bundle, disk'[n] = Upserted(S, b) PROVE x = b \/ x \in S
    <3>1. Upserted(S, b) \subseteq S \cup {b}
      BY <2>4, CallsAddOne
    <3> QED
      BY <2>1, <2>7, <3>1
  <2>8. ASSUME NEW b \in Bundle, disk'[n] = Updated(S, b) PROVE Has(S, d)
    <3>1. Has(Updated(S, b), d) <=> Has(S, d)
      BY <2>4, UpdatedFacts
    <3> QED
      BY <2>8, <3>1
  <2>9. disk'[n] # Without(S, AckOf[k.id]) /\ x \notin S
    BY <1>4, <2>1 DEF Without, Has
  <2> QED
    BY <1>4, <2>1, <2>2, <2>3, <2>4, <2>5, <2>6, <2>7, <2>8, <2>9 DEF Writes, Status, Ids
<1>5. CASE ~Has(disk[n], y.id) /\ Has(disk[n], d)
  <2>1. PICK l \in Lanes : task[n][l] # Idle /\ Brings(n, task[n][l], y)
    BY <1>5, NewRecords DEF Has
  <2> DEFINE k == task[n][l]
  <2>2. JobSound(n, k) /\ Gone(n, k)
    BY <2>1, JobIds DEF AllGone
  <2>3. CASE k.stage \in {"save", "deliver"}
    BY <1>1, <1>3, <2>1, <2>3, JobIds, BundleAssumption DEF Brings
  <2>4. CASE k.stage = "acknowledge"
    BY <2>1, <2>2, <2>4 DEF Brings, JobSound
  <2>5. CASE k.stage = "mark"
    BY <1>5, <2>1, <2>5 DEF Brings
  <2>6. CASE k.stage \in {"keep", "settle"}
    <3>1. y.id = k.id /\ k.job = "ack"
      BY <1>3, <2>1, <2>2, <2>6 DEF Brings, JobSound, Task
    <3> QED
      BY <1>5, <2>2, <2>6, <3>1 DEF Gone, End
  <2>7. CASE k.stage = "forward"
    <3>1. y.id \in k.sent /\ (k.job = "retry" => Has(disk[n], y.id))
      BY <1>3, <2>1, <2>7 DEF Brings
    <3>2. k.job = "ack" /\ y.id = k.id
      BY <1>1, <1>5, <2>2, <3>1, BundleAssumption DEF JobSound, Task
    <3> QED
      BY <1>5, <2>2, <2>7, <3>2 DEF Gone, End
  <2> QED
    BY <2>1, <2>3, <2>4, <2>5, <2>6, <2>7 DEF Brings
<1> QED
  BY <1>2, <1>4, <1>5

(* No node but the destination has DATA beside a live ACK for it, in       *)
(* whatever order DATA, ACKs and retries arrive, however full the files,   *)
(* as long as each node does one job at a time.                            *)
THEOREM DataBesideNoAck ==
  ASSUME OneLane
  PROVE  Spec => []NoDataBesideAck
<1>1. Sound /\ AllGone /\ NoDataBesideAck /\ [Next]_vars => (AllGone /\ NoDataBesideAck)'
  BY AllGoneStep, NoDataBesideAckStep
<1>2. Init => AllGone /\ NoDataBesideAck
  BY DEF Init, AllGone, NoDataBesideAck, IdsOf
<1> QED
  BY <1>1, <1>2, SoundStep, EndsSoundInit, PTL DEF Spec

----------------------------------------------------------------------------
(* Every step is a whole call on one file, or leaves the files alone.      *)
Files == INSTANCE AtomicStore WITH store <- disk

LEMMA OneWrite ==
  ASSUME [Next]_vars
  PROVE  UNCHANGED disk \/ \E n \in Nodes : \E S : Write(n, S)
<1>1. ASSUME NEW n \in Nodes, NEW l \in Lanes, Step(n, l)
      PROVE  UNCHANGED disk \/ \E S : Write(n, S)
  <2>1. CASE \E p \in Nodes : Ask(n, l, p) \/ \E i \in Ids : Send(n, l, p, i)
    BY <2>1 DEF Ask, Send
  <2>2. CASE \/ Save(n, l) \/ Deliver(n, l) \/ Acknowledge(n, l) \/ Mark(n, l)
             \/ Purge(n, l) \/ Settle(n, l)
    BY <2>2 DEF Save, Deliver, Acknowledge, Mark, Purge, Settle
  <2>3. CASE Keep(n, l)
    BY <2>3 DEF Keep
  <2>4. CASE Finish(n, l)
    BY <2>4 DEF Finish
  <2> QED
    BY <1>1, <2>1, <2>2, <2>3, <2>4 DEF Step
<1>2. ASSUME NEW n \in Nodes, NEW l \in Lanes, NEW i \in Ids, Route(n, l, i)
      PROVE  UNCHANGED disk \/ \E S : Write(n, S)
  BY <1>2 DEF Route
<1> QED
  BY <1>1, <1>2 DEF Next, vars, CliSend, Handle, Retry, Stop, Crash, Start, Expire, Ids

(* The two modules use the operators of BundleStore with the same          *)
(* constants.                                                              *)
LEMMA SameRecords == Files!Ids = Ids /\ Files!Bundle = Bundle /\ Files!Ops = Ops
<1>1. Files!Ids = Ids /\ Files!Status = Status /\ Files!Ops = Ops
  BY DEF Files!Ids, Ids, Files!Status, Status, Files!Ops, Ops
<1> QED
  BY <1>1 DEF Files!Bundle, Bundle

LEMMA SameCalls ==
  ASSUME NEW S, NEW b, NEW gone
  PROVE  /\ Files!Live(S, gone) = Live(S, gone)
         /\ CanSave(S, b) =>
              Files!Accepts("save", S, b) /\ Files!Applied("save", S, b) = Added(S, b)
         /\ CanUpdate(S, b) =>
              Files!Accepts("update", S, b) /\ Files!Applied("update", S, b) = Replaced(S, b)
         /\ Has(S, b.id) =>
              Files!Accepts("delete", S, b) /\ Files!Applied("delete", S, b) = Without(S, b.id)
<1>1. Files!Has(S, b.id) <=> Has(S, b.id)
  BY DEF Files!Has, Has
<1>2. Files!Barred(S, b) <=> Barred(S, b)
  BY DEF Files!Barred, Barred, Files!IsAck, IsAck, Files!HasAckFor, HasAckFor
<1>3. Files!Cardinality(S) = Cardinality(S)
  BY DEF Files!Cardinality, Cardinality, Files!IsFiniteSet, IsFiniteSet
<1>4. /\ CanSave(S, b) => Files!Accepts("save", S, b)
      /\ CanUpdate(S, b) => Files!Accepts("update", S, b)
      /\ Has(S, b.id) => Files!Accepts("delete", S, b)
  BY <1>1, <1>2, <1>3 DEF Files!Accepts, Files!CanSave, CanSave, Files!CanUpdate, CanUpdate,
                          Files!CanDelete
<1>5. /\ Files!Applied("save", S, b) = Added(S, b)
      /\ Files!Applied("update", S, b) = Replaced(S, b)
      /\ Files!Applied("delete", S, b) = Without(S, b.id)
  BY DEF Files!Applied, Files!Added, Added, Files!Replaced, Replaced, Files!Without, Without
<1>6. Files!Live(S, gone) = Live(S, gone)
  BY DEF Files!Live, Live
<1> QED
  BY <1>4, <1>5, <1>6

(* A whole call, or the sweep of a save that is refused.                   *)
Called(n, S) ==
  \/ disk'[n] = S
  \/ disk'[n] = Live(S, expired)
  \/ \E b \in Bundle :
       \/ CanSave(Live(S, expired), b) /\ disk'[n] = Added(Live(S, expired), b)
       \/ CanUpdate(S, b) /\ disk'[n] = Replaced(S, b)
       \/ Has(S, b.id) /\ disk'[n] = Without(S, b.id)

LEMMA CallsOnly ==
  ASSUME Sound, [Next]_vars, NEW n \in Nodes
  PROVE  Called(n, disk[n])
<1> DEFINE S == disk[n]
           T == disk'[n]
<1>1. ASSUME NEW b \in Bundle, T = Saved(S, b) PROVE Called(n, S)
  BY <1>1 DEF Saved, Called
<1>2. ASSUME NEW b \in Bundle, T = Updated(S, b) PROVE Called(n, S)
  BY <1>2 DEF Updated, Called
<1>3. ASSUME NEW b \in Bundle, T = Upserted(S, b) PROVE Called(n, S)
  BY <1>1, <1>2, <1>3 DEF Upserted
<1>4. ASSUME NEW i \in Ids, T = Without(S, i) PROVE Called(n, S)
  <2>1. CASE Has(S, i)
    <3>1. PICK b \in S : b.id = i
      BY <2>1 DEF Has
    <3>2. b \in Bundle
      BY <3>1 DEF Sound, TypeOK
    <3> QED
      BY <1>4, <2>1, <3>1, <3>2 DEF Called
  <2>2. CASE ~Has(S, i)
    <3>1. Without(S, i) = S
      BY <2>2 DEF Has, Without
    <3> QED
      BY <1>4, <3>1 DEF Called
  <2> QED
    BY <2>1, <2>2
<1>5. CASE T = S
  BY <1>5 DEF Called
<1>6. ASSUME NEW l \in Lanes, task[n][l] # Idle, Writes(task[n][l], S, T)
      PROVE  Called(n, S)
  <2> DEFINE k == task[n][l]
  <2>1. /\ k.stage \in {"save", "deliver", "acknowledge"} => k.id \in Ids
        /\ k.stage \in {"mark", "purge", "keep", "settle"} => k.id \in Ids /\ AckOf[k.id] \in Ids
        /\ k.sent \subseteq Ids
    BY <1>6, JobIds DEF Ids
  <2>2. \/ \E b \in Bundle : T = Saved(S, b) \/ T = Updated(S, b) \/ T = Upserted(S, b)
        \/ \E i \in Ids : T = Without(S, i)
    BY <1>6, <2>1, RecOf DEF Writes, Status, Ids
  <2> QED
    BY <1>1, <1>2, <1>3, <1>4, <2>2
<1> QED
  BY <1>4, <1>5, <1>6, Writers DEF Ids

LEMMA FilesStep ==
  ASSUME Sound, [Next]_vars
  PROVE  [Files!Next]_(Files!vars)
<1>1. CASE UNCHANGED disk
  <2>1. CASE UNCHANGED expired
    BY <1>1, <2>1 DEF Files!vars
  <2>2. CASE \E i \in Ids : Expire(i)
    BY <1>1, <2>2, SameRecords DEF Expire, Files!Next, Files!Expire
  <2> QED
    BY <2>1, <2>2, Expiry
<1>2. ASSUME NEW n \in Nodes, NEW S, Write(n, S), ~UNCHANGED disk
      PROVE  Files!Next
  <2> DEFINE L == Live(disk[n], expired)
  <2>1. disk' = [disk EXCEPT ![n] = disk'[n]] /\ disk'[n] # disk[n]
    BY <1>2 DEF Write, Sound, TypeOK
  <2>2. UNCHANGED expired
    BY <1>2, Expiry DEF Expire
  <2>3. ASSUME NEW op \in {"save", "update", "delete"}, NEW b \in Bundle,
               NEW gone \in SUBSET (IF op = "save" THEN expired ELSE {}),
               Files!Accepts(op, Files!Live(disk[n], gone), b),
               disk'[n] = Files!Applied(op, Files!Live(disk[n], gone), b)
        PROVE  Files!Next
    <3>1. op \in Files!Ops /\ b \in Files!Bundle
      BY SameRecords DEF Ops
    <3>2. Files!Do(n, op, b)
      BY <2>1, <2>2, <2>3 DEF Files!Do
    <3> QED
      BY <3>1, <3>2 DEF Files!Next
  <2>4. CASE disk'[n] = L
    <3>1. Files!Live(disk[n], expired) = disk'[n]
      BY <2>4, SameCalls
    <3>2. Files!Sweep(n)
      BY <2>1, <2>2, <3>1 DEF Files!Sweep
    <3> QED
      BY <3>2 DEF Files!Next
  <2>5. ASSUME NEW b \in Bundle, CanSave(L, b), disk'[n] = Added(L, b) PROVE Files!Next
    BY <2>3, <2>5, SameCalls
  <2>6. Files!Live(disk[n], {}) = disk[n]
    BY DEF Files!Live
  <2>7. ASSUME NEW op \in {"update", "delete"}, NEW b \in Bundle,
               Files!Accepts(op, disk[n], b), disk'[n] = Files!Applied(op, disk[n], b)
        PROVE  Files!Next
    <3>1. {} \in SUBSET (IF op = "save" THEN expired ELSE {})
      OBVIOUS
    <3> QED
      BY <2>3, <2>6, <2>7, <3>1
  <2>8. ASSUME NEW b \in Bundle, CanUpdate(disk[n], b), disk'[n] = Replaced(disk[n], b)
        PROVE  Files!Next
    BY <2>7, <2>8, SameCalls
  <2>9. ASSUME NEW b \in Bundle, Has(disk[n], b.id), disk'[n] = Without(disk[n], b.id)
        PROVE  Files!Next
    BY <2>7, <2>9, SameCalls
  <2> QED
    BY <2>1, <2>4, <2>5, <2>8, <2>9, CallsOnly DEF Called
<1> QED
  BY <1>1, <1>2, OneWrite

(* Whatever the nodes do and whatever goes wrong, their files change as    *)
(* the storage layer promises, by whole calls that it accepts: Routing     *)
(* assumes of the files what StorageProofs shows of the calls (storage.rs: *)
(* save_bundle, update_bundle, delete_bundle).                             *)
THEOREM FilesAreAtomic == Spec => Files!Spec
<1>1. Init => Files!Init
  BY DEF Init, Files!Init
<1> QED
  BY <1>1, FilesStep, SoundStep, EndsSoundInit, PTL DEF Spec, Files!Spec

==============================================================================
