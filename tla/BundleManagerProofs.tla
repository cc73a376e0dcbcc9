------------------------ MODULE BundleManagerProofs -------------------------
(***************************************************************************)
(* Theorems about the jobs of the bundle manager, for every set of nodes,  *)
(* bundles and ends of bundles and every capacity.  What is proved of the  *)
(* storage layer in StorageProofs holds of it under these jobs, whose      *)
(* calls are calls of Storage.  Then come the theorems about the jobs      *)
(* themselves, where no two threads work on one directory.                 *)
(***************************************************************************)
EXTENDS BundleManager, TLAPS

NoOverlap == \A t, u \in Threads : Home[t] = Home[u] => t = u

NoReadFaults == "read" \notin IoFaults

NoFaults == IoFaults = {}

----------------------------------------------------------------------------
(* The theorems about Storage, over the variables of the bundle manager.   *)
Facts == INSTANCE StorageProofs

----------------------------------------------------------------------------
(* The calls of the jobs are calls of the storage layer.                   *)

(* What a job is and which call it is in, whatever overlaps and whatever   *)
(* fails.                                                                  *)
JobTyped(k, gone) ==
  /\ k \in Task
  /\ k.pc \in {"find", "mark", "purge", "known", "stored"} => IsAck(k.bundle)
  /\ k.pc = "delete" => k.bundle.id \in gone

OwnCall(k, c) ==
  /\ k # Idle /\ k.pc \in Writes
  /\ c.op = OpAt[k.pc] /\ c.bundle = Argument(k)

CallsOwned == \A t \in Threads : Store!InCall(t) => OwnCall(task[t], call[t])

TasksTyped ==
  /\ TypeOK
  /\ \A t \in Threads : Busy(t) => JobTyped(task[t], expired)
  /\ CallsOwned

(* Facts has the definitions of Store under names of its own.              *)
LEMMA SameStore ==
  /\ Store!TypeOK <=> Facts!TypeOK
  /\ Store!Init <=> Facts!Init
  /\ Store!FilesWellFormed <=> Facts!FilesWellFormed
  /\ Store!vars = Facts!vars
<1>1. Store!Bundle = Facts!Bundle /\ Store!Ids = Facts!Ids /\ Store!Ops = Facts!Ops
  BY DEF Store!Bundle, Facts!Bundle, Store!Ids, Facts!Ids, Store!Status, Facts!Status,
         Store!Ops, Facts!Ops
<1>2. Store!TypeOK <=> Facts!TypeOK
  BY <1>1 DEF Store!TypeOK, Facts!TypeOK, Store!Call, Facts!Call, Store!NoCall, Facts!NoCall
<1>3. Store!FilesWellFormed <=> Facts!FilesWellFormed
  BY DEF Store!FilesWellFormed, Facts!FilesWellFormed, Store!UniqueIds, Facts!UniqueIds,
         Store!WithinCapacity, Facts!WithinCapacity, Store!Cardinality, Facts!Cardinality,
         Store!IsFiniteSet, Facts!IsFiniteSet
<1>4. Store!Init <=> Facts!Init
  BY DEF Store!Init, Facts!Init, Store!NoCall, Facts!NoCall
<1> QED
  BY <1>2, <1>3, <1>4 DEF Store!vars, Facts!vars

LEMMA SameTypes ==
  Store!Bundle = Facts!Bundle /\ Store!Ids = Facts!Ids /\ Store!Call = Facts!Call
<1>1. Store!Bundle = Facts!Bundle /\ Store!Ids = Facts!Ids /\ Store!Ops = Facts!Ops
  BY DEF Store!Bundle, Facts!Bundle, Store!Ids, Facts!Ids, Store!Status, Facts!Status,
         Store!Ops, Facts!Ops
<1> QED
  BY <1>1 DEF Store!Call, Facts!Call

LEMMA SameDecisions ==
  ASSUME NEW S, NEW b
  PROVE  /\ Store!CanSave(S, b) <=> Facts!CanSave(S, b)
         /\ Store!CanUpdate(S, b) <=> Facts!CanUpdate(S, b)
         /\ Store!CanDelete(S, b) <=> Facts!CanDelete(S, b)
         /\ Store!CanSaveAck(S, b) <=> Facts!CanSaveAck(S, b)
<1>1. \A i : /\ Store!Has(S, i) <=> Facts!Has(S, i)
             /\ Store!HasAckFor(S, i) <=> Facts!HasAckFor(S, i)
  BY DEF Store!Has, Facts!Has, Store!HasAckFor, Facts!HasAckFor, Store!IsAck, Facts!IsAck
<1>2. Store!Barred(S, b) <=> Facts!Barred(S, b)
  BY <1>1 DEF Store!Barred, Facts!Barred, Store!IsAck, Facts!IsAck
<1>3. Store!Cardinality(S) = Facts!Cardinality(S)
  BY DEF Store!Cardinality, Facts!Cardinality
<1>4. Store!CanSave(S, b) <=> Facts!CanSave(S, b)
  BY <1>1, <1>2, <1>3 DEF Store!CanSave, Facts!CanSave
<1>5. Store!CanUpdate(S, b) <=> Facts!CanUpdate(S, b)
  BY <1>1, <1>2 DEF Store!CanUpdate, Facts!CanUpdate
<1>6. Store!CanDelete(S, b) <=> Facts!CanDelete(S, b)
  BY <1>1 DEF Store!CanDelete, Facts!CanDelete
<1>7. Store!CanSaveAck(S, b) <=> Facts!CanSaveAck(S, b)
  BY <1>1, <1>3 DEF Store!CanSaveAck, Facts!CanSaveAck, Store!IsAck, Facts!IsAck
<1> QED
  BY <1>4, <1>5, <1>6, <1>7

LEMMA SameCalls ==
  ASSUME NEW op, NEW S, NEW b
  PROVE  /\ Store!Accepts(op, S, b) <=> Facts!Accepts(op, S, b)
         /\ Store!Applied(op, S, b) = Facts!Applied(op, S, b)
BY SameDecisions DEF Store!Accepts, Facts!Accepts, Store!Applied, Facts!Applied, Store!Added,
   Facts!Added, Store!Replaced, Facts!Replaced, Store!Without, Facts!Without

LEMMA SameSteps == Store!Next <=> Facts!Next
<1> USE DEF Store!InCall, Facts!InCall, Store!NoCall, Facts!NoCall
<1>0. Store!Bundle = Facts!Bundle /\ Store!Ids = Facts!Ids /\ Store!Ops = Facts!Ops
  BY DEF Store!Bundle, Facts!Bundle, Store!Ids, Facts!Ids, Store!Status, Facts!Status,
         Store!Ops, Facts!Ops
<1>1. ASSUME NEW t, NEW op, NEW b PROVE Store!Begin(t, op, b) <=> Facts!Begin(t, op, b)
  BY DEF Store!Begin, Facts!Begin, Store!Readings, Facts!Readings, Store!IdsOf, Facts!IdsOf
<1>2. ASSUME NEW t PROVE Store!Sweep(t) <=> Facts!Sweep(t)
  BY DEF Store!Sweep, Facts!Sweep, Store!Live, Facts!Live
<1>3. ASSUME NEW t, NEW ok \in BOOLEAN PROVE Store!End(t, ok) <=> Facts!End(t, ok)
  BY SameCalls DEF Store!End, Facts!End
<1>4. ASSUME NEW t, NEW b PROVE Store!SaveAckIfNew(t, b) <=> Facts!SaveAckIfNew(t, b)
  BY SameDecisions DEF Store!SaveAckIfNew, Facts!SaveAckIfNew, Store!Readings, Facts!Readings,
                       Store!Added, Facts!Added
<1>5. ASSUME NEW i PROVE Store!Expire(i) <=> Facts!Expire(i)
  BY DEF Store!Expire, Facts!Expire
<1>6. ASSUME NEW n PROVE Store!Crash(n) <=> Facts!Crash(n)
  BY DEF Store!Crash, Facts!Crash
<1> QED
  BY <1>0, <1>1, <1>2, <1>3, <1>4, <1>5, <1>6, Zenon DEF Store!Next, Facts!Next

LEMMA StoreTypes ==
  /\ Store!Bundle = Bundle /\ Store!Ids = Ids /\ Store!Ops = Ops
  /\ Store!NoCall = [op |-> "none"]
BY DEF Store!Bundle, Bundle, Store!Ids, Ids, Store!Status, Status, Store!Ops, Ops,
       Store!NoCall

LEMMA SameBoxes ==
  Store!Next \/ UNCHANGED (Store!vars) => [Facts!Next]_(Facts!vars)
BY SameSteps DEF Store!vars, Facts!vars

LEMMA TypedArgument ==
  ASSUME NEW k, JobTyped(k, expired), k.pc \in Writes
  PROVE  OpAt[k.pc] \in Store!Ops /\ Argument(k) \in Store!Bundle
<1>1. Store!Bundle = Bundle /\ Store!Ops = Ops
  BY DEF Store!Bundle, Bundle, Store!Ids, Ids, Store!Status, Status, Store!Ops, Ops
<1>2. OpAt[k.pc] \in Ops
  BY DEF OpAt, Writes, Ops
<1>3. Argument(k) \in Bundle
  <2>1. CASE k.pc \in {"mark", "purge"}
    <3>1. k.bundle.id \in AckIds
      BY <2>1 DEF JobTyped, IsAck
    <3>2. AckOf[k.bundle.id] \in Data
      BY <3>1, BundleAssumption
    <3> QED
      BY <2>1, <3>2 DEF Argument, Acked, Bundle, Ids, Status
  <2>2. CASE k.pc \notin {"mark", "purge"}
    BY <2>2 DEF Argument, JobTyped, Task
  <2> QED
    BY <2>1, <2>2
<1> QED
  BY <1>1, <1>2, <1>3

(* The steps of the jobs that only read.                                   *)
ReadStep(t) ==
  \/ \E b \in Bundle : Start(t, b)
  \/ Retry(t)
  \/ HasBundle(t) \/ Check(t) \/ Create(t) \/ Get(t) \/ Look(t)
  \/ FindData(t) \/ Known(t) \/ Stored(t)

LEMMA StoreStep == TasksTyped /\ [Next]_vars => [Store!Next]_(Store!vars)
<1> SUFFICES ASSUME TasksTyped, [Next]_vars
             PROVE  Store!Next \/ UNCHANGED <<disk, call, expired>>
  BY DEF Store!vars
<1>1. ASSUME NEW t \in Threads, ReadStep(t) PROVE UNCHANGED <<disk, call, expired>>
  BY <1>1 DEF ReadStep, Start, Retry, HasBundle, Check, Create, Get, Look, FindData, Known,
              Stored, Reading
<1>2. ASSUME NEW t \in Threads, Call(t) PROVE Store!Next
  <2>1. PICK pc \in Writes : At(t, pc) /\ Store!Begin(t, OpAt[pc], Argument(task[t]))
    BY <1>2 DEF Call
  <2>2. JobTyped(task[t], expired) /\ task[t].pc = pc
    BY <2>1 DEF At, TasksTyped
  <2>3. OpAt[pc] \in Store!Ops /\ Argument(task[t]) \in Store!Bundle
    BY <2>2, TypedArgument
  <2> QED
    BY <2>1, <2>3 DEF Store!Next
<1>3. ASSUME NEW t \in Threads, Sweep(t) PROVE Store!Next
  BY <1>3 DEF Sweep, Store!Next
<1>4. ASSUME NEW t \in Threads, NEW ok \in BOOLEAN, Return(t, ok) PROVE Store!Next
  BY <1>4 DEF Return, Store!Next
<1>5. ASSUME NEW i \in Ids, Expire(i) PROVE Store!Next
  BY <1>5 DEF Expire, Store!Next, Store!Ids, Ids
<1>6. ASSUME NEW n \in Nodes, Crash(n) PROVE Store!Next \/ UNCHANGED <<disk, call, expired>>
  <2>0. UNCHANGED <<disk, expired>>
        /\ call' = [t \in Threads |-> IF Home[t] = n THEN Store!NoCall ELSE call[t]]
    BY <1>6 DEF Crash
  <2>1. CASE \E t \in Threads : Home[t] = n /\ Store!InCall(t)
    BY <2>0, <2>1 DEF Store!Crash, Store!Next
  <2>2. CASE \A t \in Threads : Home[t] = n => call[t] = Store!NoCall
    <3>1. call = [t \in Threads |-> call[t]]
      BY DEF TasksTyped, TypeOK, Store!TypeOK
    <3>2. call' = call
      BY <2>0, <2>2, <3>1
    <3> QED
      BY <2>0, <3>2
  <2> QED
    BY <2>1, <2>2 DEF Store!InCall
<1>7. CASE UNCHANGED vars
  BY <1>7 DEF vars
<1>8. Next => \/ \E t \in Threads :
                   \/ ReadStep(t) \/ Call(t) \/ Sweep(t)
                   \/ \E ok \in BOOLEAN : Return(t, ok)
              \/ \E i \in Ids : Expire(i)
              \/ \E n \in Nodes : Crash(n)
  BY DEF Next, ReadStep
<1> QED
  BY <1>1, <1>2, <1>3, <1>4, <1>5, <1>6, <1>7, <1>8

LEMMA TypedNext ==
  ASSUME NEW t \in Threads, NEW ok \in BOOLEAN, JobTyped(task[t], expired),
         NEW next \in After(t, ok)
  PROVE  next[1] = "done" \/ JobTyped([bundle |-> next[2], pc |-> next[1]], expired)
<1> DEFINE pc == task[t].pc
           b == task[t].bundle
<1>1. b \in Bundle /\ As(b, "Delivered") \in Bundle /\ As(b, "InTransit") \in Bundle
  BY DEF JobTyped, Task, As, Bundle, Status
<1>2. \/ pc = "mark" /\ next = <<"purge", b>>
      \/ pc = "purge" /\ next = <<"known", b>>
      \/ next \in {<<"look", As(b, "Delivered")>>, <<"look", As(b, "InTransit")>>,
                   <<"create", b>>, <<"done", b>>}
  BY DEF After
<1> QED
  BY <1>1, <1>2 DEF JobTyped, Task, Reads, Writes

LEMMA GoTyped ==
  ASSUME TasksTyped, NEW t \in Threads, NEW k, k = Idle \/ JobTyped(k, expired),
         task' = [task EXCEPT ![t] = k],
         Store!TypeOK', made' \subseteq AckIds, UNCHANGED <<expired, ends>>,
         ~Store!InCall(t)', \A u \in Threads : u # t => call'[u] = call[u]
  PROVE  TasksTyped'
<1>1. \A u \in Threads : task'[u] = IF u = t THEN k ELSE task[u]
  BY DEF TasksTyped, TypeOK
<1>2. k \in Task \cup {Idle}
  BY DEF JobTyped
<1>3. TypeOK'
  BY <1>2 DEF TasksTyped, TypeOK, ends
<1>4. \A u \in Threads : task'[u] # Idle => JobTyped(task'[u], expired)
  BY <1>1 DEF TasksTyped, Busy
<1>5. \A u \in Threads : Busy(u)' => JobTyped(task[u], expired)'
  BY <1>4 DEF Busy, JobTyped
<1>6. ASSUME NEW u \in Threads, Store!InCall(u)' PROVE OwnCall(task[u], call[u])'
  <2>1. u # t /\ task'[u] = task[u] /\ call'[u] = call[u]
    BY <1>1, <1>6
  <2>2. OwnCall(task[u], call[u])
    BY <1>6, <2>1 DEF Store!InCall, TasksTyped, CallsOwned
  <2> QED
    BY <2>1, <2>2 DEF OwnCall, Argument, Acked
<1> QED
  BY <1>3, <1>5, <1>6 DEF TasksTyped, CallsOwned

LEMMA ReadTyped ==
  ASSUME TasksTyped, NEW t \in Threads, ReadStep(t), Store!TypeOK'
  PROVE  TasksTyped'
<1> DEFINE k == task[t]
           b == task[t].bundle
           Job(pc, c) == [bundle |-> c, pc |-> pc]
<1>1. UNCHANGED <<disk, call, expired, ends, made>>
  BY DEF ReadStep, Start, Retry, HasBundle, Check, Create, Get, Look, FindData, Known, Stored,
         Reading
<1>2. \A S \in Store!Readings(Home[t]) : S \subseteq Bundle
  BY StoreTypes, ManagerAssumption DEF Store!Readings, TasksTyped, TypeOK, Store!TypeOK
<1>3. ASSUME Busy(t)
      PROVE  /\ k \in Task /\ b \in Bundle
             /\ As(b, "Delivered") \in Bundle /\ As(b, "InTransit") \in Bundle
             /\ k.pc \in {"find", "known", "stored"} => IsAck(b)
  BY <1>3 DEF TasksTyped, JobTyped, Task, As, Bundle, Status
<1>4. \A pc, c : Go(t, pc, c) =>
        \/ pc = "done" /\ task' = [task EXCEPT ![t] = Idle]
        \/ pc # "done" /\ task' = [task EXCEPT ![t] = Job(pc, c)]
  BY DEF Go
<1>5. \E pc, c : /\ Go(t, pc, c)
                 /\ pc = "done" \/ JobTyped(Job(pc, c), expired)
  <2>1. CASE \E c \in Bundle : Start(t, c)
    BY <2>1 DEF Start, JobTyped, Task, Reads
  <2>2. CASE Retry(t)
    BY <1>2, <2>2 DEF Retry, JobTyped, Task, Reads
  <2>3. CASE HasBundle(t)
    BY <1>3, <2>3 DEF HasBundle, Reading, At, JobTyped, Task, Reads
  <2>4. CASE Check(t)
    BY <1>3, <2>4 DEF Check, Reading, At, JobTyped, Task, Reads, Writes
  <2>5. CASE Create(t)
    <3>1. PICK a \in AckIds, pc \in {"done", "keep"} : Go(t, pc, [id |-> a, status |-> "Pending"])
      BY <2>5 DEF Create
    <3> QED
      BY <3>1 DEF JobTyped, Task, Bundle, Ids, Status, Writes
  <2>6. CASE Get(t)
    BY <1>3, <2>6 DEF Get, Reading, At, JobTyped, Task, Reads
  <2>7. CASE Look(t)
    BY <1>3, <2>7 DEF Look, Reading, At, JobTyped, Task, Writes
  <2>8. CASE FindData(t)
    BY <1>3, <2>8 DEF FindData, Reading, At, JobTyped, Task, Reads, Writes
  <2>9. CASE Known(t) \/ Stored(t)
    BY <1>3, <2>9 DEF Known, Stored, Duplicate, Reading, At, JobTyped, Task, Reads, Writes
  <2> QED
    BY <2>1, <2>2, <2>3, <2>4, <2>5, <2>6, <2>7, <2>8, <2>9 DEF ReadStep
<1>6. PICK j : (j = Idle \/ JobTyped(j, expired)) /\ task' = [task EXCEPT ![t] = j]
  BY <1>4, <1>5
<1>7. made' \subseteq AckIds
  BY <1>1 DEF TasksTyped, TypeOK
<1>8. ~Store!InCall(t)'
  <2>1. ~Store!InCall(t)
    BY DEF ReadStep, Start, Retry, HasBundle, Check, Create, Get, Look, FindData, Known,
           Stored, Reading, At, TasksTyped, CallsOwned, OwnCall, Busy
  <2> QED
    BY <1>1, <2>1 DEF Store!InCall
<1> QED
  BY <1>1, <1>6, <1>7, <1>8, GoTyped

LEMMA ReturnTyped ==
  ASSUME TasksTyped, NEW t \in Threads, NEW ok \in BOOLEAN, Return(t, ok), Store!TypeOK'
  PROVE  TasksTyped'
<1>1. Busy(t) /\ JobTyped(task[t], expired)
  BY DEF Return, TasksTyped
<1>2. PICK next \in After(t, ok) : Go(t, next[1], next[2])
  BY DEF Return
<1>3. next[1] = "done" \/ JobTyped([bundle |-> next[2], pc |-> next[1]], expired)
  BY <1>1, TypedNext
<1>4. PICK j : (j = Idle \/ JobTyped(j, expired)) /\ task' = [task EXCEPT ![t] = j]
  BY <1>2, <1>3 DEF Go
<1>5. made' \subseteq AckIds /\ UNCHANGED ends
  BY DEF Return, Creates, IsAck, TasksTyped, TypeOK
<1>6. expired' = expired /\ call' = [call EXCEPT ![t] = Store!NoCall]
  BY DEF Return, Store!End
<1>7. ~Store!InCall(t)' /\ \A u \in Threads : u # t => call'[u] = call[u]
  BY <1>6 DEF TasksTyped, TypeOK, Store!TypeOK, Store!InCall
<1> QED
  BY <1>4, <1>5, <1>6, <1>7, GoTyped

LEMMA TypedStep == TasksTyped /\ [Next]_vars => TasksTyped'
<1> SUFFICES ASSUME TasksTyped, [Next]_vars PROVE TasksTyped'
  OBVIOUS
<1>1. Store!TypeOK'
  <2>1. Facts!TypeOK /\ [Facts!Next]_(Facts!vars)
    BY StoreStep, SameStore, SameBoxes DEF TasksTyped, TypeOK
  <2>2. Facts!TypeOK'
    BY <2>1, Facts!TypeStep, BundleAssumption, ManagerAssumption
    DEF Facts!StorageAssumption, Facts!BundleAssumption
  <2> QED
    BY <2>2, SameTypes DEF Store!TypeOK, Facts!TypeOK, Store!NoCall, Facts!NoCall
<1>2. ASSUME NEW t \in Threads, ReadStep(t) PROVE TasksTyped'
  BY <1>1, <1>2, ReadTyped
<1>3. ASSUME NEW t \in Threads, NEW ok \in BOOLEAN, Return(t, ok) PROVE TasksTyped'
  BY <1>1, <1>3, ReturnTyped
<1>4. ASSUME UNCHANGED <<task, ends, made>>, expired \subseteq expired', CallsOwned'
      PROVE  TasksTyped'
  BY <1>1, <1>4 DEF TasksTyped, TypeOK, ends, Busy, JobTyped
<1>5. ASSUME UNCHANGED <<task, call>> PROVE CallsOwned'
  BY <1>5 DEF TasksTyped, CallsOwned, OwnCall, Argument, Acked, Store!InCall
<1>6. ASSUME NEW t \in Threads, Call(t) PROVE TasksTyped'
  <2>1. PICK pc \in Writes : At(t, pc) /\ Store!Begin(t, OpAt[pc], Argument(task[t]))
    BY <1>6 DEF Call
  <2>2. \A u \in Threads : u # t => call'[u] = call[u]
    BY <2>1 DEF Store!Begin, TasksTyped, TypeOK, Store!TypeOK
  <2>3. call'[t].op = OpAt[pc] /\ call'[t].bundle = Argument(task[t])
    BY <2>1 DEF Store!Begin, TasksTyped, TypeOK, Store!TypeOK
  <2>4. OwnCall(task[t], call'[t])
    BY <2>1, <2>3 DEF At, Busy, OwnCall
  <2>5. \A u \in Threads : call'[u] # Store!NoCall => OwnCall(task[u], call'[u])
    BY <2>2, <2>4 DEF TasksTyped, CallsOwned, Store!InCall
  <2>6. UNCHANGED <<task, ends, made, expired>>
    BY <1>6, <2>1 DEF Call, Store!Begin
  <2>7. CallsOwned'
    BY <2>5, <2>6 DEF CallsOwned, OwnCall, Argument, Acked, Store!InCall, Store!NoCall
  <2> QED
    BY <1>4, <2>6, <2>7
<1>7. ASSUME NEW t \in Threads, Sweep(t) PROVE TasksTyped'
  <2>1. Store!InCall(t) /\ UNCHANGED <<task, ends, made, expired>>
    BY <1>7 DEF Sweep, Store!Sweep
  <2>2. call' = [call EXCEPT ![t] = [op |-> call[t].op, bundle |-> call[t].bundle,
                   view |-> Store!Live(call[t].view, expired), stage |-> "write"]]
    BY <1>7 DEF Sweep, Store!Sweep
  <2>3. \A u \in Threads : u # t => call'[u] = call[u]
    BY <2>2 DEF TasksTyped, TypeOK, Store!TypeOK
  <2>4. call'[t].op = call[t].op /\ call'[t].bundle = call[t].bundle
    BY <2>2 DEF TasksTyped, TypeOK, Store!TypeOK
  <2>5. \A u \in Threads : call'[u] # Store!NoCall => OwnCall(task[u], call'[u])
    BY <2>1, <2>3, <2>4 DEF TasksTyped, CallsOwned, OwnCall, Store!InCall
  <2>6. CallsOwned'
    BY <2>1, <2>5 DEF CallsOwned, OwnCall, Argument, Acked, Store!InCall, Store!NoCall
  <2> QED
    BY <1>4, <2>1, <2>6
<1>8. ASSUME NEW i \in Ids, Expire(i) PROVE TasksTyped'
  <2>1. UNCHANGED <<task, call, ends, made>> /\ expired \subseteq expired'
    BY <1>8 DEF Expire, Store!Expire
  <2> QED
    BY <1>4, <1>5, <2>1
<1>9. ASSUME NEW n \in Nodes, Crash(n) PROVE TasksTyped'
  <2>1. /\ task' = [t \in Threads |-> IF Home[t] = n THEN Idle ELSE task[t]]
        /\ call' = [t \in Threads |-> IF Home[t] = n THEN Store!NoCall ELSE call[t]]
        /\ UNCHANGED <<expired, ends, made>>
    BY <1>9 DEF Crash
  <2>2. TypeOK'
    BY <1>1, <2>1 DEF TasksTyped, TypeOK, ends
  <2>3. \A t \in Threads : Busy(t)' => JobTyped(task[t], expired)'
    BY <2>1 DEF TasksTyped, Busy, JobTyped
  <2>4. \A t \in Threads : call'[t] # Store!NoCall => OwnCall(task'[t], call'[t])
    BY <2>1 DEF TasksTyped, CallsOwned, OwnCall, Store!InCall
  <2>5. CallsOwned'
    BY <2>4 DEF CallsOwned, OwnCall, Argument, Acked, Store!InCall, Store!NoCall
  <2> QED
    BY <2>2, <2>3, <2>5 DEF TasksTyped
<1>10. CASE UNCHANGED vars
  <2>1. UNCHANGED <<task, call, ends, made, expired>>
    BY <1>10 DEF vars, ends
  <2> QED
    BY <1>4, <1>5, <2>1
<1>11. Next => \/ \E t \in Threads :
                    \/ ReadStep(t) \/ Call(t) \/ Sweep(t)
                    \/ \E ok \in BOOLEAN : Return(t, ok)
               \/ \E i \in Ids : Expire(i)
               \/ \E n \in Nodes : Crash(n)
  BY DEF Next, ReadStep
<1> QED
  BY <1>2, <1>3, <1>6, <1>7, <1>8, <1>9, <1>10, <1>11

LEMMA TypedInit == Init => TasksTyped
BY DEF Init, Store!Init, TasksTyped, CallsOwned, TypeOK, Store!TypeOK, Busy, Store!InCall

(* The jobs, the calls they are in and the files keep their type, whatever *)
(* threads overlap, fail or crash.                                         *)
THEOREM TypeCorrect == Spec => []TypeOK
<1>1. TasksTyped => TypeOK
  BY DEF TasksTyped
<1> QED
  BY <1>1, TypedInit, TypedStep, PTL DEF Spec

(* What the jobs do to the files is what the storage layer allows: every   *)
(* step of every job is a step of Storage or leaves its variables alone,   *)
(* whatever overlaps, fails or crashes.                                    *)
THEOREM StorageOfManager == Spec => Store!Spec
<1>1. Init => Store!Init
  BY DEF Init
<1> QED
  BY <1>1, TypedInit, TypedStep, StoreStep, PTL DEF Spec, Store!Spec

(* So no file has a bundle twice or too many bundles, whatever jobs work   *)
(* on it at once (save_bundle).                                            *)
THEOREM FilesStayWellFormed == Spec => []Store!FilesWellFormed
<1>1. Store!Init <=> Facts!Init
  BY SameStore
<1>2. [Store!Next]_(Store!vars) => [Facts!Next]_(Facts!vars)
  BY SameBoxes
<1>3. Store!FilesWellFormed <=> Facts!FilesWellFormed
  BY SameStore
<1>4. Facts!Spec => []Facts!FilesWellFormed
  BY Facts!FilesStayWellFormed, BundleAssumption, ManagerAssumption
  DEF Facts!StorageAssumption, Facts!BundleAssumption
<1> QED
  BY <1>1, <1>2, <1>3, <1>4, StorageOfManager, PTL DEF Store!Spec, Facts!Spec

LEMMA SameHypotheses ==
  (Facts!NoOverlap <=> NoOverlap) /\ (Facts!NoReadFaults <=> NoReadFaults)
BY DEF NoOverlap, NoReadFaults, Facts!NoOverlap, Facts!NoReadFaults

LEMMA StoreSpec == Spec => Facts!Spec
<1>1. Store!Init => Facts!Init
  BY SameStore
<1> QED
  BY <1>1, SameBoxes, StorageOfManager, PTL DEF Store!Spec, Facts!Spec, Store!vars

(* Where no threads share a directory and every read succeeds, each call   *)
(* of a job acts on the file as it is: the files under the jobs are an     *)
(* AtomicStore, whatever writes fail and wherever the jobs crash.          *)
THEOREM FilesAreAtomic ==
  NoOverlap /\ NoReadFaults => (Spec => Facts!ImplementsAtomicStore)
<1> SUFFICES ASSUME NoOverlap, NoReadFaults PROVE Spec => Facts!ImplementsAtomicStore
  OBVIOUS
<1>1. Facts!NoOverlap /\ Facts!NoReadFaults
  BY SameHypotheses
<1>2. Facts!Spec => Facts!ImplementsAtomicStore
  BY <1>1, Facts!Refinement, BundleAssumption, ManagerAssumption
  DEF Facts!StorageAssumption, Facts!BundleAssumption
<1> QED
  BY <1>2, StoreSpec, PTL

(* Nor does a call of a job put DATA into a file that has a live ACK for   *)
(* it, however long ago the job looked (save_bundle, upsert_bundle).       *)
THEOREM NoDataReturns ==
  NoOverlap /\ NoReadFaults => (Spec => Facts!NoResurrection)
<1> SUFFICES ASSUME NoOverlap, NoReadFaults PROVE Spec => Facts!NoResurrection
  OBVIOUS
<1>1. Facts!NoOverlap /\ Facts!NoReadFaults
  BY SameHypotheses
<1>2. Facts!Spec => Facts!NoResurrection
  BY <1>1, Facts!NoDataReturns, BundleAssumption, ManagerAssumption
  DEF Facts!StorageAssumption, Facts!BundleAssumption
<1> QED
  BY <1>2, StoreSpec, PTL

LEMMA ViewsStay == NoOverlap /\ NoReadFaults => (Spec => []Facts!InSync)
<1> SUFFICES ASSUME NoOverlap, NoReadFaults PROVE Spec => []Facts!InSync
  OBVIOUS
<1>1. Facts!NoOverlap /\ Facts!NoReadFaults
  BY SameHypotheses
<1>2. Facts!Spec => []Facts!InSync
  BY <1>1, Facts!ViewsInSync, BundleAssumption, ManagerAssumption
  DEF Facts!StorageAssumption, Facts!BundleAssumption
<1> QED
  BY <1>2, StoreSpec, PTL

(* A bundle leaves a file only when it has expired, or when a job of the   *)
(* node purges it because of an ACK for it (handle_incoming_ack).          *)
PurgedForAcks ==
  [][\A n \in Nodes : \A i \in IdsOf(disk[n]) \ IdsOf(disk'[n]) :
       \/ i \in expired
       \/ \E t \in Threads : /\ Home[t] = n /\ Busy(t) /\ task[t].pc = "purge"
                             /\ AckOf[task[t].bundle.id] = i]_vars

LEMMA PurgeStep ==
  ASSUME NoOverlap, NoReadFaults
  PROVE  TasksTyped /\ Facts!InSync /\ [Next]_vars =>
           \A n \in Nodes : \A i \in IdsOf(disk[n]) \ IdsOf(disk'[n]) :
             \/ i \in expired
             \/ \E t \in Threads : /\ Home[t] = n /\ Busy(t) /\ task[t].pc = "purge"
                                   /\ AckOf[task[t].bundle.id] = i
<1> SUFFICES ASSUME TasksTyped, Facts!InSync, [Next]_vars,
                    NEW n \in Nodes, NEW i \in IdsOf(disk[n]) \ IdsOf(disk'[n]),
                    i \notin expired
             PROVE  \E t \in Threads : /\ Home[t] = n /\ Busy(t) /\ task[t].pc = "purge"
                                       /\ AckOf[task[t].bundle.id] = i
  OBVIOUS
<1>1. Facts!NoOverlap /\ Facts!NoReadFaults
  BY SameHypotheses
<1>2. Facts!TypeOK /\ [Facts!Next]_(Facts!vars)
  BY StoreStep, SameStore, SameBoxes DEF TasksTyped, TypeOK
<1>3. \A m \in Nodes : \A j \in Facts!IdsOf(disk[m]) \ Facts!IdsOf(disk'[m]) :
        \/ j \in expired
        \/ \E t \in Threads : /\ Home[t] = m /\ Facts!InCall(t) /\ ~Facts!InCall(t)'
                              /\ call[t].op = "delete"
                              /\ call[t].bundle.id = j
  BY <1>1, <1>2, Facts!PurposeStep, BundleAssumption, ManagerAssumption
  DEF Facts!StorageAssumption, Facts!BundleAssumption
<1>4. PICK t \in Threads : /\ Home[t] = n /\ Store!InCall(t)
                           /\ call[t].op = "delete" /\ call[t].bundle.id = i
  BY <1>3 DEF Facts!IdsOf, IdsOf, Facts!InCall, Store!InCall, Facts!NoCall, Store!NoCall
<1>5. OwnCall(task[t], call[t]) /\ Busy(t) /\ JobTyped(task[t], expired)
  BY <1>4 DEF TasksTyped, CallsOwned, OwnCall, Busy
<1>6. task[t].pc \in {"purge", "delete"}
  BY <1>4, <1>5 DEF OwnCall, OpAt, Writes
<1>7. CASE task[t].pc = "delete"
  <2>1. call[t].bundle = task[t].bundle
    BY <1>5, <1>7 DEF OwnCall, Argument
  <2> QED
    BY <1>4, <1>5, <1>7, <2>1 DEF JobTyped
<1>8. CASE task[t].pc = "purge"
  <2>1. call[t].bundle.id = AckOf[task[t].bundle.id]
    BY <1>5, <1>8 DEF OwnCall, Argument, Acked
  <2> QED
    BY <1>4, <1>5, <1>8, <2>1
<1> QED
  BY <1>6, <1>7, <1>8

(* Under the same conditions no job loses what another saved: records go   *)
(* when they have expired or are acknowledged.                             *)
THEOREM OnlyAcksPurge == NoOverlap /\ NoReadFaults => (Spec => PurgedForAcks)
<1> SUFFICES ASSUME NoOverlap, NoReadFaults PROVE Spec => PurgedForAcks
  OBVIOUS
<1>1. Spec => []Facts!InSync
  BY ViewsStay
<1> QED
  BY <1>1, PurgeStep, TypedInit, TypedStep, PTL DEF Spec, PurgedForAcks

----------------------------------------------------------------------------
(* Records that are Delivered.                                             *)

NotDelivered(S, i) == \A c \in S : c.id = i => c.status # "Delivered"

(* What a job knows of the records of its bundle in the file.              *)
StatusKnown(k, S) ==
  LET b == k.bundle IN
    /\ k.pc \in {"has", "check", "find", "mark", "purge", "known", "stored", "keep"} =>
         b.status = "Pending"
    /\ k.pc \in {"check", "keep", "save"} => ~Has(S, b.id)
    /\ k.pc = "get" => b.status # "Delivered"
    /\ k.pc \in {"get", "look", "update"} /\ b.status # "Delivered" => NotDelivered(S, b.id)

StatusesKnown == \A t \in Threads : Busy(t) => StatusKnown(task[t], disk[Home[t]])

LEMMA StillKnown ==
  ASSUME NEW k, NEW S, NEW T \in SUBSET S, StatusKnown(k, S)
  PROVE  StatusKnown(k, T)
BY DEF StatusKnown, Has, NotDelivered

LEMMA NextKnown ==
  ASSUME NEW t \in Threads, NEW ok \in BOOLEAN, NEW next \in After(t, ok),
         JobTyped(task[t], expired), NEW S, NEW T,
         StatusKnown(task[t], S),
         task[t].pc = "keep" => T \subseteq S \cup {task[t].bundle}
  PROVE  next[1] = "done" \/ StatusKnown([bundle |-> next[2], pc |-> next[1]], T)
<1> DEFINE pc == task[t].pc
           b == task[t].bundle
<1>1. \/ pc = "mark" /\ next = <<"purge", b>>
      \/ pc = "purge" /\ next = <<"known", b>>
      \/ next \in {<<"look", As(b, "Delivered")>>, <<"create", b>>, <<"done", b>>}
      \/ pc = "keep" /\ next = <<"look", As(b, "InTransit")>>
  BY DEF After
<1>2. pc = "keep" => b.status = "Pending" /\ NotDelivered(T, b.id)
  BY DEF StatusKnown, Has, NotDelivered
<1> QED
  BY <1>1, <1>2 DEF StatusKnown, As

(* A read of the file.                                                     *)
LEMMA ReadKnown ==
  ASSUME NoReadFaults, TasksTyped, StatusesKnown, NEW t \in Threads, ReadStep(t),
         \A n \in Nodes : UniqueIds(disk[n])
  PROVE  \E k : /\ task' = [task EXCEPT ![t] = k]
                /\ k = Idle \/ StatusKnown(k, disk[Home[t]])
<1> DEFINE k == task[t]
           b == task[t].bundle
           S == disk[Home[t]]
           Job(pc, c) == [bundle |-> c, pc |-> pc]
<1>1. Store!Readings(Home[t]) = {S}
  BY DEF NoReadFaults, Store!Readings
<1>2. UniqueIds(S)
  BY ManagerAssumption
<1>3. Busy(t) => StatusKnown(k, S)
  BY DEF StatusesKnown
<1>4. \A pc, c : Go(t, pc, c) =>
        \/ pc = "done" /\ task' = [task EXCEPT ![t] = Idle]
        \/ pc # "done" /\ task' = [task EXCEPT ![t] = Job(pc, c)]
  BY DEF Go
<1>5. \E pc, c : /\ Go(t, pc, c)
                 /\ pc = "done" \/ StatusKnown(Job(pc, c), S)
  <2>1. CASE \E c \in Bundle : Start(t, c)
    BY <2>1 DEF Start, StatusKnown
  <2>2. CASE Retry(t)
    BY <1>1, <1>2, <2>2 DEF Retry, StatusKnown, NotDelivered, UniqueIds
  <2>3. CASE HasBundle(t)
    BY <1>1, <1>3, <2>3 DEF HasBundle, Reading, At, StatusKnown
  <2>4. CASE Check(t)
    BY <1>3, <2>4 DEF Check, Reading, At, StatusKnown, As
  <2>5. CASE Create(t)
    <3>1. PICK a \in AckIds :
            Go(t, IF Has(S, a) THEN "done" ELSE "keep", [id |-> a, status |-> "Pending"])
      BY <1>1, <2>5 DEF Create
    <3> QED
      BY <3>1 DEF StatusKnown
  <2>6. CASE Get(t)
    BY <1>1, <1>3, <2>6 DEF Get, Reading, At, StatusKnown, As
  <2>7. CASE Look(t)
    BY <1>1, <1>3, <2>7 DEF Look, Reading, At, StatusKnown
  <2>8. CASE FindData(t)
    BY <1>1, <1>3, <2>8 DEF FindData, Reading, At, StatusKnown
  <2>9. CASE Known(t) \/ Stored(t)
    BY <1>1, <1>3, <2>9 DEF Known, Stored, Duplicate, Reading, At, StatusKnown, As
  <2> QED
    BY <2>1, <2>2, <2>3, <2>4, <2>5, <2>6, <2>7, <2>8, <2>9 DEF ReadStep
<1> QED
  BY <1>4, <1>5
(* What a thread makes of the file of its node.                            *)
Grown(t, S, T) ==
  LET k == task[t]
      a == Argument(k)
  IN
    \/ T \subseteq S
    \/ Busy(t) /\ k.pc \in {"keep", "save"} /\ T \subseteq S \cup {a}
    \/ Busy(t) /\ k.pc \in {"update", "mark"} /\ \A c \in T : c \in S \/ c = a

LEMMA FileGrows ==
  ASSUME TasksTyped, Facts!InSync, NEW t \in Threads,
         Sweep(t) \/ \E ok \in BOOLEAN : Return(t, ok)
  PROVE  /\ \A n \in Nodes : n # Home[t] => disk'[n] = disk[n]
         /\ Grown(t, disk[Home[t]], disk'[Home[t]])
<1> DEFINE S == disk[Home[t]]
           c == call[t]
           k == task[t]
<1>0. /\ Home[t] \in Nodes
      /\ \A T : [disk EXCEPT ![Home[t]] = T][Home[t]] = T
      /\ \A T : \A n \in Nodes : n # Home[t] => [disk EXCEPT ![Home[t]] = T][n] = disk[n]
  BY ManagerAssumption DEF TasksTyped, TypeOK, Store!TypeOK
<1>1. Store!InCall(t)
  BY DEF Sweep, Store!Sweep, Return, Store!End
<1>2. c.view \subseteq S
  BY <1>1 DEF Facts!InSync, Facts!ViewInSync, Facts!Live, Facts!InCall, Facts!NoCall,
              Store!InCall, Store!NoCall
<1>3. OwnCall(k, c) /\ Busy(t)
  BY <1>1 DEF TasksTyped, CallsOwned, OwnCall, Busy
<1>4. CASE UNCHANGED disk
  BY <1>4 DEF Grown
<1>5. CASE disk' = [disk EXCEPT ![Home[t]] = Store!Live(c.view, expired)]
  BY <1>0, <1>2, <1>5 DEF Grown, Store!Live
<1>6. CASE disk' = [disk EXCEPT ![Home[t]] = Store!Applied(c.op, c.view, c.bundle)]
  <2>1. disk'[Home[t]] = Store!Applied(c.op, c.view, c.bundle)
    BY <1>0, <1>6
  <2>2. CASE k.pc \in {"keep", "save"}
    <3>1. c.op = "save" /\ c.bundle = Argument(k)
      BY <1>3, <2>2 DEF OwnCall, OpAt, Writes
    <3> QED
      BY <1>0, <1>2, <1>3, <1>6, <2>1, <2>2, <3>1 DEF Grown, Store!Applied, Store!Added
  <2>3. CASE k.pc \in {"update", "mark"}
    <3>1. c.op = "update" /\ c.bundle = Argument(k)
      BY <1>3, <2>3 DEF OwnCall, OpAt, Writes
    <3> QED
      BY <1>0, <1>2, <1>3, <1>6, <2>1, <2>3, <3>1 DEF Grown, Store!Applied, Store!Replaced
  <2>4. CASE k.pc \in {"purge", "delete"}
    <3>1. c.op = "delete"
      BY <1>3, <2>4 DEF OwnCall, OpAt, Writes
    <3> QED
      BY <1>0, <1>2, <1>6, <2>1, <3>1 DEF Grown, Store!Applied, Store!Without
  <2> QED
    BY <1>3, <2>2, <2>3, <2>4 DEF OwnCall, Writes
<1> QED
  BY <1>4, <1>5, <1>6 DEF Sweep, Store!Sweep, Return, Store!End

StatusInv ==
  TasksTyped /\ Facts!InSync /\ StatusesKnown /\ \A n \in Nodes : UniqueIds(disk[n])

LEMMA StatusStep ==
  ASSUME NoOverlap, NoReadFaults
  PROVE  StatusInv /\ [Next]_vars => StatusesKnown'
<1> SUFFICES ASSUME StatusInv, [Next]_vars, NEW u \in Threads, Busy(u)'
             PROVE  StatusKnown(task[u], disk[Home[u]])'
  BY DEF StatusesKnown
<1>0. /\ TasksTyped /\ Facts!InSync /\ StatusesKnown
      /\ Home[u] \in Nodes
  BY ManagerAssumption DEF StatusInv
<1> SUFFICES StatusKnown(task'[u], disk'[Home[u]])
  BY DEF StatusKnown, Has, NotDelivered
<1>1. ASSUME task'[u] \in {Idle, task[u]}, disk'[Home[u]] \subseteq disk[Home[u]]
      PROVE  StatusKnown(task'[u], disk'[Home[u]])
  BY <1>0, <1>1, StillKnown DEF Busy, StatusesKnown
<1>2. ASSUME NEW t \in Threads, ReadStep(t) PROVE StatusKnown(task'[u], disk'[Home[u]])
  <2>1. UNCHANGED disk
    BY <1>2 DEF ReadStep, Start, Retry, HasBundle, Check, Create, Get, Look, FindData, Known,
                Stored, Reading
  <2>2. PICK k : /\ task' = [task EXCEPT ![t] = k]
                 /\ k = Idle \/ StatusKnown(k, disk[Home[t]])
    BY <1>0, <1>2, ReadKnown DEF StatusInv
  <2>3. task'[u] = IF u = t THEN k ELSE task[u]
    BY <1>0, <2>2 DEF TasksTyped, TypeOK
  <2> QED
    BY <1>1, <2>1, <2>2, <2>3 DEF Busy
<1>3. ASSUME NEW t \in Threads, Sweep(t) PROVE StatusKnown(task'[u], disk'[Home[u]])
  <2>1. UNCHANGED task
    BY <1>3 DEF Sweep
  <2>2. disk'[Home[u]] \subseteq disk[Home[u]]
    <3>1. call[t].view \subseteq disk[Home[t]]
      BY <1>0, <1>3 DEF Sweep, Store!Sweep, Facts!InSync, Facts!ViewInSync, Facts!Live,
           Facts!InCall, Facts!NoCall, Store!InCall, Store!NoCall
    <3> QED
      BY <1>0, <1>3, <3>1 DEF Sweep, Store!Sweep, Store!Live, TasksTyped, TypeOK, Store!TypeOK
  <2> QED
    BY <1>1, <2>1, <2>2
<1>4. ASSUME NEW t \in Threads, NEW ok \in BOOLEAN, Return(t, ok)
      PROVE  StatusKnown(task'[u], disk'[Home[u]])
  <2>1. PICK next \in After(t, ok) : Go(t, next[1], next[2])
    BY <1>4 DEF Return
  <2>2. /\ Busy(t) /\ JobTyped(task[t], expired)
        /\ StatusKnown(task[t], disk[Home[t]])
    BY <1>0, <1>4 DEF Return, TasksTyped, StatusesKnown
  <2>3. task[t].pc = "keep" => disk'[Home[t]] \subseteq disk[Home[t]] \cup {task[t].bundle}
    BY <1>0, <1>4, FileGrows DEF Grown, Argument
  <2>4. next[1] = "done" \/ StatusKnown([bundle |-> next[2], pc |-> next[1]], disk'[Home[t]])
    BY <2>2, <2>3, NextKnown
  <2>5. u # t => task'[u] = task[u]
    BY <1>0, <2>1 DEF Go, TasksTyped, TypeOK
  <2>6. u = t => \/ next[1] = "done" /\ task'[u] = Idle
                 \/ next[1] # "done" /\ task'[u] = [bundle |-> next[2], pc |-> next[1]]
    BY <1>0, <2>1 DEF Go, TasksTyped, TypeOK
  <2>7. u # t => disk'[Home[u]] = disk[Home[u]]
    BY <1>0, <1>4, FileGrows DEF NoOverlap
  <2> QED
    BY <1>1, <2>4, <2>5, <2>6, <2>7 DEF Busy
<1>5. ASSUME NEW n \in Nodes, Crash(n) PROVE StatusKnown(task'[u], disk'[Home[u]])
  BY <1>1, <1>5 DEF Crash
<1>6. ASSUME UNCHANGED <<task, disk>> PROVE StatusKnown(task'[u], disk'[Home[u]])
  BY <1>1, <1>6
<1>7. Next => \/ \E t \in Threads :
                   \/ ReadStep(t) \/ Call(t) \/ Sweep(t)
                   \/ \E ok \in BOOLEAN : Return(t, ok)
              \/ \E i \in Ids : Expire(i)
              \/ \E n \in Nodes : Crash(n)
  BY DEF Next, ReadStep
<1>8. \/ \E t \in Threads : Call(t)
      \/ \E i \in Ids : Expire(i)
      \/ UNCHANGED vars
      => UNCHANGED <<task, disk>>
  BY DEF Call, Store!Begin, Expire, Store!Expire, vars
<1> QED
  BY <1>2, <1>3, <1>4, <1>5, <1>6, <1>7, <1>8

LEMMA DeliveredStays ==
  ASSUME NoOverlap, NoReadFaults, StatusInv, [Next]_vars,
         NEW n \in Nodes, NEW b \in disk[n], NEW c \in disk'[n],
         b.id = c.id, b.status = "Delivered"
  PROVE  c.status = "Delivered"
<1>1. c \in disk[n] => c = b
  BY DEF StatusInv, UniqueIds
<1>2. CASE UNCHANGED disk
  BY <1>1, <1>2
<1>3. ASSUME NEW t \in Threads, Sweep(t) \/ \E ok \in BOOLEAN : Return(t, ok),
             c \notin disk[n]
      PROVE  c.status = "Delivered"
  <2> DEFINE k == task[t]
             a == Argument(k)
  <2>1. n = Home[t] /\ Busy(t) /\ c = a /\ k.pc \in {"keep", "save", "update", "mark"}
    BY <1>3, FileGrows DEF StatusInv, Grown
  <2>2. StatusKnown(k, disk[n])
    BY <2>1 DEF StatusInv, StatusesKnown
  <2>3. CASE k.pc \in {"keep", "save"}
    BY <2>1, <2>2, <2>3 DEF StatusKnown, Argument, Has
  <2>4. CASE k.pc = "update"
    BY <2>1, <2>2, <2>4 DEF StatusKnown, Argument, NotDelivered
  <2>5. CASE k.pc = "mark"
    BY <2>1, <2>5 DEF Argument, Acked
  <2> QED
    BY <2>1, <2>3, <2>4, <2>5
<1>5. UNCHANGED disk \/ \E t \in Threads : Sweep(t) \/ \E ok \in BOOLEAN : Return(t, ok)
  BY DEF Next, vars, Start, Retry, HasBundle, Check, Create, Get, Look, FindData, Known, Stored,
         Reading, Call, Store!Begin, Expire, Store!Expire, Crash
<1> QED
  BY <1>1, <1>2, <1>3, <1>5

(* Under the same conditions a record that is Delivered never gets another *)
(* status, so it is not sent again (retry_unsynced_bundles, upsert_bundle).*)
THEOREM DeliveredFinal == NoOverlap /\ NoReadFaults => (Spec => DeliveredIsFinal)
<1> SUFFICES ASSUME NoOverlap, NoReadFaults PROVE Spec => DeliveredIsFinal
  OBVIOUS
<1>1. StatusInv /\ [Next]_vars => StatusesKnown'
  BY StatusStep
<1>2. Store!FilesWellFormed => \A n \in Nodes : UniqueIds(disk[n])
  BY DEF Store!FilesWellFormed, Store!UniqueIds, UniqueIds
<1>3. StatusInv /\ [Next]_vars =>
        [\A n \in Nodes : \A b \in disk[n], c \in disk'[n] :
           b.id = c.id /\ b.status = "Delivered" => c.status = "Delivered"]_vars
  BY DeliveredStays
<1>4. Init => StatusesKnown
  BY DEF Init, StatusesKnown, Busy
<1> HIDE DEF StatusInv
<1>5. TasksTyped /\ Facts!InSync /\ StatusesKnown /\ Store!FilesWellFormed => StatusInv
  BY <1>2 DEF StatusInv
<1>6. Spec => []Facts!InSync
  BY ViewsStay
<1> QED
  BY <1>1, <1>3, <1>4, <1>5, <1>6, FilesStayWellFormed, TypedInit, TypedStep, PTL
  DEF Spec, DeliveredIsFinal
----------------------------------------------------------------------------
(* The invariant.  The DATA that an ACK acknowledges is gone, or the node  *)
(* is its destination.                                                     *)
Gone(t, b) ==
  \/ AckOf[b.id] \notin IdsOf(disk[Home[t]])
  \/ Home[t] = destination[AckOf[b.id]]

(* What a job knows of the file of its node when it is at k.pc.            *)
JobSound(t, k) ==
  LET S == disk[Home[t]]
      b == k.bundle
  IN
    /\ k \in Task
    /\ k.pc \in {"find", "mark", "purge", "known", "stored"} => IsAck(b)
    /\ k.pc \in {"check", "create"} => ~IsAck(b)
    /\ k.pc = "create" => ArrivedData(t, b)
    /\ k.pc \in {"check", "keep"} => ~Has(S, b.id)
    /\ k.pc \in {"known", "stored", "keep", "save"} /\ IsAck(b) => Gone(t, b)
    /\ k.pc = "look" /\ IsAck(b) => Gone(t, b) \/ Has(S, b.id)

JobsSound == \A t \in Threads : Busy(t) => JobSound(t, task[t])

(* A thread is in the call its job is at, and the list it holds is the     *)
(* file.                                                                   *)
CallsMatch ==
  \A t \in Threads :
    Store!InCall(t) =>
      /\ Busy(t) /\ task[t].pc \in Writes
      /\ call[t].op = OpAt[task[t].pc]
      /\ call[t].bundle = Argument(task[t])
      /\ call[t].view = disk[Home[t]]

FilesUnique == \A n \in Nodes : UniqueIds(disk[n])

IInv == TypeOK /\ JobsSound /\ CallsMatch /\ FilesUnique /\ AckBarsData

----------------------------------------------------------------------------
(* Lists of records.                                                       *)
LEMMA FewerBar ==
  ASSUME NEW S, NEW T \in SUBSET S, NEW gone, NEW more, gone \subseteq more, NEW i,
         HasAckFor(Live(T, more), i)
  PROVE  HasAckFor(Live(S, gone), i)
BY DEF HasAckFor, Live

LEMMA FewerIds ==
  ASSUME NEW S, NEW T \in SUBSET S
  PROVE  IdsOf(T) \subseteq IdsOf(S)
BY DEF IdsOf

----------------------------------------------------------------------------
(* A step that only reads: the job moves on, or ends.                      *)
LEMMA JobMoved ==
  ASSUME IInv, NEW t \in Threads, NEW k, ~Store!InCall(t),
         k = Idle \/ JobSound(t, k),
         task' = [task EXCEPT ![t] = k],
         UNCHANGED <<disk, call, expired, ends, made>>
  PROVE  IInv'
<1>1. UNCHANGED <<disk, call, expired, source, destination, made>>
  BY DEF ends
<1>2. \A u \in Threads : task'[u] = IF u = t THEN k ELSE task[u]
  BY DEF IInv, TypeOK
<1>3. k \in Task \cup {Idle}
  BY DEF JobSound
<1>4. TypeOK'
  BY <1>1, <1>3 DEF IInv, TypeOK, Store!TypeOK
<1>5. JobsSound'
  <2> SUFFICES ASSUME NEW u \in Threads, Busy(u)' PROVE JobSound(u, task[u])'
    BY DEF JobsSound
  <2>1. JobSound(u, task'[u])
    BY <1>2 DEF Busy, IInv, JobsSound
  <2> QED
    BY <1>1, <2>1 DEF JobSound, Gone, ArrivedData, NotDelivered
<1>6. CallsMatch'
  <2> SUFFICES ASSUME NEW u \in Threads, Store!InCall(u)'
               PROVE  /\ Busy(u)' /\ task'[u].pc \in Writes
                      /\ call'[u].op = OpAt[task'[u].pc]
                      /\ call'[u].bundle = Argument(task'[u])
                      /\ call'[u].view = disk'[Home[u]]
    BY DEF CallsMatch, Argument, Acked
  <2>1. Store!InCall(u) /\ u # t
    BY <1>1 DEF Store!InCall
  <2> QED
    BY <1>1, <1>2, <2>1 DEF IInv, CallsMatch, Busy
<1>7. FilesUnique' /\ AckBarsData'
  BY <1>1 DEF IInv, FilesUnique, AckBarsData
<1> QED
  BY <1>4, <1>5, <1>6, <1>7 DEF IInv

----------------------------------------------------------------------------
(* What the storage layer does to one thread, when nothing fails.          *)
LEMMA ReadsFile ==
  ASSUME NoFaults, NEW t \in Threads
  PROVE  Store!Readings(Home[t]) = {disk[Home[t]]}
BY DEF NoFaults, Store!Readings

LEMMA EndDoes ==
  ASSUME NoFaults, NEW t \in Threads, NEW ok \in BOOLEAN, Store!End(t, ok)
  PROVE  LET c == call[t] IN
           /\ Store!InCall(t)
           /\ call' = [call EXCEPT ![t] = Store!NoCall]
           /\ expired' = expired
           /\ ok /\ c.op \in {"save", "update"} => ~Barred(c.view, c.bundle)
           /\ ok /\ c.op = "save" => ~Has(c.view, c.bundle.id)
           /\ c.op = "delete" => (ok <=> Has(c.view, c.bundle.id))
           /\ disk' = IF ok THEN [disk EXCEPT ![Home[t]] = Applied(c.op, c.view, c.bundle)]
                      ELSE disk
<1>1. \A op, S, b :
        /\ Store!Accepts(op, S, b) /\ op \in {"save", "update"} => ~Barred(S, b)
        /\ Store!Accepts(op, S, b) /\ op = "save" => ~Has(S, b.id)
        /\ op = "delete" => (Store!Accepts(op, S, b) <=> Has(S, b.id))
  BY DEF Store!Accepts, Store!CanSave, Store!CanUpdate, Store!CanDelete, Store!Barred,
         Barred, Store!Has, Has, Store!HasAckFor, HasAckFor, Store!IsAck, IsAck
<1>2. \A op, S, b : Store!Applied(op, S, b) = Applied(op, S, b)
  BY DEF Store!Applied, Applied, Store!Added, Added, Store!Replaced, Replaced,
         Store!Without, Without
<1> QED
  BY <1>1, <1>2 DEF NoFaults, Store!End

LEMMA SweepDoes ==
  ASSUME NoFaults, NEW t \in Threads, Store!Sweep(t)
  PROVE  LET left == Live(call[t].view, expired)
             c    == call[t]
         IN  /\ Store!InCall(t)
             /\ call' = [call EXCEPT ![t] = [op |-> c.op, bundle |-> c.bundle,
                                             view |-> left, stage |-> "write"]]
             /\ disk' = [disk EXCEPT ![Home[t]] = left]
             /\ expired' = expired
BY DEF NoFaults, Store!Sweep, Store!Live, Live

----------------------------------------------------------------------------
(* The steps that only read.                                               *)
LEMMA ReadKeeps ==
  ASSUME NoFaults, IInv, NEW t \in Threads, ReadStep(t)
  PROVE  IInv'
<1> DEFINE S == disk[Home[t]]
           b == task[t].bundle
<1>1. Store!Readings(Home[t]) = {S}
  BY ReadsFile
<1>2. S \in SUBSET Bundle
  BY StoreTypes, ManagerAssumption DEF IInv, TypeOK, Store!TypeOK
<1>3. task[t] = Idle => ~Store!InCall(t)
  BY DEF IInv, CallsMatch, Busy
<1>4. \A d \in Data : ~(d \in AckIds)
  BY BundleAssumption
<1> SUFFICES \E k : /\ k = Idle \/ JobSound(t, k)
                    /\ task' = [task EXCEPT ![t] = k]
                    /\ ~Store!InCall(t)
                    /\ UNCHANGED <<disk, call, expired, ends, made>>
  BY JobMoved
<1>5. ASSUME NEW c \in Bundle, Start(t, c)
      PROVE  \E k : /\ k = Idle \/ JobSound(t, k)
                    /\ task' = [task EXCEPT ![t] = k]
                    /\ ~Store!InCall(t)
                    /\ UNCHANGED <<disk, call, expired, ends, made>>
  <2>1. JobSound(t, [bundle |-> c, pc |-> "has"])
    BY <1>5 DEF Start, JobSound, Task, Reads
  <2> QED
    BY <1>3, <1>5, <2>1 DEF Start, Go, Busy
<1>6. CASE Retry(t)
  <2>1. PICK c \in S : c.status \in {"Pending", "InTransit"} /\ Go(t, "get", c)
    BY <1>1, <1>6 DEF Retry
  <2>2. JobSound(t, [bundle |-> c, pc |-> "get"])
    BY <1>2, <2>1 DEF JobSound, Task, Reads
  <2> QED
    BY <1>3, <1>6, <2>1, <2>2 DEF Retry, Go, Busy
<1>7. ASSUME NEW pc \in Reads, Reading(t, pc)
      PROVE  /\ JobSound(t, task[t]) /\ task[t].pc = pc /\ b \in Bundle
             /\ ~Store!InCall(t)
             /\ UNCHANGED <<disk, call, expired, ends, made>>
  BY <1>7 DEF Reading, At, IInv, JobsSound, JobSound, Task
<1>8. CASE HasBundle(t)
  <2>1. Reading(t, "has") /\ b \in Bundle
    BY <1>7, <1>8 DEF HasBundle, Reads, JobSound
  <2>2. CASE Has(S, b.id) /\ Go(t, "done", b)
    BY <1>7, <2>1, <2>2 DEF Go, Reads
  <2>3. CASE ~Has(S, b.id) /\ Go(t, IF IsAck(b) THEN "find" ELSE "check", b)
    <3>1. JobSound(t, [bundle |-> b, pc |-> IF IsAck(b) THEN "find" ELSE "check"])
      BY <2>1, <2>3 DEF JobSound, Task, Reads
    <3> QED
      BY <1>7, <2>1, <2>3, <3>1 DEF Go, Reads
  <2> QED
    BY <1>1, <1>8, <2>2, <2>3 DEF HasBundle
<1>9. CASE Check(t)
  <2>1. Reading(t, "check") /\ JobSound(t, task[t]) /\ task[t].pc = "check" /\ b \in Bundle
    BY <1>7, <1>9 DEF Check, Reads
  <2>2. ~IsAck(b) /\ ~Has(S, b.id)
    BY <2>1 DEF JobSound
  <2>3. JobSound(t, [bundle |-> b, pc |-> "delete"])
    BY <2>1, <2>2 DEF JobSound, Task, Reads, Writes
  <2>4. JobSound(t, [bundle |-> As(b, "Delivered"), pc |-> "look"])
    BY <2>1, <2>2 DEF JobSound, Task, Reads, As, Bundle, Status, IsAck
  <2>5. JobSound(t, [bundle |-> b, pc |-> "keep"])
    BY <2>1, <2>2 DEF JobSound, Task, Writes
  <2> QED
    BY <1>7, <1>9, <2>1, <2>3, <2>4, <2>5 DEF Check, Go, Reads
<1>10. CASE Create(t)
  <2>1. Reading(t, "create") /\ JobSound(t, task[t]) /\ task[t].pc = "create"
    BY <1>7, <1>10 DEF Create, Reads
  <2>2. PICK a \in AckIds :
          /\ AckOf[a] = b.id
          /\ Go(t, IF Has(S, a) THEN "done" ELSE "keep", [id |-> a, status |-> "Pending"])
    BY <1>1, <1>10 DEF Create
  <2> DEFINE c == [id |-> a, status |-> "Pending"]
  <2>3. c \in Bundle /\ Gone(t, c)
    BY <2>1, <2>2 DEF Bundle, Ids, Status, Gone, JobSound, ArrivedData
  <2>4. ~Has(S, a) => JobSound(t, [bundle |-> c, pc |-> "keep"])
    BY <2>3 DEF JobSound, Task, Writes
  <2> QED
    BY <1>7, <2>1, <2>2, <2>4 DEF Go, Reads
<1>11. CASE Get(t)
  <2>1. Reading(t, "get") /\ JobSound(t, task[t]) /\ task[t].pc = "get" /\ b \in Bundle
    BY <1>7, <1>11 DEF Get, Reads
  <2>2. Has(S, b.id) => JobSound(t, [bundle |-> As(b, "InTransit"), pc |-> "look"])
    BY <2>1 DEF JobSound, Task, Reads, As, Bundle, Status, Gone, IsAck
  <2> QED
    BY <1>1, <1>7, <1>11, <2>1, <2>2 DEF Get, Go, Reads
<1>12. CASE Look(t)
  <2>1. Reading(t, "look") /\ JobSound(t, task[t]) /\ task[t].pc = "look" /\ b \in Bundle
    BY <1>7, <1>12 DEF Look, Reads
  <2>2. JobSound(t, [bundle |-> b, pc |-> IF Has(S, b.id) THEN "update" ELSE "save"])
    BY <2>1 DEF JobSound, Task, Writes, Gone
  <2> QED
    BY <1>1, <1>7, <1>12, <2>1, <2>2 DEF Look, Go, Reads
<1>13. CASE FindData(t)
  <2>1. Reading(t, "find") /\ JobSound(t, task[t]) /\ task[t].pc = "find" /\ b \in Bundle
    BY <1>7, <1>13 DEF FindData, Reads
  <2>2. ~Has(S, AckOf[b.id]) => Gone(t, b)
    BY DEF Gone, Has, IdsOf
  <2>3. JobSound(t, [bundle |-> b, pc |-> IF Has(S, AckOf[b.id]) THEN "mark" ELSE "known"])
    BY <2>1, <2>2 DEF JobSound, Task, Reads, Writes, Gone
  <2> QED
    BY <1>1, <1>7, <1>13, <2>1, <2>3 DEF FindData, Go, Reads
<1>14. ASSUME NEW pc \in {"known", "stored"}, Reading(t, pc), Duplicate(t)
       PROVE  \E k : /\ k = Idle \/ JobSound(t, k)
                     /\ task' = [task EXCEPT ![t] = k]
  <2>1. JobSound(t, task[t]) /\ task[t].pc = pc /\ b \in Bundle
    BY <1>7, <1>14 DEF Reads
  <2>2. JobSound(t, [bundle |-> As(b, "Delivered"), pc |-> "look"])
    BY <2>1 DEF JobSound, Task, Reads, As, Bundle, Status, Gone, IsAck
  <2> QED
    BY <1>14, <2>2 DEF Duplicate, Go
<1>15. CASE Known(t)
  <2>1. Reading(t, "known") /\ JobSound(t, task[t]) /\ task[t].pc = "known" /\ b \in Bundle
    BY <1>7, <1>15 DEF Known, Reads
  <2>2. JobSound(t, [bundle |-> b, pc |-> "stored"])
    BY <2>1 DEF JobSound, Task, Reads, Gone
  <2> QED
    BY <1>7, <1>14, <1>15, <2>1, <2>2 DEF Known, Go, Reads
<1>16. CASE Stored(t)
  <2>1. Reading(t, "stored") /\ JobSound(t, task[t]) /\ task[t].pc = "stored" /\ b \in Bundle
    BY <1>7, <1>16 DEF Stored, Reads
  <2>2. ~Has(S, b.id) => JobSound(t, [bundle |-> b, pc |-> "keep"])
    BY <2>1 DEF JobSound, Task, Writes, Gone
  <2> QED
    BY <1>1, <1>7, <1>14, <1>16, <2>1, <2>2 DEF Stored, Go, Reads
<1> QED
  BY <1>5, <1>6, <1>8, <1>9, <1>10, <1>11, <1>12, <1>13, <1>15, <1>16 DEF ReadStep

----------------------------------------------------------------------------
(* A step of one thread on its file.                                       *)
Bars(S, n) ==
  \A i \in Data \cap IdsOf(S) : HasAckFor(Live(S, expired), i) => n = destination[i]

LEMMA StepAt ==
  ASSUME NoOverlap, IInv, NEW t \in Threads, NEW T \in SUBSET Bundle, NEW k, NEW c,
         disk' = [disk EXCEPT ![Home[t]] = T],
         task' = [task EXCEPT ![t] = k],
         call' = [call EXCEPT ![t] = c],
         UNCHANGED <<expired, ends>>, made' \subseteq AckIds,
         k = Idle \/ JobSound(t, k)',
         \/ c = Store!NoCall
         \/ /\ c \in Store!Call /\ k # Idle /\ k.pc \in Writes
            /\ c.op = OpAt[k.pc] /\ c.bundle = Argument(k) /\ c.view = T,
         UniqueIds(T), Bars(T, Home[t])
  PROVE  IInv'
<1>1. UNCHANGED <<expired, source, destination>>
  BY DEF ends
<1>2. \A u \in Threads : /\ task'[u] = IF u = t THEN k ELSE task[u]
                         /\ call'[u] = IF u = t THEN c ELSE call[u]
  BY DEF IInv, TypeOK, Store!TypeOK
<1>3. Home[t] \in Nodes
  BY ManagerAssumption
<1>4. \A n \in Nodes : disk'[n] = IF n = Home[t] THEN T ELSE disk[n]
  BY DEF IInv, TypeOK, Store!TypeOK
<1>5. \A u \in Threads : u # t => Home[u] \in Nodes /\ disk'[Home[u]] = disk[Home[u]]
  BY <1>4, ManagerAssumption DEF NoOverlap
<1>6. TypeOK'
  <2>1. k \in Task \cup {Idle}
    BY DEF JobSound
  <2>2. disk' \in [Nodes -> SUBSET Bundle]
    BY StoreTypes DEF IInv, TypeOK, Store!TypeOK
  <2> QED
    BY <1>1, <2>1, <2>2, StoreTypes DEF IInv, TypeOK, Store!TypeOK
<1>7. JobsSound'
  <2> SUFFICES ASSUME NEW u \in Threads, Busy(u)' PROVE JobSound(u, task[u])'
    BY DEF JobsSound
  <2>1. CASE u = t
    BY <1>2, <2>1 DEF Busy
  <2>2. CASE u # t
    <3>1. JobSound(u, task'[u])
      BY <1>2, <2>2 DEF Busy, IInv, JobsSound
    <3> QED
      BY <1>1, <1>5, <2>2, <3>1 DEF JobSound, Gone, ArrivedData
  <2> QED
    BY <2>1, <2>2
<1>8. CallsMatch'
  <2> SUFFICES ASSUME NEW u \in Threads, Store!InCall(u)'
               PROVE  /\ Busy(u)' /\ task'[u].pc \in Writes
                      /\ call'[u].op = OpAt[task'[u].pc]
                      /\ call'[u].bundle = Argument(task'[u])
                      /\ call'[u].view = disk'[Home[u]]
    BY DEF CallsMatch, Argument, Acked
  <2>1. CASE u = t
    BY <1>2, <1>3, <1>4, <2>1 DEF Store!InCall, Busy
  <2>2. CASE u # t
    BY <1>2, <1>5, <2>2 DEF Store!InCall, Busy, IInv, CallsMatch
  <2> QED
    BY <2>1, <2>2
<1>9. FilesUnique'
  BY <1>4 DEF IInv, FilesUnique
<1>10. AckBarsData'
  <2> SUFFICES ASSUME NEW n \in Nodes, NEW i \in Data \cap IdsOf(disk'[n]),
                      HasAckFor(Live(disk'[n], expired), i)
               PROVE  n = destination[i]
    BY <1>1 DEF AckBarsData
  <2> QED
    BY <1>4 DEF IInv, AckBarsData, Bars
<1> QED
  BY <1>6, <1>7, <1>8, <1>9, <1>10 DEF IInv

(* What a call that is carried out makes of a file.                        *)
LEMMA AppliedFile ==
  ASSUME NEW S \in SUBSET Bundle, NEW b \in Bundle, NEW op \in Ops, NEW n,
         UniqueIds(S), Bars(S, n),
         op = "save" => ~Barred(S, b) /\ ~Has(S, b.id),
         op = "save" /\ IsAck(b) => AckOf[b.id] \notin IdsOf(S) \/ n = destination[AckOf[b.id]]
  PROVE  /\ Applied(op, S, b) \in SUBSET Bundle
         /\ UniqueIds(Applied(op, S, b))
         /\ Bars(Applied(op, S, b), n)
<1> DEFINE T == Applied(op, S, b)
<1>1. \A d \in Data : ~(d \in AckIds)
  BY BundleAssumption
<1>2. CASE op = "save"
  <2>1. T = S \cup {b}
    BY <1>2 DEF Applied, Added
  <2>2. UniqueIds(T)
    BY <1>2, <2>1 DEF UniqueIds, Has
  <2>3. ASSUME NEW i \in Data \cap IdsOf(T), HasAckFor(Live(T, expired), i)
        PROVE  n = destination[i]
    <3>1. PICK a \in T : a.id \notin expired /\ IsAck(a) /\ AckOf[a.id] = i
      BY <2>3 DEF HasAckFor, Live
    <3>2. CASE a \in S
      <4>1. HasAckFor(Live(S, expired), i) /\ HasAckFor(S, i)
        BY <3>1, <3>2 DEF HasAckFor, Live
      <4>2. i \in IdsOf(S)
        BY <1>1, <1>2, <2>1, <4>1 DEF IdsOf, Barred, IsAck
      <4> QED
        BY <4>1, <4>2 DEF Bars
    <3>3. CASE a = b
      <4>1. i \in IdsOf(S)
        BY <1>1, <2>1, <3>1, <3>3 DEF IdsOf, IsAck
      <4> QED
        BY <1>2, <3>1, <3>3, <4>1
    <3> QED
      BY <2>1, <3>2, <3>3
  <2> QED
    BY <2>1, <2>2, <2>3 DEF Bars
<1>3. CASE op = "update"
  <2>1. T = {IF x.id = b.id THEN b ELSE x : x \in S}
    BY <1>3 DEF Applied, Replaced
  <2>2. IdsOf(T) = IdsOf(S)
    BY <2>1 DEF IdsOf
  <2>3. \A a \in T : \E x \in S : x.id = a.id
    BY <2>1
  <2>4. \A i : HasAckFor(Live(T, expired), i) => HasAckFor(Live(S, expired), i)
    BY <2>3 DEF HasAckFor, Live, IsAck
  <2>5. UniqueIds(T)
    BY <2>1 DEF UniqueIds
  <2> QED
    BY <2>1, <2>2, <2>4, <2>5 DEF Bars
<1>4. CASE op = "delete"
  <2>1. T \in SUBSET S
    BY <1>4 DEF Applied, Without
  <2> QED
    BY <2>1, FewerBar, FewerIds DEF Bars, UniqueIds
<1> QED
  BY <1>2, <1>3, <1>4 DEF Ops

LEMMA CallKeeps ==
  ASSUME NoOverlap, NoFaults, IInv, NEW t \in Threads, Call(t)
  PROVE  IInv'
<1>1. PICK pc \in Writes : At(t, pc) /\ Store!Begin(t, OpAt[pc], Argument(task[t]))
  BY DEF Call
<1>2. PICK r : r = task[t]
  OBVIOUS
<1>3. PICK V : V = disk[Home[t]]
  OBVIOUS
<1>4. r.pc = pc /\ r # Idle /\ JobSound(t, r)
  BY <1>1, <1>2 DEF At, IInv, JobsSound, Busy
<1>5. PICK stage \in {"sweep", "write"} :
        call' = [call EXCEPT ![t] = [op |-> OpAt[pc], bundle |-> Argument(task[t]),
                                     view |-> V, stage |-> stage]]
  <2>1. PICK S \in Store!Readings(Home[t]) :
          call' = [call EXCEPT ![t] = [op |-> OpAt[pc], bundle |-> Argument(task[t]),
                     view |-> S,
                     stage |-> IF OpAt[pc] = "save" /\ Store!IdsOf(S) \cap expired # {}
                               THEN "sweep" ELSE "write"]]
    BY <1>1, Zenon DEF Store!Begin
  <2>2. S = V
    BY <1>3, ReadsFile
  <2>3. (IF OpAt[pc] = "save" /\ Store!IdsOf(S) \cap expired # {}
         THEN "sweep" ELSE "write") \in {"sweep", "write"}
    OBVIOUS
  <2> QED
    BY <2>1, <2>2, <2>3
<1>6. UNCHANGED <<disk, expired, task, ends, made>>
  BY <1>1 DEF Store!Begin, Call
<1>7. V \in SUBSET Bundle /\ Home[t] \in Nodes
  BY <1>3, StoreTypes, ManagerAssumption DEF IInv, TypeOK, Store!TypeOK
<1>8. Argument(r) \in Bundle
  BY <1>4, BundleAssumption DEF JobSound, Task, Argument, Acked, Bundle, Ids, Status, IsAck
<1>9. PICK c : c = [op |-> OpAt[pc], bundle |-> Argument(r), view |-> V, stage |-> stage]
  OBVIOUS
<1>10. c \in Store!Call
  BY <1>7, <1>8, <1>9, StoreTypes DEF Store!Call, Ops, OpAt, Writes
<1>11. c.op = OpAt[r.pc] /\ c.bundle = Argument(r) /\ c.view = V /\ r.pc \in Writes
  BY <1>4, <1>9
<1>12. UniqueIds(V) /\ Bars(V, Home[t])
  BY <1>3, <1>7 DEF IInv, FilesUnique, AckBarsData, Bars
<1>13. disk' = [disk EXCEPT ![Home[t]] = V]
  BY <1>3, <1>6 DEF IInv, TypeOK, Store!TypeOK
<1>14. task' = [task EXCEPT ![t] = r]
  BY <1>2, <1>6 DEF IInv, TypeOK
<1>15. call' = [call EXCEPT ![t] = c]
  BY <1>2, <1>5, <1>9
<1>16. JobSound(t, r)'
  BY <1>4, <1>6 DEF JobSound, Gone, ArrivedData, ends
<1>17. made' \subseteq AckIds
  BY <1>6 DEF IInv, TypeOK
<1> QED
  BY <1>4, <1>6, <1>7, <1>10, <1>11, <1>12, <1>13, <1>14, <1>15, <1>16, <1>17, StepAt

LEMMA SweepKeeps ==
  ASSUME NoOverlap, NoFaults, IInv, NEW t \in Threads, Sweep(t)
  PROVE  IInv'
<1> DEFINE S == disk[Home[t]]
           k == task[t]
<1>1. Busy(t) /\ Store!Sweep(t) /\ UNCHANGED <<task, ends, made>>
  BY DEF Sweep
<1>2. Store!InCall(t) /\ call[t].stage = "sweep"
  BY <1>1 DEF Store!Sweep
<1>3. /\ JobSound(t, k) /\ k.pc \in Writes /\ call[t].view = S
      /\ call[t].op = OpAt[k.pc] /\ call[t].bundle = Argument(k)
      /\ call[t] \in Store!Call
  BY <1>1, <1>2 DEF IInv, JobsSound, CallsMatch, TypeOK, Store!TypeOK, Store!InCall
<1>4. PICK V : V = Live(S, expired)
  OBVIOUS
<1>5. S \in SUBSET Bundle /\ Home[t] \in Nodes /\ V \in SUBSET S
  BY <1>4, StoreTypes, ManagerAssumption DEF IInv, TypeOK, Store!TypeOK, Live
<1>6. PICK r : r = task[t]
  OBVIOUS
<1>7. PICK c : c = [op |-> call[t].op, bundle |-> call[t].bundle, view |-> V,
                    stage |-> "write"]
  OBVIOUS
<1>8. /\ call' = [call EXCEPT ![t] = c]
      /\ disk' = [disk EXCEPT ![Home[t]] = V]
      /\ expired' = expired
  BY <1>1, <1>3, <1>4, <1>7, SweepDoes
<1>9. c \in Store!Call /\ c.op = OpAt[r.pc] /\ c.bundle = Argument(r) /\ c.view = V
  BY <1>3, <1>5, <1>6, <1>7, StoreTypes DEF Store!Call
<1>10. UniqueIds(V) /\ Bars(V, Home[t])
  <2>1. UniqueIds(S) /\ Bars(S, Home[t])
    BY <1>5 DEF IInv, FilesUnique, AckBarsData, Bars
  <2> QED
    BY <1>5, <2>1, FewerBar, FewerIds DEF Bars, UniqueIds
<1>11. disk'[Home[t]] = V
  BY <1>5, <1>8 DEF IInv, TypeOK, Store!TypeOK
<1>12. JobSound(t, r)'
  <2>1. JobSound(t, r) /\ r.pc \in Writes
    BY <1>3, <1>6
  <2>2. UNCHANGED <<source, destination>>
    BY <1>1 DEF ends
  <2> QED
    BY <1>5, <1>11, <2>1, <2>2
    DEF JobSound, Gone, ArrivedData, Writes, Has, IdsOf
<1>13. task' = [task EXCEPT ![t] = r] /\ r # Idle /\ r.pc \in Writes
  BY <1>1, <1>3, <1>6 DEF IInv, TypeOK, Busy
<1>14. made' \subseteq AckIds
  BY <1>1 DEF IInv, TypeOK
<1> QED
  BY <1>1, <1>5, <1>8, <1>9, <1>10, <1>12, <1>13, <1>14, StepAt

(* Where a job goes when its call has left the file as T.                  *)
LEMMA NextJob ==
  ASSUME NEW t \in Threads, NEW ok \in BOOLEAN, NEW r, r = task[t], r # Idle,
         JobSound(t, r), r.pc \in Writes,
         NEW V \in SUBSET Bundle, V = disk[Home[t]],
         NEW T \in SUBSET Bundle, T = disk'[Home[t]],
         T = IF ok THEN Applied(OpAt[r.pc], V, Argument(r)) ELSE V,
         r.pc = "purge" => (ok <=> Has(V, AckOf[r.bundle.id])),
         UNCHANGED ends,
         NEW pc, NEW c, <<pc, c>> \in After(t, ok), pc # "done"
  PROVE  JobSound(t, [bundle |-> c, pc |-> pc])'
<1> DEFINE b == r.bundle
<1>1. r \in Task /\ b \in Bundle /\ UNCHANGED <<source, destination>>
  BY DEF JobSound, Task, ends
<1>2. \A d \in Data : ~(d \in AckIds)
  BY BundleAssumption
<1>3. CASE r.pc = "mark"
  <2>1. pc = "purge" /\ c = b
    BY <1>3 DEF After
  <2> QED
    BY <1>1, <1>3, <2>1 DEF JobSound, Task, Writes
<1>4. CASE r.pc = "purge"
  <2>1. pc = "known" /\ c = b
    BY <1>4 DEF After
  <2>2. T = IF ok THEN Without(V, AckOf[b.id]) ELSE V
    BY <1>4 DEF OpAt, Applied, Argument, Acked
  <2>3. AckOf[b.id] \notin IdsOf(T)
    BY <1>4, <2>2 DEF Without, IdsOf, Has
  <2> QED
    BY <1>1, <1>4, <2>1, <2>3 DEF JobSound, Task, Reads, Gone
<1>5. CASE r.pc = "keep"
  <2>1. T = IF ok THEN V \cup {b} ELSE V
    BY <1>5 DEF OpAt, Applied, Added, Argument
  <2>2. ~Has(V, b.id) /\ (IsAck(b) => Gone(t, b))
    BY <1>5 DEF JobSound
  <2>3. IsAck(b) => Gone(t, b)'
    <3> SUFFICES ASSUME IsAck(b), AckOf[b.id] \notin IdsOf(V) PROVE AckOf[b.id] \notin IdsOf(T)
      BY <1>1, <2>2 DEF Gone
    <3>1. AckOf[b.id] \in Data
      BY BundleAssumption DEF IsAck
    <3> QED
      BY <1>2, <2>1, <3>1 DEF IdsOf, IsAck
  <2>4. \/ pc = "look" /\ c = As(b, "Delivered")
        \/ pc = "look" /\ c = As(b, "InTransit")
    BY <1>5 DEF After
  <2> QED
    BY <1>1, <2>3, <2>4 DEF JobSound, Task, Reads, As, Bundle, Status, Gone, IsAck
<1>6. CASE r.pc \in {"save", "update"}
  <2>1. pc = "create" /\ c = b /\ ArrivedData(t, b)
    BY <1>6 DEF After
  <2> QED
    BY <1>1, <2>1 DEF JobSound, Task, Reads, ArrivedData
<1>7. CASE r.pc = "delete"
  BY <1>7 DEF After
<1> QED
  BY <1>3, <1>4, <1>5, <1>6, <1>7 DEF Writes

LEMMA ReturnKeeps ==
  ASSUME NoOverlap, NoFaults, IInv, NEW t \in Threads, NEW ok \in BOOLEAN, Return(t, ok)
  PROVE  IInv'
<1>1. PICK r : r = task[t]
  OBVIOUS
<1>2. PICK V : V = disk[Home[t]]
  OBVIOUS
<1>3. Store!InCall(t) /\ Busy(t)
  BY EndDoes DEF Return
<1>4. /\ r # Idle /\ JobSound(t, r) /\ r.pc \in Writes /\ r \in Task
      /\ call[t].op = OpAt[r.pc] /\ call[t].bundle = Argument(r) /\ call[t].view = V
  BY <1>1, <1>2, <1>3 DEF IInv, JobsSound, JobSound, CallsMatch, Busy
<1>5. V \in SUBSET Bundle /\ Home[t] \in Nodes /\ UniqueIds(V) /\ Bars(V, Home[t])
  BY <1>2, StoreTypes, ManagerAssumption
  DEF IInv, TypeOK, Store!TypeOK, FilesUnique, AckBarsData, Bars
<1>6. PICK a : a = Argument(r)
  OBVIOUS
<1>7. PICK op : op = OpAt[r.pc]
  OBVIOUS
<1>8. a \in Bundle /\ op \in Ops
  BY <1>4, <1>6, <1>7, BundleAssumption
  DEF JobSound, Task, Argument, Acked, Bundle, Ids, Status, IsAck, Ops, OpAt, Writes
<1>9. PICK T : T = IF ok THEN Applied(op, V, a) ELSE V
  OBVIOUS
<1>10. /\ call' = [call EXCEPT ![t] = Store!NoCall]
       /\ expired' = expired
       /\ ok /\ op \in {"save", "update"} => ~Barred(V, a)
       /\ ok /\ op = "save" => ~Has(V, a.id)
       /\ op = "delete" => (ok <=> Has(V, a.id))
       /\ disk' = IF ok THEN [disk EXCEPT ![Home[t]] = Applied(op, V, a)] ELSE disk
  BY <1>4, <1>6, <1>7, EndDoes DEF Return
<1>11. disk' = [disk EXCEPT ![Home[t]] = T]
  BY <1>2, <1>9, <1>10 DEF IInv, TypeOK, Store!TypeOK
<1>12. T \in SUBSET Bundle /\ UniqueIds(T) /\ Bars(T, Home[t])
  <2>1. CASE ~ok
    BY <1>5, <1>9, <2>1
  <2>2. CASE ok
    <3>1. op = "save" => r.pc \in {"keep", "save"} /\ a = r.bundle
      BY <1>4, <1>6, <1>7 DEF OpAt, Writes, Argument
    <3>2. op = "save" /\ IsAck(a) =>
            AckOf[a.id] \notin IdsOf(V) \/ Home[t] = destination[AckOf[a.id]]
      BY <1>2, <1>4, <3>1 DEF JobSound, Gone
    <3> QED
      BY <1>5, <1>8, <1>9, <1>10, <2>2, <3>2, AppliedFile
  <2> QED
    BY <2>1, <2>2
<1>13. UNCHANGED ends /\ made' \subseteq AckIds
  BY <1>1, <1>4 DEF Return, Creates, IInv, TypeOK, IsAck
<1>14. T = disk'[Home[t]]
  BY <1>5, <1>11 DEF IInv, TypeOK, Store!TypeOK
<1>15. r.pc = "purge" => (ok <=> Has(V, AckOf[r.bundle.id]))
  BY <1>6, <1>7, <1>10 DEF OpAt, Argument, Acked
<1>16. PICK next \in After(t, ok) : Go(t, next[1], next[2])
  BY DEF Return
<1>17. PICK pc, c : next = <<pc, c>> /\ Go(t, pc, c)
  BY <1>16 DEF After
<1>18. PICK k : k = IF pc = "done" THEN Idle ELSE [bundle |-> c, pc |-> pc]
  OBVIOUS
<1>19. k = Idle \/ JobSound(t, k)'
  BY <1>1, <1>2, <1>4, <1>5, <1>6, <1>7, <1>9, <1>12, <1>13, <1>14, <1>15, <1>16, <1>17,
     <1>18, NextJob
<1>20. task' = [task EXCEPT ![t] = k]
  BY <1>17, <1>18 DEF Go
<1> QED
  BY <1>10, <1>11, <1>12, <1>13, <1>19, <1>20, StepAt

LEMMA CrashKeeps ==
  ASSUME IInv, NEW n \in Nodes, Crash(n)
  PROVE  IInv'
<1>1. UNCHANGED <<disk, expired, source, destination, made>>
  BY DEF Crash, ends
<1>2. \A u \in Threads :
        /\ task'[u] = IF Home[u] = n THEN Idle ELSE task[u]
        /\ call'[u] = IF Home[u] = n THEN Store!NoCall ELSE call[u]
  BY DEF Crash
<1>3. TypeOK'
  BY <1>1 DEF Crash, IInv, TypeOK, Store!TypeOK
<1>4. JobsSound'
  <2> SUFFICES ASSUME NEW u \in Threads, Busy(u)' PROVE JobSound(u, task[u])'
    BY DEF JobsSound
  <2>1. JobSound(u, task'[u])
    BY <1>2 DEF Busy, IInv, JobsSound
  <2> QED
    BY <1>1, <2>1 DEF JobSound, Gone, ArrivedData
<1>5. CallsMatch'
  <2> SUFFICES ASSUME NEW u \in Threads, Store!InCall(u)'
               PROVE  /\ Busy(u)' /\ task'[u].pc \in Writes
                      /\ call'[u].op = OpAt[task'[u].pc]
                      /\ call'[u].bundle = Argument(task'[u])
                      /\ call'[u].view = disk'[Home[u]]
    BY DEF CallsMatch, Argument, Acked
  <2> QED
    BY <1>1, <1>2 DEF Store!InCall, Busy, IInv, CallsMatch
<1>6. FilesUnique' /\ AckBarsData'
  BY <1>1 DEF IInv, FilesUnique, AckBarsData
<1> QED
  BY <1>3, <1>4, <1>5, <1>6 DEF IInv

LEMMA ExpireKeeps ==
  ASSUME IInv, NEW i \in Ids, Expire(i)
  PROVE  IInv'
<1>1. UNCHANGED <<disk, call, task, source, destination, made>>
  BY DEF Expire, Store!Expire, ends
<1>2. expired' \subseteq Ids /\ expired \subseteq expired'
  BY StoreTypes DEF Expire, Store!Expire, IInv, TypeOK, Store!TypeOK
<1>3. TypeOK'
  BY <1>1, <1>2, StoreTypes DEF IInv, TypeOK, Store!TypeOK
<1>4. JobsSound' /\ CallsMatch' /\ FilesUnique'
  BY <1>1 DEF IInv, JobsSound, CallsMatch, FilesUnique, JobSound, Gone, ArrivedData, Busy, Store!InCall, Argument, Acked
<1>5. AckBarsData'
  BY <1>1, <1>2, FewerBar DEF IInv, AckBarsData
<1> QED
  BY <1>3, <1>4, <1>5 DEF IInv

LEMMA IInvStep == NoOverlap /\ NoFaults /\ IInv /\ [Next]_vars => IInv'
<1> SUFFICES ASSUME NoOverlap, NoFaults, IInv, [Next]_vars PROVE IInv'
  OBVIOUS
<1>1. CASE UNCHANGED vars
  <2>1. UNCHANGED <<disk, call, expired, task, source, destination, made>>
    BY <1>1 DEF vars
  <2> QED
    BY <2>1 DEF IInv, TypeOK, Store!TypeOK, JobsSound, CallsMatch, FilesUnique, AckBarsData,
                JobSound, Gone, ArrivedData, Busy, Store!InCall, Argument, Acked
<1>2. CASE Next
  BY <1>2, ReadKeeps, CallKeeps, SweepKeeps, ReturnKeeps, ExpireKeeps, CrashKeeps
  DEF Next, ReadStep
<1> QED
  BY <1>1, <1>2

LEMMA IInvInit == Init => IInv
BY StoreTypes DEF Init, Store!Init, IInv, TypeOK, Store!TypeOK, JobsSound, CallsMatch,
   FilesUnique, AckBarsData, UniqueIds, IdsOf, Busy, Store!InCall

----------------------------------------------------------------------------
(* The ACK records of a file.  The destination of a DATA bundle has it or  *)
(* could take it, as long as it is not expired.                            *)
RoomAtEnds ==
  \A i \in Data \ expired :
    Has(disk[destination[i]], i) \/ Cardinality(disk[destination[i]]) < Capacity

Kept(S, i) == i \in expired \/ [id |-> i, status |-> "Delivered"] \in S

(* The node created the ACK.                                               *)
AtEnd(t, b) == IsAck(b) /\ Home[t] = destination[AckOf[b.id]]

(* What a job knows of the ACKs in the file of its node: which one it may  *)
(* save, and that a destination has stored what it acknowledges.           *)
AckJob(t, k) ==
  LET S == disk[Home[t]]
      b == k.bundle
  IN
    /\ k.pc = "has" /\ AtEnd(t, b) => b.id \in made
    /\ k.pc \in {"find", "mark", "purge", "known", "stored"} /\ AtEnd(t, b) =>
         AckOf[b.id] \in expired
    /\ k.pc \in {"stored", "keep"} /\ IsAck(b) => ~HasAckFor(S, AckOf[b.id])
    /\ k.pc = "keep" /\ AtEnd(t, b) => Kept(S, AckOf[b.id])
    /\ k.pc \in {"keep", "get", "update"} => ~ArrivedData(t, b)
    /\ k.pc \in {"look", "save"} /\ IsAck(b) => ArrivedAck(t, b) \/ Has(S, b.id)
    /\ k.pc = "save" => ~Has(S, b.id)
    /\ k.pc \in {"look", "save"} /\ ArrivedData(t, b) =>
         b.status = "Delivered" /\ ~HasAckFor(S, b.id) /\ ~Has(S, b.id)
    /\ k.pc = "create" => ~HasAckFor(S, b.id) /\ Kept(S, b.id)
    /\ k.pc = "delete" => b.id \in expired /\ ~IsAck(b)

(* The file S of node n, when the ACKs in M have been created: one ACK for *)
(* a DATA bundle (but at its source); at its destination it is Delivered,  *)
(* is there if its ACK is, and an ACK goes only when the DATA expires.     *)
FileAcks(n, S, M) ==
  /\ \A b, c \in S :
       IsAck(b) /\ IsAck(c) /\ AckOf[b.id] = AckOf[c.id] /\ n # source[AckOf[b.id]]
         => b.id = c.id
  /\ \A i \in Data : n = destination[i] =>
       /\ HasAckFor(S, i) => Kept(S, i)
       /\ \A b \in S : b.id = i => b.status = "Delivered"
  /\ \A a \in M : n = destination[AckOf[a]] => Has(S, a) \/ AckOf[a] \in expired

AckJobs == \A t \in Threads : Busy(t) => AckJob(t, task[t])

(* An ACK expires after its DATA, unless only the source looks.            *)
AcksLast ==
  \A a \in AckIds \cap expired :
    AckOf[a] \in expired \/ \A t \in Threads : Home[t] = source[AckOf[a]]

EndsApart == \A i \in Data : source[i] # destination[i]

AcksSound ==
  /\ AckJobs
  /\ \A n \in Nodes : FileAcks(n, disk[n], made)
  /\ AcksLast
  /\ EndsApart

----------------------------------------------------------------------------
(* What the calls make of the ACKs in a file.                              *)
LEMMA AddedAcks ==
  ASSUME NEW n, NEW S \in SUBSET Bundle, NEW M, NEW N, NEW b \in Bundle,
         FileAcks(n, S, M), N \subseteq M \cup {b.id},
         IsAck(b) => n = source[AckOf[b.id]] \/ ~HasAckFor(S, AckOf[b.id]),
         IsAck(b) /\ n = destination[AckOf[b.id]] => Kept(S, AckOf[b.id]),
         ~IsAck(b) /\ n = destination[b.id] => b.status = "Delivered"
  PROVE  FileAcks(n, Added(S, b), N)
<1> DEFINE T == Added(S, b)
<1>1. T = S \cup {b}
  BY DEF Added
<1>2. \A c \in T : c = b \/ c \in S
  BY <1>1
<1>3. \A d \in Data : ~(d \in AckIds)
  BY BundleAssumption
<1>4. \A c, d \in T :
        IsAck(c) /\ IsAck(d) /\ AckOf[c.id] = AckOf[d.id] /\ n # source[AckOf[c.id]]
          => c.id = d.id
  BY <1>2 DEF FileAcks, HasAckFor
<1>5. ASSUME NEW i \in Data, n = destination[i]
      PROVE  /\ HasAckFor(T, i) => Kept(T, i)
             /\ \A c \in T : c.id = i => c.status = "Delivered"
  <2>1. HasAckFor(T, i) => HasAckFor(S, i) \/ (IsAck(b) /\ AckOf[b.id] = i)
    BY <1>2 DEF HasAckFor
  <2>2. HasAckFor(T, i) => Kept(S, i)
    BY <1>5, <2>1 DEF FileAcks
  <2>3. Kept(S, i) => Kept(T, i)
    BY <1>1 DEF Kept
  <2> QED
    BY <1>2, <1>3, <1>5, <2>2, <2>3 DEF FileAcks, IsAck
<1>6. \A a \in N : n = destination[AckOf[a]] => Has(T, a) \/ AckOf[a] \in expired
  BY <1>1 DEF FileAcks, Has
<1> QED
  BY <1>4, <1>5, <1>6 DEF FileAcks

LEMMA ReplacedAcks ==
  ASSUME NEW n, NEW S \in SUBSET Bundle, NEW M, NEW b \in Bundle,
         FileAcks(n, S, M), ~IsAck(b) /\ n = destination[b.id] => b.status = "Delivered"
  PROVE  FileAcks(n, Replaced(S, b), M)
<1> DEFINE T == Replaced(S, b)
<1>1. T = {IF x.id = b.id THEN b ELSE x : x \in S}
  BY DEF Replaced
<1>2. \A c \in T : c = b \/ c \in S
  BY <1>1
<1>3. \A c \in T : \E x \in S : x.id = c.id
  BY <1>1
<1>4. \A x \in S : x \in T \/ (x.id = b.id /\ b \in T)
  BY <1>1
<1>5. \A d \in Data : ~(d \in AckIds)
  BY BundleAssumption
<1>6. \A c, d \in T :
        IsAck(c) /\ IsAck(d) /\ AckOf[c.id] = AckOf[d.id] /\ n # source[AckOf[c.id]]
          => c.id = d.id
  BY <1>3 DEF FileAcks, IsAck
<1>7. ASSUME NEW i \in Data, n = destination[i]
      PROVE  /\ HasAckFor(T, i) => Kept(T, i)
             /\ \A c \in T : c.id = i => c.status = "Delivered"
  <2>1. \A c \in T : c.id = i => c.status = "Delivered"
    BY <1>2, <1>5, <1>7 DEF FileAcks, IsAck
  <2>2. HasAckFor(T, i) => HasAckFor(S, i)
    BY <1>3 DEF HasAckFor, IsAck
  <2>3. ASSUME [id |-> i, status |-> "Delivered"] \in S, i = b.id
        PROVE  b = [id |-> i, status |-> "Delivered"]
    BY <1>5, <1>7, <2>3 DEF Bundle, IsAck
  <2>4. Kept(S, i) => Kept(T, i)
    BY <1>4, <2>3 DEF Kept
  <2> QED
    BY <1>7, <2>1, <2>2, <2>4 DEF FileAcks
<1>8. \A a \in M : n = destination[AckOf[a]] => Has(T, a) \/ AckOf[a] \in expired
  BY <1>4 DEF FileAcks, Has
<1> QED
  BY <1>6, <1>7, <1>8 DEF FileAcks

LEMMA WithoutAcks ==
  ASSUME NEW n, NEW S \in SUBSET Bundle, NEW M \in SUBSET AckIds, NEW d \in Data,
         FileAcks(n, S, M), n = destination[d] => d \in expired
  PROVE  FileAcks(n, Without(S, d), M)
<1> DEFINE T == Without(S, d)
<1>1. T \in SUBSET S /\ \A b \in S : b.id # d => b \in T
  BY DEF Without
<1>2. d \notin AckIds
  BY BundleAssumption
<1>3. ASSUME NEW i \in Data, n = destination[i]
      PROVE  /\ HasAckFor(T, i) => Kept(T, i)
             /\ \A c \in T : c.id = i => c.status = "Delivered"
  <2>1. HasAckFor(T, i) => Kept(S, i)
    BY <1>1, <1>3 DEF FileAcks, HasAckFor
  <2>2. Kept(S, i) => Kept(T, i)
    BY <1>1, <1>3 DEF Kept
  <2> QED
    BY <1>1, <1>3, <2>1, <2>2 DEF FileAcks
<1>4. \A a \in M : n = destination[AckOf[a]] => Has(T, a) \/ AckOf[a] \in expired
  BY <1>1, <1>2 DEF FileAcks, Has
<1> QED
  BY <1>1, <1>3, <1>4 DEF FileAcks

LEMMA LiveAcks ==
  ASSUME NEW n, NEW S \in SUBSET Bundle, NEW M, FileAcks(n, S, M),
         \A a \in M \cap expired : n = destination[AckOf[a]] => AckOf[a] \in expired
  PROVE  FileAcks(n, Live(S, expired), M)
<1> DEFINE T == Live(S, expired)
<1>1. T \in SUBSET S /\ \A b \in S : b.id \notin expired => b \in T
  BY DEF Live
<1>2. ASSUME NEW i \in Data, n = destination[i]
      PROVE  /\ HasAckFor(T, i) => Kept(T, i)
             /\ \A c \in T : c.id = i => c.status = "Delivered"
  <2>1. HasAckFor(T, i) => Kept(S, i)
    BY <1>1, <1>2 DEF FileAcks, HasAckFor
  <2>2. Kept(S, i) => Kept(T, i)
    BY <1>1 DEF Kept
  <2> QED
    BY <1>1, <1>2, <2>1, <2>2 DEF FileAcks
<1>3. \A a \in M : n = destination[AckOf[a]] => Has(T, a) \/ AckOf[a] \in expired
  BY <1>1 DEF FileAcks, Has
<1> QED
  BY <1>1, <1>2, <1>3 DEF FileAcks

(* A step of one thread on its file.                                       *)
LEMMA AckStepAt ==
  ASSUME NoOverlap, IInv, AcksSound, NEW t \in Threads, NEW T, NEW k,
         disk' = [disk EXCEPT ![Home[t]] = T],
         task' = [task EXCEPT ![t] = k],
         UNCHANGED <<expired, ends>>, made \subseteq made',
         \A a \in made' \ made : destination[AckOf[a]] = Home[t],
         k = Idle \/ AckJob(t, k)',
         FileAcks(Home[t], T, made')
  PROVE  AcksSound'
<1>1. UNCHANGED <<expired, source, destination>>
  BY DEF ends
<1>2. \A u \in Threads : task'[u] = IF u = t THEN k ELSE task[u]
  BY DEF IInv, TypeOK
<1>3. \A n \in Nodes : disk'[n] = IF n = Home[t] THEN T ELSE disk[n]
  BY DEF IInv, TypeOK, Store!TypeOK
<1>4. \A u \in Threads : u # t => Home[u] \in Nodes /\ disk'[Home[u]] = disk[Home[u]]
  BY <1>3, ManagerAssumption DEF NoOverlap
<1>5. AckJobs'
  <2> SUFFICES ASSUME NEW u \in Threads, Busy(u)' PROVE AckJob(u, task[u])'
    BY DEF AckJobs
  <2>1. CASE u = t
    BY <1>2, <2>1 DEF Busy
  <2>2. CASE u # t
    <3>1. AckJob(u, task'[u])
      BY <1>2, <2>2 DEF Busy, AcksSound, AckJobs
    <3> QED
      BY <1>1, <1>4, <2>2, <3>1 DEF AckJob, Kept, AtEnd, ArrivedData, ArrivedAck
  <2> QED
    BY <2>1, <2>2
<1>6. \A n \in Nodes : FileAcks(n, disk[n], made)'
  <2> SUFFICES ASSUME NEW n \in Nodes PROVE FileAcks(n, disk'[n], made')
    BY <1>1 DEF FileAcks, Kept
  <2>1. CASE n = Home[t]
    BY <1>3, <2>1
  <2>2. CASE n # Home[t]
    BY <1>3, <2>2 DEF AcksSound, FileAcks
  <2> QED
    BY <2>1, <2>2
<1>7. AcksLast' /\ EndsApart'
  BY <1>1 DEF AcksSound, AcksLast, EndsApart
<1> QED
  BY <1>5, <1>6, <1>7 DEF AcksSound

(* The steps that only read.                                               *)
LEMMA ReadMovesAcks ==
  ASSUME NoOverlap, IInv, AcksSound, NEW t \in Threads, NEW k,
         k = Idle \/ AckJob(t, k),
         task' = [task EXCEPT ![t] = k],
         UNCHANGED <<disk, call, expired, ends, made>>
  PROVE  AcksSound'
<1>1. UNCHANGED <<disk, expired, source, destination, made>>
  BY DEF ends
<1>2. disk' = [disk EXCEPT ![Home[t]] = disk[Home[t]]]
  BY <1>1 DEF IInv, TypeOK, Store!TypeOK
<1>3. k = Idle \/ AckJob(t, k)'
  BY <1>1 DEF AckJob, Kept, AtEnd, ArrivedData, ArrivedAck
<1>4. FileAcks(Home[t], disk[Home[t]], made')
  BY <1>1, ManagerAssumption DEF AcksSound
<1> QED
  BY <1>1, <1>2, <1>3, <1>4, AckStepAt

LEMMA ReadKeepsAcks ==
  ASSUME NoOverlap, NoFaults, IInv, AcksSound, NEW t \in Threads, ReadStep(t)
  PROVE  AcksSound'
<1> DEFINE n == Home[t]
           S == disk[n]
           b == task[t].bundle
           Moves == \E k : /\ k = Idle \/ AckJob(t, k)
                           /\ task' = [task EXCEPT ![t] = k]
                           /\ UNCHANGED <<disk, call, expired, ends, made>>
<1>1. Store!Readings(n) = {S} /\ n \in Nodes
  BY ReadsFile, ManagerAssumption
<1>2. S \in SUBSET Bundle
  BY <1>1, StoreTypes DEF IInv, TypeOK, Store!TypeOK
<1>3. FileAcks(n, S, made) /\ made \subseteq AckIds /\ EndsApart
  BY <1>1 DEF AcksSound, IInv, TypeOK
<1>4. \A d \in Data : ~(d \in AckIds)
  BY BundleAssumption
<1> SUFFICES Moves
  BY ReadMovesAcks
<1>5. ASSUME NEW c \in Bundle, Start(t, c)
      PROVE  Moves
  <2>1. AckJob(t, [bundle |-> c, pc |-> "has"])
    BY <1>5 DEF Start, AckJob, AtEnd
  <2> QED
    BY <1>5, <2>1 DEF Start, Go
<1>6. CASE Retry(t)
  <2>1. PICK c \in S : c.status \in {"Pending", "InTransit"} /\ Go(t, "get", c)
    BY <1>1, <1>6 DEF Retry
  <2>2. ~ArrivedData(t, c)
    BY <1>2, <1>3, <2>1 DEF ArrivedData, FileAcks, Bundle, Ids, IsAck
  <2>3. AckJob(t, [bundle |-> c, pc |-> "get"])
    BY <2>2 DEF AckJob
  <2> QED
    BY <1>6, <2>1, <2>3 DEF Retry, Go
<1>7. ASSUME NEW pc \in Reads, Reading(t, pc)
      PROVE  /\ JobSound(t, task[t]) /\ AckJob(t, task[t])
             /\ task[t].pc = pc /\ b \in Bundle
             /\ UNCHANGED <<disk, call, expired, ends, made>>
  BY <1>7 DEF Reading, At, IInv, JobsSound, JobSound, Task, AcksSound, AckJobs
<1>8. CASE HasBundle(t)
  <2>1. /\ AckJob(t, task[t]) /\ task[t].pc = "has" /\ b \in Bundle
        /\ UNCHANGED <<disk, call, expired, ends, made>>
    BY <1>7, <1>8 DEF HasBundle, Reads
  <2>2. CASE Has(S, b.id) /\ Go(t, "done", b)
    BY <2>1, <2>2 DEF Go
  <2>3. CASE ~Has(S, b.id) /\ Go(t, IF IsAck(b) THEN "find" ELSE "check", b)
    <3>1. AtEnd(t, b) => AckOf[b.id] \in expired
      BY <1>3, <2>1, <2>3 DEF AckJob, AtEnd, FileAcks
    <3>2. AckJob(t, [bundle |-> b, pc |-> IF IsAck(b) THEN "find" ELSE "check"])
      BY <3>1 DEF AckJob, AtEnd
    <3> QED
      BY <2>1, <2>3, <3>2 DEF Go
  <2> QED
    BY <1>1, <1>8, <2>2, <2>3 DEF HasBundle
<1>9. CASE Check(t)
  <2>1. /\ JobSound(t, task[t]) /\ task[t].pc = "check" /\ b \in Bundle
        /\ UNCHANGED <<disk, call, expired, ends, made>>
    BY <1>7, <1>9 DEF Check, Reads
  <2>2. ~IsAck(b) /\ ~Has(S, b.id) /\ b.id \in Data
    BY <2>1 DEF JobSound, Bundle, Ids, IsAck
  <2>3. CASE b.id \in expired /\ Go(t, "delete", b)
    <3>1. AckJob(t, [bundle |-> b, pc |-> "delete"])
      BY <2>2, <2>3 DEF AckJob
    <3> QED
      BY <2>1, <2>3, <3>1 DEF Go
  <2>4. CASE b.id \notin expired /\ ArrivedData(t, b) /\ Go(t, "look", As(b, "Delivered"))
    <3> DEFINE c == As(b, "Delivered")
    <3>1. c.id = b.id /\ c.status = "Delivered"
      BY DEF As
    <3>2. ~HasAckFor(S, b.id)
      BY <1>3, <2>2, <2>4 DEF FileAcks, Kept, Has, ArrivedData
    <3>3. AckJob(t, [bundle |-> c, pc |-> "look"])
      BY <2>2, <3>1, <3>2 DEF AckJob, IsAck
    <3> QED
      BY <2>1, <2>4, <3>3 DEF Go
  <2>5. CASE b.id \notin expired /\ ~ArrivedData(t, b) /\ Go(t, "keep", b)
    <3>1. AckJob(t, [bundle |-> b, pc |-> "keep"])
      BY <2>2, <2>5 DEF AckJob, AtEnd
    <3> QED
      BY <2>1, <2>5, <3>1 DEF Go
  <2> QED
    BY <1>9, <2>3, <2>4, <2>5 DEF Check
<1>10. CASE Create(t)
  <2>1. /\ JobSound(t, task[t]) /\ AckJob(t, task[t]) /\ task[t].pc = "create"
        /\ UNCHANGED <<disk, call, expired, ends, made>>
    BY <1>7, <1>10 DEF Create, Reads
  <2>2. PICK a \in AckIds :
          /\ AckOf[a] = b.id
          /\ Go(t, IF Has(S, a) THEN "done" ELSE "keep", [id |-> a, status |-> "Pending"])
    BY <1>1, <1>10 DEF Create
  <2> DEFINE c == [id |-> a, status |-> "Pending"]
  <2>3. ~HasAckFor(S, AckOf[c.id]) /\ Kept(S, AckOf[c.id]) /\ IsAck(c)
    BY <2>1, <2>2 DEF AckJob, IsAck
  <2>4. AckJob(t, [bundle |-> c, pc |-> "keep"])
    BY <2>3 DEF AckJob, ArrivedData
  <2> QED
    BY <2>1, <2>2, <2>4 DEF Go
<1>11. CASE Get(t)
  <2>1. /\ AckJob(t, task[t]) /\ task[t].pc = "get" /\ b \in Bundle
        /\ UNCHANGED <<disk, call, expired, ends, made>>
    BY <1>7, <1>11 DEF Get, Reads
  <2>2. ~ArrivedData(t, As(b, "InTransit"))
    BY <2>1 DEF AckJob, ArrivedData, As, IsAck
  <2>3. Has(S, b.id) => AckJob(t, [bundle |-> As(b, "InTransit"), pc |-> "look"])
    BY <2>2 DEF AckJob, As
  <2> QED
    BY <1>1, <1>11, <2>1, <2>3 DEF Get, Go
<1>12. CASE Look(t)
  <2>1. /\ AckJob(t, task[t]) /\ task[t].pc = "look" /\ b \in Bundle
        /\ UNCHANGED <<disk, call, expired, ends, made>>
    BY <1>7, <1>12 DEF Look, Reads
  <2>2. AckJob(t, [bundle |-> b, pc |-> IF Has(S, b.id) THEN "update" ELSE "save"])
    BY <2>1 DEF AckJob
  <2> QED
    BY <1>1, <1>12, <2>1, <2>2 DEF Look, Go
<1>13. CASE FindData(t)
  <2>1. /\ AckJob(t, task[t]) /\ task[t].pc = "find" /\ b \in Bundle
        /\ UNCHANGED <<disk, call, expired, ends, made>>
    BY <1>7, <1>13 DEF FindData, Reads
  <2>2. AckJob(t, [bundle |-> b, pc |-> IF Has(S, AckOf[b.id]) THEN "mark" ELSE "known"])
    BY <2>1 DEF AckJob
  <2> QED
    BY <1>1, <1>13, <2>1, <2>2 DEF FindData, Go
<1>14. ASSUME NEW pc \in {"known", "stored"}, Reading(t, pc), Duplicate(t)
       PROVE  Moves
  <2>1. /\ JobSound(t, task[t]) /\ task[t].pc = pc
        /\ UNCHANGED <<disk, call, expired, ends, made>>
    BY <1>7, <1>14 DEF Reads
  <2>2. IsAck(b)
    BY <2>1 DEF JobSound
  <2>3. ArrivedAck(t, b) => AckJob(t, [bundle |-> As(b, "Delivered"), pc |-> "look"])
    BY <2>2 DEF AckJob, As, ArrivedAck, ArrivedData, IsAck
  <2> QED
    BY <1>14, <2>1, <2>3 DEF Duplicate, Go
<1>15. CASE Known(t)
  <2>1. /\ JobSound(t, task[t]) /\ AckJob(t, task[t]) /\ task[t].pc = "known"
        /\ Reading(t, "known")
        /\ UNCHANGED <<disk, call, expired, ends, made>>
    BY <1>7, <1>15 DEF Known, Reads
  <2>2. ~HasAckFor(S, AckOf[b.id]) => AckJob(t, [bundle |-> b, pc |-> "stored"])
    BY <2>1 DEF AckJob
  <2> QED
    BY <1>1, <1>14, <1>15, <2>1, <2>2 DEF Known, Go
<1>16. CASE Stored(t)
  <2>1. /\ JobSound(t, task[t]) /\ AckJob(t, task[t]) /\ task[t].pc = "stored"
        /\ Reading(t, "stored")
        /\ UNCHANGED <<disk, call, expired, ends, made>>
    BY <1>7, <1>16 DEF Stored, Reads
  <2>2. IsAck(b)
    BY <2>1 DEF JobSound
  <2>3. AckJob(t, [bundle |-> b, pc |-> "keep"])
    BY <2>1, <2>2 DEF AckJob, AtEnd, Kept, ArrivedData
  <2> QED
    BY <1>1, <1>14, <1>16, <2>1, <2>3 DEF Stored, Go
<1> QED
  BY <1>5, <1>6, <1>8, <1>9, <1>10, <1>11, <1>12, <1>13, <1>15, <1>16 DEF ReadStep

(* A step that is not about the ACKs.                                      *)
LEMMA SameAcks ==
  ASSUME AcksSound, UNCHANGED <<task, disk, expired, source, destination, made>>
  PROVE  AcksSound'
<1>1. AckJobs'
  BY DEF AcksSound, AckJobs, Busy, AckJob, Kept, AtEnd, ArrivedData, ArrivedAck
<1>2. \A n \in Nodes : FileAcks(n, disk[n], made)'
  BY DEF AcksSound, FileAcks, Kept
<1>3. AcksLast' /\ EndsApart'
  BY DEF AcksSound, AcksLast, EndsApart
<1> QED
  BY <1>1, <1>2, <1>3 DEF AcksSound

(* The start of a call, and the sweep in it.                               *)
LEMMA CallKeepsAcks ==
  ASSUME NoOverlap, IInv, AcksSound, NEW t \in Threads, Call(t)
  PROVE  AcksSound'
<1>1. UNCHANGED <<task, disk, expired, source, destination, made>>
  BY DEF Call, Store!Begin, ends
<1> QED
  BY <1>1, SameAcks

LEMMA SweepKeepsAcks ==
  ASSUME NoOverlap, NoFaults, IInv, AcksSound, NEW t \in Threads, Sweep(t)
  PROVE  AcksSound'
<1> DEFINE n == Home[t]
           S == disk[n]
           k == task[t]
<1>1. Busy(t) /\ Store!Sweep(t) /\ Store!InCall(t) /\ UNCHANGED <<task, ends, made>>
  BY DEF Sweep, Store!Sweep
<1>2. k.pc \in Writes /\ call[t].view = S /\ AckJob(t, k) /\ k # Idle
  BY <1>1 DEF IInv, CallsMatch, AcksSound, AckJobs, Busy
<1>3. PICK T : T = Live(S, expired)
  OBVIOUS
<1>4. n \in Nodes /\ S \in SUBSET Bundle /\ made \subseteq AckIds
  BY StoreTypes, ManagerAssumption DEF IInv, TypeOK, Store!TypeOK
<1>5. disk' = [disk EXCEPT ![n] = T] /\ expired' = expired
  BY <1>1, <1>2, <1>3, SweepDoes
<1>6. T \in SUBSET S /\ \A b \in S : b.id \notin expired => b \in T
  BY <1>3 DEF Live
<1>7. disk'[n] = T /\ UNCHANGED <<source, destination, made, expired>>
  BY <1>1, <1>4, <1>5 DEF IInv, TypeOK, Store!TypeOK, ends
<1>8. AckJob(t, k)'
  <2>1. \A i : Kept(S, i) => Kept(T, i)
    BY <1>6 DEF Kept
  <2>2. \A i : ~HasAckFor(S, i) => ~HasAckFor(T, i)
    BY <1>6 DEF HasAckFor
  <2>3. \A i : ~Has(S, i) => ~Has(T, i)
    BY <1>6 DEF Has
  <2>4. \A b : /\ AtEnd(t, b)' <=> AtEnd(t, b)
               /\ ArrivedData(t, b)' <=> ArrivedData(t, b)
               /\ ArrivedAck(t, b)' <=> ArrivedAck(t, b)
    BY <1>7 DEF AtEnd, ArrivedData, ArrivedAck
  <2>5. \A i : Kept(T, i)' <=> Kept(T, i)
    BY <1>7 DEF Kept
  <2> QED
    BY <1>1, <1>2, <1>7, <2>1, <2>2, <2>3, <2>4, <2>5 DEF AckJob, Writes
<1>9. FileAcks(n, T, made')
  <2>1. AcksLast /\ EndsApart /\ FileAcks(n, S, made)
    BY <1>4, Zenon DEF AcksSound
  <2>2. ASSUME NEW a \in made \cap expired, n = destination[AckOf[a]]
        PROVE  AckOf[a] \in expired
    <3>1. a \in AckIds /\ AckOf[a] \in Data /\ Home[t] = n
      BY <1>4, BundleAssumption
    <3>2. source[AckOf[a]] # destination[AckOf[a]]
      BY <2>1, <3>1 DEF EndsApart
    <3> QED
      BY <2>1, <2>2, <3>1, <3>2 DEF AcksLast
  <2>3. FileAcks(n, Live(S, expired), made)
    BY <1>4, <2>1, <2>2, LiveAcks, Zenon
  <2> QED
    BY <1>3, <1>7, <2>3
<1>10. task' = [task EXCEPT ![t] = k]
  BY <1>1 DEF IInv, TypeOK
<1> QED
  BY <1>1, <1>5, <1>7, <1>8, <1>9, <1>10, AckStepAt DEF ends

----------------------------------------------------------------------------
(* The end of a call.  With room at the ends, a bundle for this node that  *)
(* is not expired is stored.                                               *)
LEMMA SaveRefused ==
  ASSUME NoFaults, NEW t \in Threads, Store!End(t, FALSE), call[t].op = "save"
  PROVE  ~CanSave(call[t].view, call[t].bundle)
<1>1. ASSUME NEW S, NEW b, CanSave(S, b) PROVE Store!CanSave(S, b)
  <2>1. Cardinality(S) < Capacity /\ ~Barred(S, b) /\ ~Has(S, b.id)
    BY <1>1 DEF CanSave
  <2>2. ~Store!Barred(S, b) /\ ~Store!Has(S, b.id)
    BY <2>1 DEF Barred, Has, HasAckFor, IsAck, Store!Barred, Store!Has, Store!HasAckFor,
                Store!IsAck
  <2>3. Store!Cardinality(S) = Cardinality(S)
    BY DEF Store!Cardinality, Cardinality
  <2> QED
    BY <2>1, <2>2, <2>3 DEF Store!CanSave
<1>2. ~Store!CanSave(call[t].view, call[t].bundle)
  BY DEF NoFaults, Store!End, Store!Accepts
<1> QED
  BY <1>1, <1>2

LEMMA ArrivedIsSaved ==
  ASSUME NoFaults, IInv, AcksSound, RoomAtEnds,
         NEW t \in Threads, Return(t, FALSE),
         task[t].pc = "save", ArrivedData(t, task[t].bundle)
  PROVE  task[t].bundle.id \in expired
<1> DEFINE n == Home[t]
           S == disk[n]
           b == task[t].bundle
<1>1. Store!End(t, FALSE) /\ Store!InCall(t) /\ Busy(t)
  BY EndDoes DEF Return
<1>2. call[t].op = "save" /\ call[t].bundle = b /\ call[t].view = S
  BY <1>1 DEF IInv, CallsMatch, OpAt, Argument
<1>3. ~CanSave(S, b)
  BY <1>1, <1>2, SaveRefused
<1>4. ~HasAckFor(S, b.id) /\ ~Has(S, b.id)
  BY <1>1 DEF AcksSound, AckJobs, AckJob
<1>5. b \in Bundle
  BY <1>1 DEF IInv, JobsSound, JobSound, Task
<1>6. n = destination[b.id] /\ b.id \in Data
  BY <1>5 DEF ArrivedData, Bundle, Ids, IsAck
<1> QED
  BY <1>3, <1>4, <1>6 DEF CanSave, Barred, RoomAtEnds

LEMMA NextAckJob ==
  ASSUME AcksSound, NEW t \in Threads, NEW ok \in BOOLEAN, NEW r, r = task[t],
         JobSound(t, r), AckJob(t, r), r.pc \in Writes,
         NEW V, V = disk[Home[t]], NEW T, T = disk'[Home[t]],
         T = IF ok THEN Applied(OpAt[r.pc], V, Argument(r)) ELSE V,
         ~ok /\ r.pc = "save" /\ ArrivedData(t, r.bundle) => r.bundle.id \in expired,
         UNCHANGED <<expired, ends>>,
         NEW pc, NEW c, <<pc, c>> \in After(t, ok), pc # "done"
  PROVE  AckJob(t, [bundle |-> c, pc |-> pc])'
<1> DEFINE b == r.bundle
<1>1. r \in Task /\ b \in Bundle /\ UNCHANGED <<source, destination, expired>>
  BY DEF JobSound, Task, ends
<1>2. \A x : /\ AtEnd(t, x)' <=> AtEnd(t, x)
             /\ ArrivedData(t, x)' <=> ArrivedData(t, x)
             /\ ArrivedAck(t, x)' <=> ArrivedAck(t, x)
  BY <1>1 DEF AtEnd, ArrivedData, ArrivedAck
<1>3. CASE r.pc = "mark"
  <2>1. pc = "purge" /\ c = b
    BY <1>3 DEF After
  <2> QED
    BY <1>1, <1>2, <1>3, <2>1 DEF AckJob
<1>4. CASE r.pc = "purge"
  <2>1. pc = "known" /\ c = b
    BY <1>4 DEF After
  <2> QED
    BY <1>1, <1>2, <1>4, <2>1 DEF AckJob
<1>5. CASE r.pc = "keep"
  <2>1. T = IF ok THEN V \cup {b} ELSE V
    BY <1>5 DEF OpAt, Applied, Added, Argument
  <2>2. ~ArrivedData(t, b)
    BY <1>5 DEF AckJob
  <2>3. CASE ArrivedAck(t, b)
    <3>1. pc = "look" /\ c = As(b, "Delivered")
      BY <1>5, <2>3 DEF After
    <3>2. ArrivedAck(t, c) /\ ~ArrivedData(t, c)
      BY <2>3, <3>1 DEF As, ArrivedAck, ArrivedData, IsAck
    <3> QED
      BY <1>2, <3>1, <3>2 DEF AckJob
  <2>4. CASE ~ArrivedAck(t, b)
    <3>1. pc = "look" /\ c = As(b, "InTransit") /\ (ok \/ ~IsAck(b))
      BY <1>5, <2>4 DEF After
    <3>2. ~ArrivedData(t, c) /\ c.id = b.id /\ (IsAck(c) <=> IsAck(b))
      BY <2>2, <3>1 DEF As, ArrivedData, IsAck
    <3>3. ok => Has(T, b.id)
      BY <2>1 DEF Has
    <3>4. IsAck(c) => Has(T, c.id)
      BY <3>1, <3>2, <3>3
    <3> QED
      BY <1>2, <3>1, <3>2, <3>4 DEF AckJob
  <2> QED
    BY <2>3, <2>4
<1>6. CASE r.pc \in {"save", "update"}
  <2>1. pc = "create" /\ c = b /\ ArrivedData(t, b)
    BY <1>6 DEF After
  <2>2. r.pc = "save"
    BY <1>6, <2>1 DEF AckJob
  <2>3. T = IF ok THEN V \cup {b} ELSE V
    BY <2>2 DEF OpAt, Applied, Added, Argument
  <2>4. b.status = "Delivered" /\ ~HasAckFor(V, b.id) /\ ~IsAck(b)
    BY <2>1, <2>2 DEF AckJob, ArrivedData
  <2>5. ~HasAckFor(T, b.id)
    BY <2>3, <2>4 DEF HasAckFor, IsAck
  <2>6. b = [id |-> b.id, status |-> "Delivered"]
    BY <1>1, <2>4 DEF Bundle
  <2>7. b.id \in expired' \/ [id |-> b.id, status |-> "Delivered"] \in T
    BY <1>1, <2>1, <2>2, <2>3, <2>6
  <2> QED
    BY <2>1, <2>5, <2>7 DEF AckJob, Kept
<1>7. CASE r.pc = "delete"
  BY <1>7 DEF After
<1> QED
  BY <1>3, <1>4, <1>5, <1>6, <1>7 DEF Writes

LEMMA ReturnedAcks ==
  ASSUME NoFaults, IInv, AcksSound, NEW t \in Threads, NEW ok \in BOOLEAN, Return(t, ok),
         NEW r, r = task[t], NEW V, V = disk[Home[t]],
         NEW T, T = IF ok THEN Applied(OpAt[r.pc], V, Argument(r)) ELSE V
  PROVE  FileAcks(Home[t], T, made')
<1> DEFINE n == Home[t]
           b == r.bundle
           a == Argument(r)
<1>1. Store!InCall(t) /\ Busy(t)
  BY EndDoes DEF Return
<1>2. JobSound(t, r) /\ AckJob(t, r) /\ r.pc \in Writes
  BY <1>1 DEF IInv, JobsSound, CallsMatch, AcksSound, AckJobs
<1>3. /\ n \in Nodes /\ V \in SUBSET Bundle /\ made \in SUBSET AckIds
      /\ FileAcks(n, V, made) /\ EndsApart
  BY StoreTypes, ManagerAssumption DEF IInv, TypeOK, Store!TypeOK, AcksSound
<1>4. b \in Bundle
  BY <1>2 DEF JobSound, Task
<1>5. made' = IF ok /\ r.pc = "keep" /\ AtEnd(t, b) THEN made \cup {b.id} ELSE made
  BY DEF Return, Creates, AtEnd
<1>6. IsAck(b) => AckOf[b.id] \in Data
  BY BundleAssumption DEF IsAck
<1>7. \A d \in Data : ~(d \in AckIds)
  BY BundleAssumption
<1>8. CASE ~ok
  BY <1>3, <1>5, <1>8
<1>9. CASE ok /\ r.pc \in {"keep", "save"}
  <2>1. T = Added(V, b) /\ made' \subseteq made \cup {b.id}
    BY <1>5, <1>9 DEF OpAt, Applied, Argument
  <2>2. IsAck(b) => n = source[AckOf[b.id]] \/ ~HasAckFor(V, AckOf[b.id])
    BY <1>2, <1>9 DEF AckJob, ArrivedAck
  <2>3. IsAck(b) /\ n = destination[AckOf[b.id]] => Kept(V, AckOf[b.id])
    BY <1>2, <1>3, <1>6, <1>9 DEF AckJob, AtEnd, ArrivedAck, EndsApart
  <2>4. ~IsAck(b) /\ n = destination[b.id] => b.status = "Delivered"
    BY <1>2, <1>9 DEF AckJob, ArrivedData
  <2> QED
    BY <1>3, <1>4, <2>1, <2>2, <2>3, <2>4, AddedAcks
<1>10. CASE ok /\ r.pc \in {"update", "mark"}
  <2>1. T = Replaced(V, a) /\ made' = made
    BY <1>5, <1>10 DEF OpAt, Applied
  <2>2. a \in Bundle /\ (~IsAck(a) /\ n = destination[a.id] => a.status = "Delivered")
    BY <1>2, <1>4, <1>6, <1>10 DEF AckJob, ArrivedData, Argument, Acked, Bundle, Ids, Status,
                                   JobSound
  <2> QED
    BY <1>3, <2>1, <2>2, ReplacedAcks
<1>11. CASE ok /\ r.pc \in {"purge", "delete"}
  <2>1. T = Without(V, a.id) /\ made' = made
    BY <1>5, <1>11 DEF OpAt, Applied
  <2>2. a.id \in Data /\ (n = destination[a.id] => a.id \in expired)
    BY <1>2, <1>4, <1>6, <1>11 DEF AckJob, AtEnd, Argument, Acked, Bundle, Ids, JobSound, IsAck
  <2> QED
    BY <1>3, <2>1, <2>2, WithoutAcks
<1> QED
  BY <1>2, <1>8, <1>9, <1>10, <1>11 DEF Writes

LEMMA ReturnKeepsAcks ==
  ASSUME NoOverlap, NoFaults, IInv, AcksSound, RoomAtEnds,
         NEW t \in Threads, NEW ok \in BOOLEAN, Return(t, ok)
  PROVE  AcksSound'
<1>1. PICK r : r = task[t]
  OBVIOUS
<1>2. PICK V : V = disk[Home[t]]
  OBVIOUS
<1>3. PICK T : T = IF ok THEN Applied(OpAt[r.pc], V, Argument(r)) ELSE V
  OBVIOUS
<1>4. Store!End(t, ok) /\ Store!InCall(t) /\ Busy(t) /\ UNCHANGED ends
  BY EndDoes DEF Return
<1>5. /\ JobSound(t, r) /\ AckJob(t, r) /\ r.pc \in Writes
      /\ call[t].op = OpAt[r.pc] /\ call[t].bundle = Argument(r) /\ call[t].view = V
  BY <1>1, <1>2, <1>4 DEF IInv, JobsSound, CallsMatch, AcksSound, AckJobs
<1>6. disk' = (IF ok THEN [disk EXCEPT ![Home[t]] = Applied(OpAt[r.pc], V, Argument(r))]
               ELSE disk) /\ expired' = expired
  BY <1>4, <1>5, EndDoes
<1>7. disk' = [disk EXCEPT ![Home[t]] = T] /\ T = disk'[Home[t]]
  BY <1>2, <1>3, <1>6, ManagerAssumption DEF IInv, TypeOK, Store!TypeOK
<1>8. FileAcks(Home[t], T, made')
  BY <1>1, <1>2, <1>3, ReturnedAcks
<1>9. /\ made \subseteq made'
      /\ \A a \in made' \ made : destination[AckOf[a]] = Home[t]
  BY <1>1 DEF Return, Creates
<1>10. PICK next \in After(t, ok) : Go(t, next[1], next[2])
  BY DEF Return
<1>11. PICK pc, c : next = <<pc, c>> /\ Go(t, pc, c)
  BY <1>10 DEF After
<1>12. PICK k : k = IF pc = "done" THEN Idle ELSE [bundle |-> c, pc |-> pc]
  OBVIOUS
<1>13. ~ok /\ r.pc = "save" /\ ArrivedData(t, r.bundle) => r.bundle.id \in expired
  BY <1>1, ArrivedIsSaved
<1>14. k = Idle \/ AckJob(t, k)'
  BY <1>1, <1>2, <1>3, <1>4, <1>5, <1>6, <1>7, <1>10, <1>11, <1>12, <1>13, NextAckJob
<1>15. task' = [task EXCEPT ![t] = k]
  BY <1>11, <1>12 DEF Go
<1> QED
  BY <1>4, <1>6, <1>7, <1>8, <1>9, <1>14, <1>15, AckStepAt

LEMMA CrashKeepsAcks ==
  ASSUME IInv, AcksSound, NEW n \in Nodes, Crash(n)
  PROVE  AcksSound'
<1>1. UNCHANGED <<disk, expired, source, destination, made>>
  BY DEF Crash, ends
<1>2. \A u \in Threads : task'[u] = IF Home[u] = n THEN Idle ELSE task[u]
  BY DEF Crash
<1>3. AckJobs'
  <2> SUFFICES ASSUME NEW u \in Threads, Busy(u)' PROVE AckJob(u, task[u])'
    BY DEF AckJobs
  <2>1. AckJob(u, task'[u])
    BY <1>2 DEF Busy, AcksSound, AckJobs
  <2> QED
    BY <1>1, <2>1 DEF AckJob, Kept, AtEnd, ArrivedData, ArrivedAck
<1> QED
  BY <1>1, <1>3 DEF AcksSound, FileAcks, Kept, AcksLast, EndsApart

LEMMA ExpireKeepsAcks ==
  ASSUME IInv, AcksSound, NEW i \in Ids, Expire(i)
  PROVE  AcksSound'
<1>1. UNCHANGED <<disk, task, source, destination, made>> /\ expired' = expired \cup {i}
  BY DEF Expire, Store!Expire, ends
<1>2. AckJobs'
  <2> SUFFICES ASSUME NEW u \in Threads, Busy(u) PROVE AckJob(u, task[u])'
    BY <1>1 DEF AckJobs, Busy
  <2>1. AckJob(u, task[u])
    BY DEF AcksSound, AckJobs
  <2> QED
    BY <1>1, <2>1 DEF AckJob, Kept, AtEnd, ArrivedData, ArrivedAck
<1>3. \A n \in Nodes : FileAcks(n, disk[n], made)'
  BY <1>1 DEF AcksSound, FileAcks, Kept
<1>4. AcksLast'
  BY <1>1 DEF Expire, AcksSound, AcksLast
<1> QED
  BY <1>1, <1>2, <1>3, <1>4 DEF AcksSound, EndsApart

LEMMA AcksStep ==
  NoOverlap /\ NoFaults /\ IInv /\ AcksSound /\ RoomAtEnds /\ [Next]_vars => AcksSound'
<1> SUFFICES ASSUME NoOverlap, NoFaults, IInv, AcksSound, RoomAtEnds, [Next]_vars
             PROVE  AcksSound'
  OBVIOUS
<1>1. CASE UNCHANGED vars
  <2>1. UNCHANGED <<task, disk, expired, source, destination, made>>
    BY <1>1 DEF vars
  <2> QED
    BY <2>1, SameAcks
<1>2. ASSUME NEW t \in Threads, ReadStep(t) PROVE AcksSound'
  BY <1>2, ReadKeepsAcks
<1>3. ASSUME NEW t \in Threads, Call(t) \/ Sweep(t) PROVE AcksSound'
  BY <1>3, CallKeepsAcks, SweepKeepsAcks
<1>4. ASSUME NEW t \in Threads, NEW ok \in BOOLEAN, Return(t, ok) PROVE AcksSound'
  BY <1>4, ReturnKeepsAcks
<1>5. ASSUME NEW i \in Ids, Expire(i) PROVE AcksSound'
  BY <1>5, ExpireKeepsAcks
<1>6. ASSUME NEW n \in Nodes, Crash(n) PROVE AcksSound'
  BY <1>6, CrashKeepsAcks
<1>7. Next => \/ \E t \in Threads :
                   \/ ReadStep(t) \/ Call(t) \/ Sweep(t)
                   \/ \E ok \in BOOLEAN : Return(t, ok)
              \/ \E i \in Ids : Expire(i)
              \/ \E n \in Nodes : Crash(n)
  BY DEF Next, ReadStep
<1> QED
  BY <1>1, <1>2, <1>3, <1>4, <1>5, <1>6, <1>7

LEMMA AcksInit == Init => AcksSound
BY DEF Init, Store!Init, AcksSound, AckJobs, Busy, FileAcks, HasAckFor, AcksLast, EndsApart

----------------------------------------------------------------------------
(* Where no threads share a directory and no read or write fails:          *)

(* No node but its destination keeps DATA beside a live ACK, whatever jobs *)
(* it runs and wherever it crashes (handle_incoming_ack, save_bundle).     *)
THEOREM AcksBarData == NoOverlap /\ NoFaults => (Spec => []AckBarsData)
<1> SUFFICES ASSUME NoOverlap, NoFaults PROVE Spec => []AckBarsData
  OBVIOUS
<1>1. IInv /\ [Next]_vars => IInv'
  BY IInvStep
<1>2. IInv => AckBarsData
  BY DEF IInv
<1> QED
  BY <1>1, <1>2, IInvInit, PTL DEF Spec

(* Where, moreover, a destination can take what has not expired:           *)

(* A node that is not the source keeps one ACK for a DATA bundle, whatever *)
(* ids the ACKs have (handle_incoming_ack), and although the destination   *)
(* takes a random one each time it creates one (new_ack).                  *)
THEOREM OneAckEach ==
  NoOverlap /\ NoFaults => (Spec /\ []RoomAtEnds => []OneAckRecord)
<1> SUFFICES ASSUME NoOverlap, NoFaults PROVE Spec /\ []RoomAtEnds => []OneAckRecord
  OBVIOUS
<1>1. IInv /\ [Next]_vars => IInv'
  BY IInvStep
<1>2. IInv /\ AcksSound /\ RoomAtEnds /\ [Next]_vars => AcksSound'
  BY AcksStep
<1>3. AcksSound => OneAckRecord
  BY DEF AcksSound, FileAcks, OneAckRecord
<1> QED
  BY <1>1, <1>2, <1>3, IInvInit, AcksInit, PTL DEF Spec

(* The destination has stored the DATA as Delivered for which it sends out *)
(* an ACK, wherever a crash cut off the jobs before (route_bundle).        *)
THEOREM AcksMeanStored ==
  NoOverlap /\ NoFaults => (Spec /\ []RoomAtEnds => []AckMeansStored)
<1> SUFFICES ASSUME NoOverlap, NoFaults PROVE Spec /\ []RoomAtEnds => []AckMeansStored
  OBVIOUS
<1>1. IInv /\ [Next]_vars => IInv'
  BY IInvStep
<1>2. IInv /\ AcksSound /\ RoomAtEnds /\ [Next]_vars => AcksSound'
  BY AcksStep
<1>3. IInv /\ AcksSound => AckMeansStored
  <2> SUFFICES ASSUME IInv, AcksSound, NEW a \in made, NEW n \in Nodes,
                      Has(Live(disk[n], expired), a), n = destination[AckOf[a]]
               PROVE  Kept(disk[n], AckOf[a])
    BY DEF AckMeansStored, Kept
  <2>1. a \in AckIds /\ AckOf[a] \in Data
    BY BundleAssumption DEF IInv, TypeOK
  <2>2. HasAckFor(disk[n], AckOf[a])
    BY <2>1 DEF Has, Live, HasAckFor, IsAck
  <2> QED
    BY <2>1, <2>2 DEF AcksSound, FileAcks
<1> QED
  BY <1>1, <1>2, <1>3, IInvInit, AcksInit, PTL DEF Spec

=============================================================================
