---------------------------- MODULE StorageProofs ----------------------------
(***************************************************************************)
(* Theorems about the storage layer, for every set of nodes, threads and   *)
(* bundles and every capacity.                                             *)
(***************************************************************************)
EXTENDS StorageRefinement, FiniteSetTheorems, FunctionTheorems, TLAPS

----------------------------------------------------------------------------
(* The operators of BundleStore stay inside the type.                      *)
LEMMA AppliedType ==
  ASSUME NEW op \in Ops, NEW S \in SUBSET Bundle, NEW b \in Bundle
  PROVE  Applied(op, S, b) \in SUBSET Bundle
BY DEF Ops, Applied, Added, Replaced, Without

LEMMA LiveType ==
  ASSUME NEW S \in SUBSET Bundle, NEW gone
  PROVE  Live(S, gone) \in SUBSET S /\ Live(S, gone) \in SUBSET Bundle
BY DEF Live

----------------------------------------------------------------------------
(* Type correctness.                                                       *)
LEMMA TypeStep == TypeOK /\ [Next]_vars => TypeOK'
<1> SUFFICES ASSUME TypeOK, [Next]_vars PROVE TypeOK'
  OBVIOUS
<1> USE StorageAssumption DEF TypeOK
<1>1. ASSUME NEW t \in Threads, NEW op \in Ops, NEW b \in Bundle, Begin(t, op, b)
      PROVE  TypeOK'
  <2>1. PICK S \in Readings(Home[t]) :
          call' = [call EXCEPT ![t] =
                     [op |-> op, bundle |-> b, view |-> S,
                      stage |-> IF op = "save" /\ IdsOf(S) \cap expired # {}
                                THEN "sweep" ELSE "write"]]
    BY <1>1 DEF Begin
  <2>2. S \in SUBSET Bundle
    BY DEF Readings
  <2>3. [op |-> op, bundle |-> b, view |-> S,
         stage |-> IF op = "save" /\ IdsOf(S) \cap expired # {}
                   THEN "sweep" ELSE "write"] \in Call
    BY <2>2 DEF Call
  <2> QED
    BY <1>1, <2>1, <2>3 DEF Begin
<1>2. ASSUME NEW t \in Threads, Sweep(t) PROVE TypeOK'
  <2>1. call[t] \in Call
    BY <1>2 DEF Sweep, InCall
  <2>2. Live(call[t].view, expired) \in SUBSET Bundle
    BY <2>1, LiveType DEF Call
  <2>3. disk' \in [Nodes -> SUBSET Bundle]
    BY <1>2, <2>2 DEF Sweep
  <2>4. call' \in [Threads -> Call \cup {NoCall}]
    BY <1>2, <2>1, <2>2 DEF Sweep, Call
  <2> QED
    BY <1>2, <2>3, <2>4 DEF Sweep
<1>3. ASSUME NEW t \in Threads, NEW ok \in BOOLEAN, End(t, ok) PROVE TypeOK'
  <2>1. call[t] \in Call
    BY <1>3 DEF End, InCall
  <2>2. Applied(call[t].op, call[t].view, call[t].bundle) \in SUBSET Bundle
    BY <2>1, AppliedType DEF Call
  <2>3. disk' \in [Nodes -> SUBSET Bundle]
    BY <1>3, <2>2 DEF End
  <2> QED
    BY <1>3, <2>3 DEF End
<1>4. ASSUME NEW i \in Ids, Expire(i) PROVE TypeOK'
  BY <1>4 DEF Expire
<1>5. ASSUME NEW n \in Nodes, Crash(n) PROVE TypeOK'
  BY <1>5 DEF Crash
<1>6. ASSUME NEW t \in Threads, NEW b \in Bundle, SaveAckIfNew(t, b) PROVE TypeOK'
  <2>1. PICK S \in Readings(Home[t]) : disk' = [disk EXCEPT ![Home[t]] = Added(S, b)]
    BY <1>6 DEF SaveAckIfNew
  <2>2. Added(S, b) \in SUBSET Bundle
    BY DEF Readings, Added
  <2> QED
    BY <1>6, <2>1, <2>2 DEF SaveAckIfNew
<1>7. CASE UNCHANGED vars
  BY <1>7 DEF vars
<1> QED
  BY <1>1, <1>2, <1>3, <1>4, <1>5, <1>6, <1>7 DEF Next

(* Every reachable state of the storage layer has its type.                *)
THEOREM TypeCorrect == Spec => []TypeOK
<1>1. Init => TypeOK
  BY DEF Init, TypeOK
<1> QED
  BY <1>1, TypeStep, PTL DEF Spec


----------------------------------------------------------------------------
(* A call turns a well-formed list into a well-formed list.                *)
LEMMA LiveWellFormed ==
  ASSUME NEW S \in SUBSET Bundle, NEW gone, UniqueIds(S), WithinCapacity(S)
  PROVE  UniqueIds(Live(S, gone)) /\ WithinCapacity(Live(S, gone))
<1>1. Live(S, gone) \in SUBSET S
  BY LiveType
<1>2. IsFiniteSet(Live(S, gone)) /\ Cardinality(Live(S, gone)) <= Cardinality(S)
  BY <1>1, FS_Subset DEF WithinCapacity
<1>3. Cardinality(S) \in Nat /\ Cardinality(Live(S, gone)) \in Nat
  BY <1>2, FS_CardinalityType DEF WithinCapacity
<1>4. Capacity \in Nat
  BY BundleAssumption
<1> QED
  BY <1>1, <1>2, <1>3, <1>4 DEF UniqueIds, WithinCapacity

LEMMA ReplacedSize ==
  ASSUME NEW S, IsFiniteSet(S), NEW b
  PROVE  IsFiniteSet(Replaced(S, b)) /\ Cardinality(Replaced(S, b)) <= Cardinality(S)
<1> DEFINE f == [x \in S |-> IF x.id = b.id THEN b ELSE x]
<1>1. f \in Surjection(S, Replaced(S, b))
  BY DEF Surjection, Replaced
<1> HIDE DEF f
<1> QED
  BY <1>1, FS_Surjection

LEMMA AppliedWellFormed ==
  ASSUME NEW op \in Ops, NEW S \in SUBSET Bundle, NEW b \in Bundle,
         UniqueIds(S), WithinCapacity(S), Accepts(op, S, b)
  PROVE  UniqueIds(Applied(op, S, b)) /\ WithinCapacity(Applied(op, S, b))
<1>1. Capacity \in Nat /\ Cardinality(S) \in Nat /\ IsFiniteSet(S)
  BY BundleAssumption, FS_CardinalityType DEF WithinCapacity
<1>2. CASE op = "save"
  <2>1. CanSave(S, b)
    BY <1>2 DEF Accepts
  <2>2. UniqueIds(Added(S, b))
    BY <2>1 DEF CanSave, Has, UniqueIds, Added
  <2>3. b \notin S
    BY <2>1 DEF CanSave, Has
  <2>4. IsFiniteSet(Added(S, b)) /\ Cardinality(Added(S, b)) = Cardinality(S) + 1
    BY <1>1, <2>3, FS_AddElement DEF Added
  <2>5. WithinCapacity(Added(S, b))
    BY <1>1, <2>1, <2>4 DEF CanSave, WithinCapacity
  <2> QED
    BY <1>2, <2>2, <2>5 DEF Applied
<1>3. CASE op = "update"
  <2>1. UniqueIds(Replaced(S, b))
    BY DEF UniqueIds, Replaced
  <2>2. IsFiniteSet(Replaced(S, b)) /\ Cardinality(Replaced(S, b)) <= Cardinality(S)
    BY <1>1, ReplacedSize
  <2>3. Cardinality(Replaced(S, b)) \in Nat
    BY <2>2, FS_CardinalityType
  <2>4. WithinCapacity(Replaced(S, b))
    BY <1>1, <2>2, <2>3 DEF WithinCapacity
  <2> QED
    BY <1>3, <2>1, <2>4 DEF Applied
<1>4. CASE op = "delete"
  <2>1. Without(S, b.id) = Live(S, {b.id})
    BY DEF Without, Live
  <2> QED
    BY <1>4, <2>1, LiveWellFormed DEF Applied
<1> QED
  BY <1>2, <1>3, <1>4 DEF Ops

LEMMA SavedAckWellFormed ==
  ASSUME NEW S \in SUBSET Bundle, NEW b \in Bundle,
         UniqueIds(S), WithinCapacity(S), CanSaveAck(S, b)
  PROVE  UniqueIds(Added(S, b)) /\ WithinCapacity(Added(S, b))
<1>1. Capacity \in Nat /\ Cardinality(S) \in Nat /\ IsFiniteSet(S)
  BY BundleAssumption, FS_CardinalityType DEF WithinCapacity
<1>2. ~Has(S, b.id)
  BY DEF CanSaveAck, HasAckFor, Has, IsAck
<1>3. UniqueIds(Added(S, b)) /\ b \notin S
  BY <1>2 DEF Has, UniqueIds, Added
<1>4. IsFiniteSet(Added(S, b)) /\ Cardinality(Added(S, b)) = Cardinality(S) + 1
  BY <1>1, <1>3, FS_AddElement DEF Added
<1> QED
  BY <1>1, <1>3, <1>4 DEF CanSaveAck, WithinCapacity

----------------------------------------------------------------------------
(* No interleaving of threads, crash or failed file operation gives a file *)
(* that holds a bundle twice or more bundles than its capacity.            *)
WellFormed == FilesWellFormed /\ ViewsWellFormed

LEMMA WellFormedStep == TypeOK /\ WellFormed /\ [Next]_vars => WellFormed'
<1> SUFFICES ASSUME TypeOK, FilesWellFormed, ViewsWellFormed, [Next]_vars
             PROVE  FilesWellFormed' /\ ViewsWellFormed'
  BY DEF WellFormed
<1> USE StorageAssumption DEF TypeOK
<1> DEFINE Good(S) == UniqueIds(S) /\ WithinCapacity(S)
<1>1. ASSUME NEW t \in Threads, NEW op \in Ops, NEW b \in Bundle, Begin(t, op, b)
      PROVE  FilesWellFormed' /\ ViewsWellFormed'
  <2>1. PICK S \in Readings(Home[t]) :
          call' = [call EXCEPT ![t] =
                     [op |-> op, bundle |-> b, view |-> S,
                      stage |-> IF op = "save" /\ IdsOf(S) \cap expired # {}
                                THEN "sweep" ELSE "write"]]
    BY <1>1 DEF Begin
  <2>2. Good({})
    BY BundleAssumption, FS_EmptySet DEF UniqueIds, WithinCapacity
  <2>3. Good(S)
    BY <2>2 DEF Readings, FilesWellFormed
  <2>4. call'[t].view = S /\ \A s \in Threads \ {t} : call'[s] = call[s]
    BY <2>1
  <2>5. ViewsWellFormed'
    BY <2>3, <2>4 DEF ViewsWellFormed, InCall
  <2> QED
    BY <1>1, <2>5 DEF Begin, FilesWellFormed
<1>2. ASSUME NEW t \in Threads, Sweep(t)
      PROVE  FilesWellFormed' /\ ViewsWellFormed'
  <2> DEFINE left == Live(call[t].view, expired)
  <2>1. call[t] \in Call /\ Good(call[t].view)
    BY <1>2 DEF Sweep, InCall, ViewsWellFormed
  <2>2. Good(left)
    BY <2>1, LiveWellFormed DEF Call
  <2>3. \A n \in Nodes : disk'[n] = disk[n] \/ disk'[n] = left
    BY <1>2 DEF Sweep
  <2>4. call'[t].view = left /\ \A s \in Threads \ {t} : call'[s] = call[s]
    BY <1>2 DEF Sweep
  <2>5. FilesWellFormed'
    BY <2>2, <2>3 DEF FilesWellFormed
  <2>6. ViewsWellFormed'
    BY <2>2, <2>4 DEF ViewsWellFormed, InCall
  <2> QED
    BY <2>5, <2>6
<1>3. ASSUME NEW t \in Threads, NEW ok \in BOOLEAN, End(t, ok)
      PROVE  FilesWellFormed' /\ ViewsWellFormed'
  <2> DEFINE c == call[t]
             done == Applied(c.op, c.view, c.bundle)
  <2>1. c \in Call /\ Good(c.view)
    BY <1>3 DEF End, InCall, ViewsWellFormed
  <2>2. Accepts(c.op, c.view, c.bundle) => Good(done)
    BY <2>1, AppliedWellFormed DEF Call
  <2>3. \A n \in Nodes : \/ disk'[n] = disk[n]
                         \/ disk'[n] = done /\ Accepts(c.op, c.view, c.bundle)
    BY <1>3 DEF End
  <2>4. call'[t] = NoCall /\ \A s \in Threads \ {t} : call'[s] = call[s]
    BY <1>3 DEF End
  <2>5. FilesWellFormed'
    BY <2>2, <2>3 DEF FilesWellFormed
  <2>6. ViewsWellFormed'
    BY <2>4 DEF ViewsWellFormed, InCall
  <2> QED
    BY <2>5, <2>6
<1>4. ASSUME NEW i \in Ids, Expire(i)
      PROVE  FilesWellFormed' /\ ViewsWellFormed'
  BY <1>4 DEF Expire, FilesWellFormed, ViewsWellFormed, InCall
<1>5. ASSUME NEW n \in Nodes, Crash(n)
      PROVE  FilesWellFormed' /\ ViewsWellFormed'
  BY <1>5 DEF Crash, FilesWellFormed, ViewsWellFormed, InCall
<1>6. ASSUME NEW t \in Threads, NEW b \in Bundle, SaveAckIfNew(t, b)
      PROVE  FilesWellFormed' /\ ViewsWellFormed'
  <2>1. PICK S \in Readings(Home[t]) :
           /\ CanSaveAck(S, b)
           /\ disk' = [disk EXCEPT ![Home[t]] = Added(S, b)]
    BY <1>6 DEF SaveAckIfNew
  <2>2. Good({})
    BY BundleAssumption, FS_EmptySet DEF UniqueIds, WithinCapacity
  <2>3. Good(S) /\ S \in SUBSET Bundle
    BY <2>2 DEF Readings, FilesWellFormed
  <2>4. Good(Added(S, b))
    BY <2>1, <2>3, SavedAckWellFormed
  <2>5. FilesWellFormed'
    BY <2>1, <2>4 DEF FilesWellFormed
  <2> QED
    BY <1>6, <2>5 DEF SaveAckIfNew, ViewsWellFormed, InCall
<1>7. CASE UNCHANGED vars
  BY <1>7 DEF vars, FilesWellFormed, ViewsWellFormed, InCall
<1> QED
  BY <1>1, <1>2, <1>3, <1>4, <1>5, <1>6, <1>7 DEF Next

(* Duplicate detection and the capacity check of save_bundle hold good for *)
(* the file, although both look at a list that may be stale by the time it *)
(* is written (storage.rs:218-229): every file that gets written is itself *)
(* a list that passed the checks.                                          *)
THEOREM FilesStayWellFormed == Spec => []FilesWellFormed
<1>1. Init => WellFormed
  BY BundleAssumption, FS_EmptySet
  DEF Init, WellFormed, FilesWellFormed, ViewsWellFormed, UniqueIds,
      WithinCapacity, InCall
<1>2. WellFormed => FilesWellFormed
  BY DEF WellFormed
<1> QED
  BY <1>1, <1>2, WellFormedStep, TypeCorrect, PTL DEF Spec

----------------------------------------------------------------------------
(* Without overlapping calls on a directory and without failing reads, the *)
(* list a thread works on is the file (up to expired bundles).             *)
LEMMA LiveTwice ==
  ASSUME NEW S, NEW G, NEW H, G \subseteq H
  PROVE  Live(Live(S, G), H) = Live(S, H)
BY DEF Live

LEMMA InSyncStep ==
  ASSUME NoOverlap, NoReadFaults
  PROVE  TypeOK /\ InSync /\ [Next]_vars => InSync'
<1> SUFFICES ASSUME TypeOK, InSync, [Next]_vars,
                    NEW s \in Threads, InCall(s)'
             PROVE  ViewInSync(s)'
  BY DEF InSync
<1> USE StorageAssumption DEF TypeOK
<1>a. ASSUME call'[s] = call[s], disk'[Home[s]] = disk[Home[s]], expired \subseteq expired'
      PROVE  ViewInSync(s)'
  <2>1. InCall(s)
    BY <1>a DEF InCall
  <2>2. PICK gone \in SUBSET expired :
           /\ call[s].view = Live(disk[Home[s]], gone)
           /\ call[s].op = "save" \/ (gone = {} /\ call[s].stage = "write")
    BY <2>1 DEF InSync, ViewInSync
  <2> QED
    BY <1>a, <2>2 DEF ViewInSync
<1>1. ASSUME NEW t \in Threads, NEW op \in Ops, NEW b \in Bundle, Begin(t, op, b)
      PROVE  ViewInSync(s)'
  <2>1. CASE s = t
    <3>1. PICK S \in Readings(Home[t]) :
            call' = [call EXCEPT ![t] =
                       [op |-> op, bundle |-> b, view |-> S,
                        stage |-> IF op = "save" /\ IdsOf(S) \cap expired # {}
                                  THEN "sweep" ELSE "write"]]
      BY <1>1 DEF Begin
    <3>2. S = disk[Home[t]]
      BY DEF Readings, NoReadFaults
    <3>3. disk'[Home[s]] = Live(disk[Home[t]], {})
      BY <1>1, <2>1 DEF Begin, Live
    <3>4. /\ call'[s].view = Live(disk'[Home[s]], {})
          /\ call'[s].op = "save" \/ call'[s].stage = "write"
      BY <2>1, <3>1, <3>2, <3>3 DEF Live
    <3> QED
      BY <3>4 DEF ViewInSync
  <2>2. CASE s # t
    BY <1>1, <1>a, <2>2 DEF Begin
  <2> QED
    BY <2>1, <2>2
<1>2. ASSUME NEW t \in Threads, Sweep(t)
      PROVE  ViewInSync(s)'
  <2>1. CASE s = t
    <3>1. PICK gone \in SUBSET expired :
             /\ call[t].view = Live(disk[Home[t]], gone)
             /\ call[t].op = "save" \/ (gone = {} /\ call[t].stage = "write")
      BY <1>2 DEF Sweep, InSync, ViewInSync
    <3>2. call[t].op = "save"
      BY <1>2, <3>1 DEF Sweep
    <3>3. Live(call[t].view, expired) = Live(disk[Home[t]], expired)
      BY <3>1, LiveTwice
    <3>4. Live(disk'[Home[t]], expired) = Live(disk[Home[t]], expired)
      BY <1>2, <3>3, LiveTwice DEF Sweep
    <3>5. call'[s].view = Live(disk'[Home[s]], expired') /\ call'[s].op = "save"
      BY <1>2, <2>1, <3>2, <3>3, <3>4 DEF Sweep
    <3> QED
      BY <3>5 DEF ViewInSync
  <2>2. CASE s # t
    <3>1. Home[s] # Home[t]
      BY <2>2 DEF NoOverlap
    <3> QED
      BY <1>2, <1>a, <2>2, <3>1 DEF Sweep
  <2> QED
    BY <2>1, <2>2
<1>3. ASSUME NEW t \in Threads, NEW ok \in BOOLEAN, End(t, ok)
      PROVE  ViewInSync(s)'
  <2>1. s # t
    BY <1>3 DEF End, InCall
  <2>2. Home[s] # Home[t]
    BY <2>1 DEF NoOverlap
  <2> QED
    BY <1>3, <1>a, <2>1, <2>2 DEF End
<1>4. ASSUME NEW i \in Ids, Expire(i)
      PROVE  ViewInSync(s)'
  BY <1>4, <1>a DEF Expire
<1>5. ASSUME NEW n \in Nodes, Crash(n)
      PROVE  ViewInSync(s)'
  <2>1. call'[s] = call[s]
    BY <1>5 DEF Crash, InCall
  <2> QED
    BY <1>5, <1>a, <2>1 DEF Crash
<1>6. ASSUME NEW t \in Threads, NEW b \in Bundle, SaveAckIfNew(t, b)
      PROVE  ViewInSync(s)'
  <2>1. s # t
    BY <1>6 DEF SaveAckIfNew, InCall
  <2>2. Home[s] # Home[t]
    BY <2>1 DEF NoOverlap
  <2> QED
    BY <1>6, <1>a, <2>2 DEF SaveAckIfNew
<1>7. CASE UNCHANGED vars
  BY <1>7, <1>a DEF vars
<1> QED
  BY <1>1, <1>2, <1>3, <1>4, <1>5, <1>6, <1>7 DEF Next

(* The list refresh_from_disk leaves in `self.bundles' is still the file   *)
(* when save_to_file writes it back.                                       *)
THEOREM ViewsInSync ==
  ASSUME NoOverlap, NoReadFaults
  PROVE  Spec => []InSync
<1>1. Init => InSync
  BY DEF Init, InSync, InCall
<1> QED
  BY <1>1, InSyncStep, TypeCorrect, PTL DEF Spec

----------------------------------------------------------------------------
(* The two modules use the operators of BundleStore with the same          *)
(* constants.                                                              *)
LEMMA SameSets == Atomic!Ids = Ids /\ Atomic!Bundle = Bundle /\ Atomic!Ops = Ops
<1>1. Atomic!Ids = Ids /\ Atomic!Status = Status /\ Atomic!Ops = Ops
  BY DEF Atomic!Ids, Ids, Atomic!Status, Status, Atomic!Ops, Ops
<1> QED
  BY <1>1 DEF Atomic!Bundle, Bundle

LEMMA SameLive ==
  ASSUME NEW S, NEW gone
  PROVE  Atomic!Live(S, gone) = Live(S, gone)
BY DEF Atomic!Live, Live

LEMMA SameDecisions ==
  ASSUME NEW op, NEW S, NEW b
  PROVE  /\ Atomic!Accepts(op, S, b) <=> Accepts(op, S, b)
         /\ Atomic!Applied(op, S, b) = Applied(op, S, b)
<1>1. Atomic!Has(S, b.id) <=> Has(S, b.id)
  BY DEF Atomic!Has, Has
<1>2. Atomic!Barred(S, b) <=> Barred(S, b)
  BY DEF Atomic!Barred, Barred, Atomic!IsAck, IsAck, Atomic!HasAckFor, HasAckFor
<1>3. Atomic!Cardinality(S) = Cardinality(S)
  BY DEF Atomic!Cardinality, Cardinality, Atomic!IsFiniteSet, IsFiniteSet
<1>4. Atomic!Accepts(op, S, b) <=> Accepts(op, S, b)
  BY <1>1, <1>2, <1>3 DEF Atomic!Accepts, Accepts, Atomic!CanSave, CanSave,
                    Atomic!CanUpdate, CanUpdate, Atomic!CanDelete, CanDelete
<1>5. Atomic!Applied(op, S, b) = Applied(op, S, b)
  BY DEF Atomic!Applied, Applied, Atomic!Added, Added,
         Atomic!Replaced, Replaced, Atomic!Without, Without
<1> QED
  BY <1>4, <1>5

LEMMA SameAckDecisions ==
  ASSUME NEW S, NEW b
  PROVE  /\ Atomic!CanSaveAck(S, b) <=> CanSaveAck(S, b)
         /\ Atomic!Added(S, b) = Added(S, b)
<1>1. Atomic!Cardinality(S) = Cardinality(S)
  BY DEF Atomic!Cardinality, Cardinality, Atomic!IsFiniteSet, IsFiniteSet
<1> QED
  BY <1>1 DEF Atomic!CanSaveAck, CanSaveAck, Atomic!IsAck, IsAck,
              Atomic!HasAckFor, HasAckFor, Atomic!Added, Added

(* The refinement: every step of a thread is a step of the atomic store or *)
(* leaves it unchanged.                                                    *)
LEMMA RefinementStep ==
  ASSUME NoOverlap, NoReadFaults
  PROVE  TypeOK /\ InSync /\ [Next]_vars => [Atomic!Next]_(Atomic!vars)
<1> SUFFICES ASSUME TypeOK, InSync, [Next]_vars
             PROVE  Atomic!Next \/ UNCHANGED <<disk, expired>>
  BY DEF Atomic!vars
<1> USE StorageAssumption DEF TypeOK
<1>1. ASSUME NEW t \in Threads, NEW op \in Ops, NEW b \in Bundle, Begin(t, op, b)
      PROVE  UNCHANGED <<disk, expired>>
  BY <1>1 DEF Begin
<1>2. ASSUME NEW t \in Threads, Sweep(t)
      PROVE  Atomic!Next \/ UNCHANGED <<disk, expired>>
  <2>1. PICK gone \in SUBSET expired : call[t].view = Live(disk[Home[t]], gone)
    BY <1>2 DEF Sweep, InSync, ViewInSync
  <2>2. Live(call[t].view, expired) = Live(disk[Home[t]], expired)
    BY <2>1, LiveTwice
  <2>4. Atomic!Sweep(Home[t]) \/ UNCHANGED <<disk, expired>>
    BY <1>2, <2>2, SameLive DEF Sweep, Atomic!Sweep
  <2> QED
    BY <2>4 DEF Atomic!Next
<1>3. ASSUME NEW t \in Threads, NEW ok \in BOOLEAN, End(t, ok)
      PROVE  Atomic!Next \/ UNCHANGED <<disk, expired>>
  <2> DEFINE c == call[t]
             n == Home[t]
  <2>1. c \in Call
    BY <1>3 DEF End, InCall
  <2>2. PICK gone \in SUBSET expired :
           /\ c.view = Live(disk[n], gone)
           /\ c.op = "save" \/ gone = {}
    BY <1>3 DEF End, InSync, ViewInSync
  <2>3. \/ UNCHANGED <<disk, expired>>
        \/ /\ Accepts(c.op, c.view, c.bundle)
           /\ disk' = [disk EXCEPT ![n] = Applied(c.op, c.view, c.bundle)]
           /\ UNCHANGED expired
    BY <1>3 DEF End
  <2>4. gone \in SUBSET (IF c.op = "save" THEN expired ELSE {})
    BY <2>2
  <2>5. CASE /\ Accepts(c.op, c.view, c.bundle)
             /\ disk' = [disk EXCEPT ![n] = Applied(c.op, c.view, c.bundle)]
             /\ UNCHANGED expired
    <3>1. Atomic!Do(n, c.op, c.bundle)
      BY <2>2, <2>4, <2>5, SameLive, SameDecisions DEF Atomic!Do
    <3> QED
      BY <2>1, <3>1, SameSets DEF Call, Atomic!Next
  <2> QED
    BY <2>3, <2>5
<1>4. ASSUME NEW i \in Ids, Expire(i) PROVE Atomic!Next
  BY <1>4, SameSets DEF Expire, Atomic!Expire, Atomic!Next
<1>5. ASSUME NEW n \in Nodes, Crash(n) PROVE UNCHANGED <<disk, expired>>
  BY <1>5 DEF Crash
<1>6. ASSUME NEW t \in Threads, NEW b \in Bundle, SaveAckIfNew(t, b) PROVE Atomic!Next
  <2>1. /\ CanSaveAck(disk[Home[t]], b)
        /\ disk' = [disk EXCEPT ![Home[t]] = Added(disk[Home[t]], b)]
    BY <1>6 DEF SaveAckIfNew, Readings, NoReadFaults
  <2>2. Atomic!SaveAck(Home[t], b)
    BY <1>6, <2>1, SameAckDecisions DEF SaveAckIfNew, Atomic!SaveAck
  <2> QED
    BY <2>2, SameSets DEF Atomic!Next
<1>7. CASE UNCHANGED vars
  BY <1>7 DEF vars
<1> QED
  BY <1>1, <1>2, <1>3, <1>4, <1>5, <1>6, <1>7 DEF Next

(* When the calls on a directory never overlap and no read fails, the two  *)
(* locked halves of save_bundle, update_bundle and delete_bundle amount to *)
(* one atomic step: the storage layer implements AtomicStore.              *)
THEOREM Refinement ==
  ASSUME NoOverlap, NoReadFaults
  PROVE  Spec => ImplementsAtomicStore
<1>1. Init => Atomic!Init
  BY DEF Init, Atomic!Init
<1> QED
  BY <1>1, RefinementStep, ViewsInSync, TypeCorrect, PTL
  DEF Spec, ImplementsAtomicStore, Atomic!Spec

----------------------------------------------------------------------------
(* What a step of the atomic store does to the ids in a file.              *)
LEMMA PurposeStep ==
  ASSUME NoOverlap, NoReadFaults
  PROVE  TypeOK /\ InSync /\ [Next]_vars =>
           \A n \in Nodes : \A i \in IdsOf(disk[n]) \ IdsOf(disk'[n]) :
             \/ i \in expired
             \/ \E t \in Threads : /\ Home[t] = n /\ InCall(t) /\ ~InCall(t)'
                                   /\ call[t].op = "delete"
                                   /\ call[t].bundle.id = i
<1> DEFINE OnPurpose(n, i) ==
             \/ i \in expired
             \/ \E t \in Threads : /\ Home[t] = n /\ InCall(t) /\ ~InCall(t)'
                                   /\ call[t].op = "delete"
                                   /\ call[t].bundle.id = i
<1> SUFFICES ASSUME TypeOK, InSync, [Next]_vars, NEW n \in Nodes,
                    NEW x \in disk[n], x.id \notin IdsOf(disk'[n])
             PROVE  OnPurpose(n, x.id)
  BY DEF IdsOf
<1> USE StorageAssumption DEF TypeOK
<1>1. disk'[n] # disk[n]
  BY DEF IdsOf
<1>2. ASSUME NEW t \in Threads, Sweep(t) PROVE OnPurpose(n, x.id)
  <2>1. PICK gone \in SUBSET expired : call[t].view = Live(disk[Home[t]], gone)
    BY <1>2 DEF Sweep, InSync, ViewInSync
  <2>2. n = Home[t] /\ disk'[n] = Live(disk[n], expired)
    BY <1>1, <1>2, <2>1, LiveTwice DEF Sweep
  <2> QED
    BY <2>2 DEF Live, IdsOf
<1>3. ASSUME NEW t \in Threads, NEW ok \in BOOLEAN, End(t, ok)
      PROVE  OnPurpose(n, x.id)
  <2> DEFINE c == call[t]
  <2>1. c \in Call
    BY <1>3 DEF End, InCall
  <2>2. PICK gone \in SUBSET expired : c.view = Live(disk[Home[t]], gone)
    BY <1>3 DEF End, InSync, ViewInSync
  <2>3. n = Home[t] /\ disk'[n] = Applied(c.op, c.view, c.bundle)
    BY <1>1, <1>3 DEF End
  <2>4. CASE x.id \in gone
    BY <2>4
  <2>5. CASE x.id \notin gone
    <3>1. x \in c.view
      BY <2>2, <2>3, <2>5 DEF Live
    <3>2. x.id \in IdsOf(Added(c.view, c.bundle))
      BY <3>1 DEF Added, IdsOf
    <3>3. x.id \in IdsOf(Replaced(c.view, c.bundle))
      BY <3>1 DEF Replaced, IdsOf
    <3>4. x.id = c.bundle.id \/ x.id \in IdsOf(Without(c.view, c.bundle.id))
      BY <3>1 DEF Without, IdsOf
    <3>5. c.op = "delete" /\ c.bundle.id = x.id
      BY <2>1, <2>3, <3>2, <3>3, <3>4 DEF Applied, Call, Ops
    <3> QED
      BY <1>3, <2>3, <3>5 DEF End, InCall
  <2> QED
    BY <2>4, <2>5
<1>4. ASSUME NEW t \in Threads, NEW b \in Bundle, SaveAckIfNew(t, b) PROVE FALSE
  BY <1>4 DEF SaveAckIfNew, Readings, NoReadFaults, Added, IdsOf
<1> QED
  BY <1>1, <1>2, <1>3, <1>4 DEF Next, Begin, Expire, Crash, vars

(* A record leaves bundles.json only through a delete of that bundle or a  *)
(* sweep that found it expired: no save_bundle or update_bundle writes     *)
(* back a list that lacks what another call saved, as long as the calls on *)
(* a directory do not overlap.                                             *)
THEOREM NothingLost ==
  ASSUME NoOverlap, NoReadFaults
  PROVE  Spec => LeavesOnlyOnPurpose
BY PurposeStep, ViewsInSync, TypeCorrect, PTL DEF Spec, LeavesOnlyOnPurpose

LEMMA ResurrectionStep ==
  ASSUME NoOverlap, NoReadFaults
  PROVE  TypeOK /\ InSync /\ [Next]_vars =>
           \A n \in Nodes : \A i \in Data \cap (IdsOf(disk'[n]) \ IdsOf(disk[n])) :
             ~HasAckFor(Live(disk[n], expired), i)
<1> SUFFICES ASSUME TypeOK, InSync, [Next]_vars, NEW n \in Nodes, NEW x \in disk'[n],
                    x.id \in Data, x.id \notin IdsOf(disk[n])
             PROVE  ~HasAckFor(Live(disk[n], expired), x.id)
  BY DEF IdsOf
<1> USE StorageAssumption DEF TypeOK
<1>1. disk'[n] # disk[n]
  BY DEF IdsOf
<1>2. ASSUME NEW t \in Threads, Sweep(t) PROVE FALSE
  <2>1. PICK gone \in SUBSET expired : call[t].view = Live(disk[Home[t]], gone)
    BY <1>2 DEF Sweep, InSync, ViewInSync
  <2>2. disk'[n] \subseteq disk[n]
    BY <1>2, <2>1 DEF Sweep, Live
  <2> QED
    BY <2>2 DEF IdsOf
<1>3. ASSUME NEW t \in Threads, NEW ok \in BOOLEAN, End(t, ok)
      PROVE  ~HasAckFor(Live(disk[n], expired), x.id)
  <2> DEFINE c == call[t]
  <2>1. c \in Call
    BY <1>3 DEF End, InCall
  <2>2. PICK gone \in SUBSET expired : c.view = Live(disk[Home[t]], gone)
    BY <1>3 DEF End, InSync, ViewInSync
  <2>3. /\ n = Home[t] /\ disk'[n] = Applied(c.op, c.view, c.bundle)
        /\ Accepts(c.op, c.view, c.bundle)
    BY <1>1, <1>3 DEF End
  <2>4. \A y \in c.view : y.id # x.id
    BY <2>2, <2>3 DEF Live, IdsOf
  <2>5. c.op = "save" /\ x = c.bundle
    <3>1. x \notin Without(c.view, c.bundle.id)
      BY <2>4 DEF Without
    <3>2. x \in Replaced(c.view, c.bundle) => Has(c.view, x.id)
      BY DEF Replaced, Has
    <3>3. c.op # "update"
      BY <2>3, <2>4, <3>2 DEF Applied, Has
    <3> QED
      BY <2>1, <2>3, <2>4, <3>1, <3>3 DEF Applied, Added, Call, Ops
  <2>6. ~HasAckFor(c.view, x.id)
    BY <2>3, <2>5, BundleAssumption DEF Accepts, CanSave, Barred, IsAck
  <2> QED
    BY <2>2, <2>3, <2>6 DEF HasAckFor, Live
<1>4. ASSUME NEW t \in Threads, NEW b \in Bundle, SaveAckIfNew(t, b) PROVE FALSE
  <2>1. x = b /\ IsAck(b)
    BY <1>4 DEF SaveAckIfNew, Readings, NoReadFaults, Added, IdsOf, CanSaveAck
  <2> QED
    BY <2>1, BundleAssumption DEF IsAck
<1> QED
  BY <1>1, <1>2, <1>3, <1>4 DEF Next, Begin, Expire, Crash, vars

(* "If an ACK for this DATA already exists, do not resurrect the DATA      *)
(* bundle" (storage.rs:212) is true of every step of the storage layer     *)
(* whose calls do not overlap.                                             *)
THEOREM NoDataReturns ==
  ASSUME NoOverlap, NoReadFaults
  PROVE  Spec => NoResurrection
BY ResurrectionStep, ViewsInSync, TypeCorrect, PTL DEF Spec, NoResurrection

=============================================================================
