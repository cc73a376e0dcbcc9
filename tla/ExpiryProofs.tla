---------------------------- MODULE ExpiryProofs -----------------------------
(***************************************************************************)
(* Theorems about Expiry, for every set of nodes, every resolution of the  *)
(* clock, every set of ttls and every width of the integers.               *)
(***************************************************************************)
EXTENDS Expiry, TLAPS

(* A timestamp, of the DATA or of the ACK: not older than that of the DATA *)
(* on the wire, and not in the future.                                     *)
Since(t) == t \in Times /\ OnWire(born) <= t /\ t <= now

(* What the file of n may be.  The last conjunct is about the ACK: a file  *)
(* that has had it has it still, or the ttl is over.                       *)
Sound(n, file) ==
  /\ file \in [Kinds -> AtMostOne(Times)]
  /\ \A k \in Kinds : \A t \in file[k] : Since(t)
  /\ ttl < Half /\ n \in acked =>
       Outlived \/ file["ack"] # {}

FilesSound ==
  /\ copies \in [Kinds -> [Nodes -> AtMostOne(Times)]]
  /\ \A n \in Nodes : Sound(n, FileOf(n))

JobSound(job) == job \in AtMostOne(Jobs) /\ \A j \in job : Since(j[2])

JobsSound ==
  /\ hand \in [Kinds -> [Nodes -> AtMostOne(Jobs)]]
  /\ \A k \in Kinds, n \in Nodes : JobSound(hand[k][n])

ClockSound ==
  now \in Times /\ born \in Times /\ ttl \in Ttls /\ born <= now /\ acked \subseteq Nodes

IInv == ClockSound /\ FilesSound /\ JobsSound

----------------------------------------------------------------------------
(* Whole seconds: what a conversion to seconds and back loses is less than *)
(* a second.                                                               *)
LEMMA SecondsBounds ==
  ASSUME NEW t \in Nat, Ticks \in Nat \ {0}
  PROVE  /\ Seconds(t) \in Nat
         /\ OnWire(t) \in Nat /\ OnWire(t) <= t /\ t < OnWire(t) + Ticks
BY SMT DEF Seconds, OnWire

(* What the wire makes of two timestamps keeps their order, and what is    *)
(* cut already is left alone.                                              *)
LEMMA OnWireMonotone ==
  ASSUME NEW s \in Nat, NEW t \in Nat, Ticks \in Nat \ {0}, OnWire(s) <= t
  PROVE  OnWire(s) <= OnWire(t)
<1> DEFINE p == Seconds(s)
           q == Seconds(t)
<1>1. p \in Nat /\ q \in Nat /\ p * Ticks <= t /\ t < q * Ticks + Ticks
  BY SecondsBounds DEF OnWire
<1>2. p * Ticks < (q + 1) * Ticks
  BY <1>1, SMT
<1>3. p < q + 1
  BY <1>1, <1>2, SMT
<1>4. p * Ticks <= q * Ticks
  BY <1>1, <1>3, SMT
<1> QED
  BY <1>4 DEF OnWire

(* A copy is found expired only when the bundle's ttl is really over.      *)
LEMMA ExpiredIsOutlived ==
  ASSUME NEW t \in Nat, Since(t), IsExpired(t), ttl < Half,
         now \in Nat, born \in Nat, ttl \in Nat, Ticks \in Nat \ {0}, Half \in Nat
  PROVE  Outlived
<1> DEFINE d == now - t
<1>1. d \in Nat /\ d \div Ticks > ttl
  BY SMT DEF Since, IsExpired, Seconds, AsSigned
<1>2. d >= (ttl + 1) * Ticks
  BY <1>1, SMT
<1>3. d >= ttl * Ticks + Ticks
  BY <1>2, SMT
<1>4. born < t + Ticks
  BY SecondsBounds, SMT DEF Since, OnWire, Seconds
<1>5. ttl * Ticks \in Nat
  BY SMT
<1> QED
  BY <1>3, <1>4, <1>5, SMT DEF Outlived

(* Constants and variables are numbers where they have to be.              *)
LEMMA Numbers ==
  ASSUME ClockSound
  PROVE  /\ now \in Nat /\ born \in Nat /\ ttl \in Nat /\ Times \subseteq Nat
         /\ Ticks \in Nat \ {0} /\ Half \in Nat \ {0}
BY ExpiryAssumption, SMT DEF ExpiryAssumption, ClockSound, Times

----------------------------------------------------------------------------
(* What the storage layer makes of a sound file.                           *)
LEMMA LiveSound ==
  ASSUME IInv, NEW n \in Nodes
  PROVE  Sound(n, Live(n)) /\ Sound(n, FileOf(n))
<1>1. Sound(n, FileOf(n))
  BY DEF IInv, FilesSound
<1>2. Live(n) \in [Kinds -> AtMostOne(Times)]
  <2>1. ASSUME NEW k \in Kinds
        PROVE  {t \in copies[k][n] : ~IsExpired(t)} \in AtMostOne(Times)
    <3>1. copies[k][n] \in AtMostOne(Times)
      BY DEF IInv, FilesSound
    <3>2. CASE copies[k][n] = {}
      BY <3>2 DEF AtMostOne
    <3>3. ASSUME NEW x \in Times, copies[k][n] = {x}
          PROVE  {t \in {x} : ~IsExpired(t)} \in {{}, {x}}
      OBVIOUS
    <3> QED
      BY <3>1, <3>2, <3>3 DEF AtMostOne
  <2> QED
    BY <2>1 DEF Live
<1>3. \A k \in Kinds : \A t \in Live(n)[k] : Since(t)
  BY <1>1 DEF Live, Sound, FileOf
<1>4. ASSUME ttl < Half, n \in acked, ~Outlived
      PROVE  Live(n)["ack"] # {}
  <2>1. copies["ack"][n] # {}
    BY <1>1, <1>4 DEF Sound, FileOf, Kinds
  <2>2. PICK t \in copies["ack"][n] : Since(t)
    BY <1>1, <2>1 DEF Sound, FileOf, Kinds
  <2>3. ~IsExpired(t)
    BY <1>4, <2>2, Numbers, ExpiredIsOutlived DEF IInv, Since
  <2> QED
    BY <2>1, <2>2, <2>3 DEF Live, Kinds
<1> QED
  BY <1>1, <1>2, <1>3, <1>4 DEF Sound

LEMMA SavedSound ==
  ASSUME IInv, NEW n \in Nodes, NEW k \in Kinds, NEW t, Since(t)
  PROVE  Sound(n, Saved(n, k, t))
<1>1. Sound(n, Live(n))
  BY LiveSound
<1>2. CASE Barred(Live(n), k) \/ Live(n)[k] # {}
  BY <1>1, <1>2 DEF Saved
<1>3. CASE ~Barred(Live(n), k) /\ Live(n)[k] = {}
  <2> DEFINE file == [Live(n) EXCEPT ![k] = {t}]
  <2>1. Saved(n, k, t) = file
    BY <1>3 DEF Saved
  <2>2. file \in [Kinds -> AtMostOne(Times)]
    BY <1>1 DEF Sound, Since, AtMostOne
  <2>3. \A l \in Kinds : \A u \in file[l] : Since(u)
    BY <1>1 DEF Sound
  <2>4. ASSUME ttl < Half, n \in acked, ~Outlived
        PROVE  file["ack"] # {}
    BY <1>1, <2>4 DEF Sound, Kinds
  <2> QED
    BY <2>1, <2>2, <2>3, <2>4 DEF Sound
<1> QED
  BY <1>2, <1>3

LEMMA UpsertedSound ==
  ASSUME IInv, NEW n \in Nodes, NEW k \in Kinds, NEW t, Since(t)
  PROVE  Sound(n, Upserted(n, k, t))
<1>1. Sound(n, FileOf(n))
  BY LiveSound
<1>2. CASE copies[k][n] = {}
  BY <1>2, SavedSound DEF Upserted
<1>3. CASE copies[k][n] # {} /\ Barred(FileOf(n), k)
  BY <1>1, <1>3 DEF Upserted
<1>4. CASE copies[k][n] # {} /\ ~Barred(FileOf(n), k)
  <2> DEFINE file == [FileOf(n) EXCEPT ![k] = {t}]
  <2>1. Upserted(n, k, t) = file
    BY <1>4 DEF Upserted
  <2>2. file \in [Kinds -> AtMostOne(Times)]
    BY <1>1 DEF Sound, Since, AtMostOne
  <2>3. \A l \in Kinds : \A u \in file[l] : Since(u)
    BY <1>1 DEF Sound
  <2>4. ASSUME ttl < Half, n \in acked, ~Outlived
        PROVE  file["ack"] # {}
    BY <1>1, <2>4 DEF Sound, Kinds
  <2> QED
    BY <2>1, <2>2, <2>3, <2>4 DEF Sound
<1> QED
  BY <1>2, <1>3, <1>4

(* The ACK is in the file after save_bundle.                               *)
LEMMA SavedHasAck ==
  ASSUME NEW n \in Nodes, NEW t
  PROVE  Saved(n, "ack", t)["ack"] # {}
BY DEF Saved, Barred, Live, Kinds

(* handle_incoming_ack's delete leaves the ACK alone.                      *)
LEMMA PurgedSound ==
  ASSUME IInv, NEW n \in Nodes
  PROVE  Sound(n, [FileOf(n) EXCEPT !["data"] = {}])
<1> DEFINE file == [FileOf(n) EXCEPT !["data"] = {}]
<1>1. Sound(n, FileOf(n))
  BY LiveSound
<1>2. file \in [Kinds -> AtMostOne(Times)]
  BY <1>1 DEF Sound, AtMostOne
<1>3. \A k \in Kinds : \A u \in file[k] : Since(u)
  BY <1>1 DEF Sound
<1>4. file["ack"] = FileOf(n)["ack"]
  BY <1>1 DEF Sound, Kinds
<1> HIDE DEF file
<1>5. Sound(n, file)
  BY <1>1, <1>2, <1>3, <1>4 DEF Sound
<1> QED
  BY <1>5 DEF file

----------------------------------------------------------------------------
(* A step that writes one sound file keeps the files sound, also when this *)
(* file has the ACK now; what else it changes is told apart by the actions.*)
LEMMA WriteSound ==
  ASSUME IInv, NEW n \in Nodes, NEW file, Sound(n, file), Write(n, file),
         UNCHANGED <<now, born, ttl>>,
         acked' = acked \/ (acked' = acked \cup {n} /\ file["ack"] # {})
  PROVE  FilesSound'
<1>1. copies' \in [Kinds -> [Nodes -> AtMostOne(Times)]]
  BY DEF IInv, FilesSound, Sound, Write
<1>2. ASSUME NEW m \in Nodes
      PROVE  Sound(m, FileOf(m))'
  <2>1. FileOf(n)' = file
    BY DEF IInv, FilesSound, FileOf, Write, Sound
  <2>2. m # n => FileOf(m)' = FileOf(m)
    BY DEF IInv, FilesSound, FileOf, Write
  <2>3. Sound(m, IF m = n THEN file ELSE FileOf(m))
    BY LiveSound
  <2>4. FileOf(m)' = IF m = n THEN file ELSE FileOf(m)
    BY <2>1, <2>2
  <2>5. m \in acked' => m \in acked \/ FileOf(m)'["ack"] # {}
    BY <2>4
  <2> QED
    BY <2>3, <2>4, <2>5 DEF Sound, Since, OnWire, Seconds, Outlived
<1> QED
  BY <1>1, <1>2 DEF FilesSound

LEMMA SameFiles ==
  ASSUME IInv, UNCHANGED <<now, born, ttl, copies, acked>>
  PROVE  FilesSound'
BY DEF IInv, FilesSound, FileOf, Sound, Since, OnWire, Seconds, Outlived

(* A step that gives one job a sound next stage, or ends it.               *)
LEMMA GoesSound ==
  ASSUME IInv, NEW n \in Nodes, NEW k \in Kinds, NEW job, JobSound(job), Goes(n, k, job),
         UNCHANGED <<now, born, ttl>>
  PROVE  JobsSound'
<1>1. hand' \in [Kinds -> [Nodes -> AtMostOne(Jobs)]]
  BY DEF IInv, JobsSound, JobSound, Goes
<1>2. ASSUME NEW l \in Kinds, NEW m \in Nodes
      PROVE  JobSound(hand[l][m])'
  <2>1. JobSound(hand'[l][m])
    BY DEF IInv, JobsSound, Goes
  <2> QED
    BY <2>1 DEF JobSound, Since, OnWire, Seconds
<1> QED
  BY <1>1, <1>2 DEF JobsSound

LEMMA OneJobSound ==
  ASSUME NEW t, Since(t), NEW stage \in Stages
  PROVE  JobSound({<<stage, t>>})
BY DEF JobSound, AtMostOne, Jobs, Since

LEMMA NoJobSound == JobSound({})
BY DEF JobSound, AtMostOne

(* The timestamp of the job in hand.                                       *)
LEMMA InHand ==
  ASSUME IInv, NEW n \in Nodes, NEW k \in Kinds, NEW stage, NEW t, <<stage, t>> \in hand[k][n]
  PROVE  Since(t)
BY DEF IInv, JobsSound, JobSound

(* What is sent is sound when it arrives.                                  *)
LEMMA SentSound ==
  ASSUME IInv, NEW t, Since(t)
  PROVE  Since(OnWire(t))
<1>1. t \in Nat /\ born \in Nat /\ now \in Nat /\ MaxTime \in Nat /\ Ticks \in Nat \ {0}
  BY Numbers, ExpiryAssumption DEF IInv, Since, ExpiryAssumption
<1>2. OnWire(t) \in Nat /\ OnWire(t) <= t /\ OnWire(born) <= OnWire(t)
  BY <1>1, SecondsBounds, OnWireMonotone DEF Since
<1> QED
  BY <1>1, <1>2 DEF Since, Times

----------------------------------------------------------------------------
LEMMA InitSound == Init => IInv
<1> SUFFICES ASSUME Init PROVE IInv
  OBVIOUS
<1>1. now \in Nat /\ Ticks \in Nat \ {0} /\ MaxTime \in Nat /\ now <= MaxTime
  BY ExpiryAssumption, SMT DEF Init, ExpiryAssumption
<1>2. ClockSound
  BY <1>1, SMT DEF Init, ClockSound, Times
<1>3. Since(now)
  BY <1>1, SecondsBounds, SMT DEF Since, Init, Times
<1>4. FilesSound
  BY DEF Init, FilesSound, Sound, FileOf, AtMostOne, Kinds
<1>5. JobSound({<<"received", now>>})
  BY <1>3, OneJobSound DEF Stages
<1>6. JobsSound
  BY <1>5, NoJobSound DEF Init, JobsSound, JobSound
<1> QED
  BY <1>2, <1>4, <1>6 DEF IInv

LEMMA NextSound == IInv /\ [Next]_vars => IInv'
<1> SUFFICES ASSUME IInv, [Next]_vars PROVE IInv'
  OBVIOUS
<1> USE DEF Stages
<1>1. CASE Tick
  <2>1. now' = now + 1 /\ now' \in Times /\ now \in Nat /\ born \in Nat /\ ttl \in Nat
    BY <1>1, Numbers, ExpiryAssumption DEF Tick, IInv, ClockSound, Times, ExpiryAssumption
  <2>2. \A t : Since(t) => Since(t)'
    BY <1>1, <2>1, SMT DEF Since, Times, Tick, OnWire, Seconds
  <2>3. Outlived => Outlived'
    BY <1>1, <2>1, Numbers, SMT DEF Outlived, Tick, IInv
  <2>4. ClockSound'
    BY <1>1, <2>1 DEF ClockSound, IInv, Tick
  <2>5. FilesSound'
    BY <1>1, <2>2, <2>3 DEF FilesSound, IInv, Tick, Sound, FileOf
  <2>6. JobsSound'
    BY <1>1, <2>2 DEF JobsSound, IInv, Tick, JobSound
  <2> QED
    BY <2>4, <2>5, <2>6 DEF IInv
<1>2. ASSUME NEW n \in Nodes, NEW k \in Kinds, Drop(n, k) PROVE IInv'
  <2>1. FilesSound' /\ JobsSound'
    BY <1>2, SameFiles, GoesSound, NoJobSound DEF Drop
  <2> QED
    BY <1>2, <2>1 DEF Drop, IInv, ClockSound
<1>3. ASSUME NEW n \in Nodes, Check(n) PROVE IInv'
  <2>1. PICK t \in Times : hand["data"][n] = {<<"received", t>>}
                            /\ \/ Goes(n, "data", {})
                               \/ Goes(n, "data", {<<"checked", t>>})
    BY <1>3 DEF Check
  <2>2. Since(t)
    BY <2>1, InHand DEF Kinds
  <2>3. FilesSound' /\ JobsSound'
    BY <1>3, <2>1, <2>2, SameFiles, GoesSound, NoJobSound, OneJobSound DEF Check, Kinds
  <2> QED
    BY <1>3, <2>3 DEF Check, IInv, ClockSound
<1>4. ASSUME NEW n \in Nodes, Save(n) PROVE IInv'
  <2>1. PICK t \in Times : /\ hand["data"][n] = {<<"checked", t>>}
                           /\ Write(n, Saved(n, "data", t))
                           /\ Goes(n, "data", {<<"kept", t>>})
    BY <1>4 DEF Save
  <2>2. Since(t)
    BY <2>1, InHand DEF Kinds
  <2>3. FilesSound' /\ JobsSound'
    BY <1>4, <2>1, <2>2, SavedSound, WriteSound, GoesSound, OneJobSound DEF Save, Kinds
  <2> QED
    BY <1>4, <2>3 DEF Save, IInv, ClockSound
<1>5. CASE Deliver
  <2>1. PICK t \in Times : /\ hand["data"][Destination] = {<<"checked", t>>}
                           /\ Write(Destination, Upserted(Destination, "data", t))
                           /\ Goes(Destination, "data", {<<"delivered", t>>})
    BY <1>5 DEF Deliver
  <2>2. Since(t) /\ Destination \in Nodes
    BY <2>1, InHand, ExpiryAssumption DEF Kinds, ExpiryAssumption
  <2>3. FilesSound' /\ JobsSound'
    BY <1>5, <2>1, <2>2, UpsertedSound, WriteSound, GoesSound, OneJobSound DEF Deliver, Kinds
  <2> QED
    BY <1>5, <2>3 DEF Deliver, IInv, ClockSound
<1>6. CASE Acknowledge
  <2>1. Destination \in Nodes
    BY ExpiryAssumption DEF ExpiryAssumption
  <2>2. Since(now)
    BY Numbers, SecondsBounds, SMT DEF IInv, ClockSound, Since
  <2>3. FilesSound'
    BY <1>6, <2>1, <2>2, SavedSound, SavedHasAck, WriteSound DEF Acknowledge, Kinds
  <2>4. JobSound({<<"kept", now>>})
    BY <2>2, OneJobSound
  <2>5. \A k \in Kinds, n \in Nodes : hand'[k][n] \in {hand[k][n], {}, {<<"kept", now>>}}
    BY <1>6 DEF Acknowledge, IInv, JobsSound, Kinds
  <2>6. hand' \in [Kinds -> [Nodes -> AtMostOne(Jobs)]]
    BY <1>6, <2>1, <2>4, NoJobSound DEF Acknowledge, IInv, JobsSound, JobSound, Kinds
  <2>7. ASSUME NEW k \in Kinds, NEW n \in Nodes PROVE JobSound(hand[k][n])'
    <3>1. JobSound(hand'[k][n])
      BY <2>4, <2>5, NoJobSound DEF IInv, JobsSound
    <3> QED
      BY <1>6, <3>1 DEF Acknowledge, JobSound, Since, OnWire, Seconds
  <2> QED
    BY <1>6, <2>1, <2>3, <2>6, <2>7 DEF Acknowledge, IInv, ClockSound, JobsSound
<1>7. ASSUME NEW n \in Nodes, NEW k \in Kinds, Finish(n, k) PROVE IInv'
  <2>1. PICK t \in Times : /\ hand[k][n] = {<<"kept", t>>}
                           /\ Write(n, Upserted(n, k, t)) \/ UNCHANGED copies
                           /\ Goes(n, k, {})
    BY <1>7 DEF Finish
  <2>2. Since(t)
    BY <2>1, InHand
  <2>3. FilesSound' /\ JobsSound'
    BY <1>7, <2>1, <2>2, UpsertedSound, WriteSound, SameFiles, GoesSound, NoJobSound DEF Finish
  <2> QED
    BY <1>7, <2>3 DEF Finish, IInv, ClockSound
<1>8. ASSUME NEW n \in Nodes, TakeAck(n) \/ LookForAck(n) PROVE IInv'
  <2>1. PICK t \in Times : /\ hand["ack"][n] = {<<"received", t>>} \/ hand["ack"][n] = {<<"purged", t>>}
                           /\ \/ Goes(n, "ack", {})
                              \/ \E stage \in Stages : Goes(n, "ack", {<<stage, t>>})
    BY <1>8 DEF TakeAck, LookForAck
  <2>2. Since(t) /\ UNCHANGED <<now, born, ttl, copies, acked>>
    BY <1>8, <2>1, InHand DEF Kinds, TakeAck, LookForAck
  <2>3. FilesSound' /\ JobsSound'
    BY <2>1, <2>2, SameFiles, GoesSound, NoJobSound, OneJobSound DEF Kinds
  <2> QED
    BY <2>2, <2>3 DEF IInv, ClockSound
<1>12. ASSUME NEW n \in Nodes, Purge(n) PROVE IInv'
  <2>1. PICK t \in Times : /\ hand["ack"][n] = {<<"checked", t>>}
                           /\ Write(n, [FileOf(n) EXCEPT !["data"] = {}])
                           /\ Goes(n, "ack", {<<"purged", t>>})
    BY <1>12 DEF Purge
  <2>2. Since(t) /\ UNCHANGED <<now, born, ttl, acked>>
    BY <1>12, <2>1, InHand DEF Kinds, Purge
  <2>3. FilesSound'
    BY <2>1, <2>2, PurgedSound, WriteSound
  <2>4. JobsSound'
    BY <2>1, <2>2, GoesSound, OneJobSound DEF Kinds
  <2> QED
    BY <2>2, <2>3, <2>4 DEF IInv, ClockSound
<1>13. ASSUME NEW n \in Nodes, KeepAck(n) PROVE IInv'
  <2>1. PICK t \in Times : /\ hand["ack"][n] = {<<"new", t>>}
                           /\ Write(n, Saved(n, "ack", t))
                           /\ Goes(n, "ack", {<<"kept", t>>})
    BY <1>13 DEF KeepAck
  <2>2. Since(t) /\ UNCHANGED <<now, born, ttl>> /\ acked' = acked \cup {n}
    BY <1>13, <2>1, InHand DEF Kinds, KeepAck
  <2>3. FilesSound'
    BY <2>1, <2>2, SavedSound, SavedHasAck, WriteSound DEF Kinds
  <2>4. JobsSound'
    BY <2>1, <2>2, GoesSound, OneJobSound DEF Kinds
  <2> QED
    BY <2>2, <2>3, <2>4 DEF IInv, ClockSound
<1>9. ASSUME NEW n \in Nodes, Sweep(n) PROVE IInv'
  <2>1. FilesSound'
    BY <1>9, LiveSound, WriteSound DEF Sweep
  <2> QED
    BY <1>9, <2>1 DEF Sweep, IInv, ClockSound, JobsSound, JobSound, Since, OnWire, Seconds
<1>10. ASSUME NEW n \in Nodes, NEW m \in Nodes, NEW k \in Kinds, Send(n, m, k) PROVE IInv'
  <2>1. PICK t \in copies[k][n] \cup {u \in Times : <<"kept", u>> \in hand[k][n]} :
          Goes(m, k, {<<"received", OnWire(t)>>})
    BY <1>10 DEF Send
  <2>2. Since(t)
    BY <2>1, InHand, LiveSound DEF Sound, FileOf
  <2>3. FilesSound' /\ JobsSound'
    BY <1>10, <2>1, <2>2, SentSound, OneJobSound, SameFiles, GoesSound DEF Send
  <2> QED
    BY <1>10, <2>3 DEF Send, IInv, ClockSound
<1>11. CASE UNCHANGED vars
  <2>1. FilesSound'
    BY <1>11, SameFiles DEF vars
  <2> QED
    BY <1>11, <2>1 DEF vars, IInv, ClockSound, JobsSound, JobSound, Since, OnWire, Seconds
<1> QED
  BY <1>1, <1>2, <1>3, <1>4, <1>5, <1>6, <1>7, <1>8, <1>9, <1>10, <1>11, <1>12, <1>13
  DEF Next, DataJob, AckJob, Kinds

THEOREM AlwaysSound == Spec => []IInv
BY InitSound, NextSound, PTL DEF Spec

(* TypeOK is inductive with the ranges of the timestamps.                  *)
THEOREM TypeCorrect == Spec => []TypeOK
<1>1. IInv => TypeOK
  BY DEF IInv, ClockSound, FilesSound, JobsSound, TypeOK
<1> QED
  BY <1>1, AlwaysSound, PTL

----------------------------------------------------------------------------
(* The steps that may change a file.                                       *)
LEMMA StepsOnFiles ==
  ASSUME [Next]_vars
  PROVE  \/ UNCHANGED copies
         \/ \E n \in Nodes : Save(n) \/ Purge(n) \/ KeepAck(n) \/ Sweep(n)
         \/ Deliver \/ Acknowledge
         \/ \E n \in Nodes, k \in Kinds : Finish(n, k)
<1>1. CASE Tick \/ UNCHANGED vars
  BY <1>1 DEF Tick, vars
<1>2. ASSUME NEW n \in Nodes, DataJob(n)
      PROVE  UNCHANGED copies \/ Save(n) \/ Deliver \/ Acknowledge \/ Finish(n, "data")
  BY <1>2 DEF DataJob, Drop, Check
<1>3. ASSUME NEW n \in Nodes, AckJob(n)
      PROVE  UNCHANGED copies \/ Purge(n) \/ KeepAck(n) \/ Finish(n, "ack")
  BY <1>3 DEF AckJob, Drop, TakeAck, LookForAck
<1>4. ASSUME NEW n \in Nodes, NEW m \in Nodes, NEW k \in Kinds, Send(n, m, k)
      PROVE  UNCHANGED copies
  BY <1>4 DEF Send
<1> QED
  BY <1>1, <1>2, <1>3, <1>4 DEF Next, Kinds

(* Of a file that holds the DATA the storage layer makes one without it    *)
(* only when the ttl is over.                                              *)
LEMMA SweptIsOutlived ==
  ASSUME IInv, NEW n \in Nodes, ttl < Half, copies["data"][n] # {}, Live(n)["data"] = {}
  PROVE  Outlived
<1>1. PICK t \in copies["data"][n] : Since(t) /\ IsExpired(t)
  BY LiveSound DEF Live, Sound, FileOf, Kinds
<1> QED
  BY <1>1, Numbers, ExpiredIsOutlived DEF IInv, Since

LEMMA SavedKeeps ==
  ASSUME IInv, NEW n \in Nodes, NEW k \in Kinds, NEW t, ttl < Half, copies["data"][n] # {},
         Saved(n, k, t)["data"] = {}
  PROVE  Outlived
<1>1. Live(n)["data"] = {}
  BY DEF Saved, Live, Kinds
<1> QED
  BY <1>1, SweptIsOutlived

LEMMA UpsertedKeeps ==
  ASSUME IInv, NEW n \in Nodes, NEW k \in Kinds, NEW t, ttl < Half, copies["data"][n] # {},
         Upserted(n, k, t)["data"] = {}
  PROVE  Outlived
BY SavedKeeps DEF Upserted, FileOf, Kinds

(* No copy of the DATA expires before its time, whatever the wire cuts off *)
(* its timestamp (is_expired, cleanup_expired_bundles).                    *)
THEOREM NothingExpiresEarly == Spec => NeverEarly
<1> DEFINE Early(n) == copies["data"][n] # {} /\ copies'["data"][n] = {}
<1>1. ASSUME IInv, [Next]_vars, ttl < Half, NEW n \in Nodes, Early(n)
      PROVE  Outlived \/ Purges(n)
  <2>1. \A m \in Nodes : \A file : Write(m, file) =>
          copies'["data"][n] = IF n = m THEN file["data"] ELSE copies["data"][n]
    BY <1>1 DEF Write, IInv, FilesSound, Kinds
  <2>2. Destination \in Nodes
    BY ExpiryAssumption DEF ExpiryAssumption
  <2>3. CASE UNCHANGED copies
    BY <1>1, <2>3
  <2>4. CASE \E m \in Nodes : Save(m)
    BY <1>1, <2>1, <2>4, SavedKeeps DEF Save, Kinds
  <2>5. CASE Deliver
    BY <1>1, <2>1, <2>2, <2>5, UpsertedKeeps DEF Deliver, Kinds
  <2>6. CASE Acknowledge
    BY <1>1, <2>1, <2>2, <2>6, SavedKeeps DEF Acknowledge, Kinds
  <2>7. CASE \E m \in Nodes, k \in Kinds : Finish(m, k)
    BY <1>1, <2>1, <2>7, UpsertedKeeps DEF Finish
  <2>8. ASSUME NEW m \in Nodes, Purge(m)
        PROVE  Purges(n)
    <3>1. n = m
      BY <1>1, <2>1, <2>8 DEF Purge
    <3>2. PICK t \in Times : /\ hand["ack"][n] = {<<"checked", t>>}
                             /\ Goes(n, "ack", {<<"purged", t>>})
      BY <2>8, <3>1 DEF Purge
    <3>3. \A job : Goes(n, "ack", job) => hand'["ack"][n] = job
      BY <1>1 DEF Goes, IInv, JobsSound, Kinds
    <3> QED
      BY <3>2, <3>3 DEF Purges
  <2>9. CASE \E m \in Nodes : KeepAck(m)
    BY <1>1, <2>1, <2>9, SavedKeeps DEF KeepAck, Kinds
  <2>10. CASE \E m \in Nodes : Sweep(m)
    BY <1>1, <2>1, <2>10, SweptIsOutlived DEF Sweep
  <2> QED
    BY <1>1, <2>3, <2>4, <2>5, <2>6, <2>7, <2>8, <2>9, <2>10, StepsOnFiles
<1>2. IInv /\ [Next]_vars =>
        [ttl < Half => \A n \in Nodes : Early(n) => Outlived \/ Purges(n)]_vars
  BY <1>1
<1> QED
  BY <1>2, AlwaysSound, PTL DEF Spec, NeverEarly

----------------------------------------------------------------------------
(* What the storage layer makes of a file that has the ACK, or has lost it *)
(* by its age: it has no other DATA than before.                           *)
LEMMA LiveTakesNothing ==
  ASSUME NEW n \in Nodes
  PROVE  Live(n)["data"] \subseteq copies["data"][n]
BY DEF Live, Kinds

LEMMA SavedTakesNothing ==
  ASSUME IInv, NEW n \in acked, NEW k \in Kinds, NEW t, ttl < Half, ~Outlived
  PROVE  Saved(n, k, t)["data"] \subseteq copies["data"][n]
<1>1. n \in Nodes
  BY DEF IInv, ClockSound
<1>2. Live(n)["ack"] # {}
  BY <1>1, LiveSound DEF Sound
<1>3. k = "data" => Saved(n, k, t) = Live(n)
  BY <1>2 DEF Saved, Barred
<1>4. k = "ack" => Saved(n, k, t)["data"] = Live(n)["data"]
  BY DEF Saved, Live, Kinds
<1> QED
  BY <1>1, <1>3, <1>4, LiveTakesNothing DEF Kinds

LEMMA UpsertedTakesNothing ==
  ASSUME IInv, NEW n \in acked, NEW k \in Kinds, NEW t, ttl < Half, ~Outlived
  PROVE  Upserted(n, k, t)["data"] \subseteq copies["data"][n]
<1>1. n \in Nodes
  BY DEF IInv, ClockSound
<1>2. FileOf(n)["ack"] # {}
  BY <1>1, LiveSound DEF Sound
<1>3. CASE copies[k][n] = {}
  BY <1>3, SavedTakesNothing DEF Upserted
<1>4. CASE copies[k][n] # {} /\ k = "data"
  BY <1>2, <1>4 DEF Upserted, Barred, FileOf, Kinds
<1>5. CASE copies[k][n] # {} /\ k = "ack"
  BY <1>5 DEF Upserted, FileOf, Kinds, Barred
<1> QED
  BY <1>3, <1>4, <1>5 DEF Kinds

(* From the save of its ACK until its ttl is over no job brings DATA back  *)
(* to a file or rewrites it (save_bundle, update_bundle: the ACK bars it;  *)
(* new_ack: the ACK lives as long).                                        *)
THEOREM AckedNodesTakeNothing == Spec => AckedTakesNothing
<1> DEFINE Takes(n) == ~(copies'["data"][n] \subseteq copies["data"][n])
<1>1. ASSUME IInv, [Next]_vars, ttl < Half, NEW n \in acked, Takes(n), ~Outlived
      PROVE  FALSE
  <2>1. n \in Nodes
    BY <1>1 DEF IInv, ClockSound
  <2>2. \A m \in Nodes : \A file : Write(m, file) =>
          copies'["data"][n] = IF n = m THEN file["data"] ELSE copies["data"][n]
    BY <1>1, <2>1 DEF Write, IInv, FilesSound, Kinds
  <2>3. \A m \in Nodes : \A file : Write(m, file) => n = m /\ ~(file["data"] \subseteq copies["data"][n])
    BY <1>1, <2>2
  <2>4. Destination \in Nodes
    BY ExpiryAssumption DEF ExpiryAssumption
  <2>5. CASE UNCHANGED copies
    BY <1>1, <2>5
  <2>6. CASE \E m \in Nodes : Save(m)
    BY <1>1, <2>3, <2>6, SavedTakesNothing DEF Save, Kinds
  <2>7. CASE Deliver
    BY <1>1, <2>3, <2>4, <2>7, UpsertedTakesNothing DEF Deliver, Kinds
  <2>8. CASE Acknowledge
    BY <1>1, <2>3, <2>4, <2>8, SavedTakesNothing DEF Acknowledge, Kinds
  <2>9. CASE \E m \in Nodes, k \in Kinds : Finish(m, k)
    BY <1>1, <2>3, <2>9, UpsertedTakesNothing DEF Finish
  <2>10. CASE \E m \in Nodes : Purge(m)
    BY <1>1, <2>3, <2>10 DEF Purge, FileOf, Kinds
  <2>11. CASE \E m \in Nodes : KeepAck(m)
    BY <1>1, <2>3, <2>11, SavedTakesNothing DEF KeepAck, Kinds
  <2>12. CASE \E m \in Nodes : Sweep(m)
    BY <1>1, <2>1, <2>3, <2>12, LiveTakesNothing DEF Sweep
  <2> QED
    BY <1>1, <2>5, <2>6, <2>7, <2>8, <2>9, <2>10, <2>11, <2>12, StepsOnFiles
<1>2. IInv /\ [Next]_vars =>
        [ttl < Half => \A n \in acked :
           copies'["data"][n] \subseteq copies["data"][n] \/ Outlived]_vars
  BY <1>1
<1> QED
  BY <1>2, AlwaysSound, PTL DEF Spec, AckedTakesNothing

=============================================================================
