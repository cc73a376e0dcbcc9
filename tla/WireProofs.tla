------------------------------ MODULE WireProofs ------------------------------
(***************************************************************************)
(* What both ends of a connection agree on, for every number of calls,     *)
(* connections, bundles and events, whatever messages arrive in pieces and *)
(* whatever sizes the buffers have.                                        *)
(***************************************************************************)
EXTENDS Wire, FiniteSetTheorems, SequenceTheorems, TLAPS

Block == Messages \X (Nat \ {0})

LEMMA Streams == Stream = Seq(Block)
BY DEF Stream, Block

(* Taking blocks off a stream, and a read.                                 *)
LEMMA Cutting ==
  ASSUME NEW S, NEW s \in Seq(S), NEW n \in 0..Len(s)
  PROVE  /\ First(n, s) \in Seq(S) /\ After(n, s) \in Seq(S)
         /\ Len(First(n, s)) = n /\ Len(After(n, s)) = Len(s) - n
         /\ \A i \in 1..n : First(n, s)[i] = s[i]
         /\ \A i \in 1..(Len(s) - n) : After(n, s)[i] = s[n + i]
         /\ n = Len(s) => First(n, s) = s /\ After(n, s) = <<>>
         /\ n < Len(s) => After(n, s) # <<>>
<1>0. Len(s) \in Nat /\ \A i \in 1..Len(s) : s[i] \in S
  OBVIOUS
<1>1. /\ First(n, s) \in Seq(S) /\ Len(First(n, s)) = n
      /\ \A i \in 1..n : First(n, s)[i] = s[i]
  <2>1. \A i \in 1..n : s[i] \in S
    BY <1>0
  <2> QED
    BY <1>0, <2>1, SubSeqProperties DEF First
<1>2. /\ After(n, s) \in Seq(S) /\ Len(After(n, s)) = Len(s) - n
      /\ \A i \in 1..(Len(s) - n) : After(n, s)[i] = s[n + i]
  <2>1. \A i \in (n + 1)..Len(s) : s[i] \in S
    BY <1>0
  <2> QED
    BY <1>0, <2>1, SubSeqProperties DEF After
<1>3. n = Len(s) => First(n, s) = s /\ After(n, s) = <<>>
  BY <1>0, SubSeqFull, SubSeqEmpty DEF First, After
<1> QED
  BY <1>0, <1>1, <1>2, <1>3

LEMMA LengthAfter ==
  ASSUME NEW S, NEW s \in Seq(S), NEW n \in 0..Len(s)
  PROVE  Len(After(n, s)) = Len(s) - n
BY Cutting

(* Blocks that move from the head of one stream to the end of another.     *)
Moved(n, u, s, w, z) == w = u \o First(n, s) /\ z = After(n, s)

LEMMA Moving ==
  ASSUME NEW S, NEW u \in Seq(S), NEW s \in Seq(S), NEW n \in 1..Len(s),
         NEW w, NEW z, Moved(n, u, s, w, z)
  PROVE  /\ Len(u) \in Nat /\ Len(s) \in Nat
         /\ w \in Seq(S) /\ z \in Seq(S)
         /\ Len(w) = Len(u) + n /\ Len(z) = Len(s) - n
         /\ \A i \in 1..Len(w) : w[i] = IF i <= Len(u) THEN u[i] ELSE s[i - Len(u)]
         /\ \A i \in 1..Len(z) : z[i] = s[n + i]
         /\ z = <<>> <=> n = Len(s)
<1> DEFINE a == First(n, s)
<1>a. z = After(n, s) /\ w = u \o First(n, s)
  BY DEF Moved
<1>0. Len(u) \in Nat /\ Len(s) \in Nat /\ n \in Nat /\ n \in 0..Len(s) /\ n <= Len(s)
  OBVIOUS
<1>b. First(n, s) \in Seq(S) /\ After(n, s) \in Seq(S)
  BY <1>0, Cutting, Zenon
<1>c. Len(First(n, s)) = n
  BY <1>0, Cutting, Zenon
<1>d. Len(After(n, s)) = Len(s) - n
  BY <1>0, LengthAfter
<1>e. /\ \A i \in 1..n : First(n, s)[i] = s[i]
      /\ \A i \in 1..(Len(s) - n) : After(n, s)[i] = s[n + i]
  BY <1>0, Cutting, Zenon
<1>f. /\ n = Len(s) => After(n, s) = <<>>
      /\ n < Len(s) => After(n, s) # <<>>
  BY <1>0, Cutting, Zenon
<1>1. /\ a \in Seq(S) /\ z \in Seq(S) /\ Len(a) = n /\ Len(z) = Len(s) - n
      /\ \A i \in 1..n : a[i] = s[i]
      /\ \A i \in 1..(Len(s) - n) : z[i] = s[n + i]
  BY <1>a, <1>b, <1>c, <1>d, <1>e, Zenon
<1>2. n = Len(s) => z = <<>>
  BY <1>a, <1>f, Zenon
<1>3. n < Len(s) => z # <<>>
  BY <1>a, <1>f, Zenon
<1> HIDE DEF a
<1>4. /\ u \o a \in Seq(S) /\ Len(u \o a) = Len(u) + n
      /\ \A i \in 1..(Len(u) + n) : (u \o a)[i] = IF i <= Len(u) THEN u[i] ELSE a[i - Len(u)]
  BY <1>1, ConcatProperties
<1>5. w = u \o a
  BY <1>a DEF a
<1>6. /\ w \in Seq(S) /\ Len(w) = Len(u) + n
      /\ \A i \in 1..(Len(u) + n) : w[i] = IF i <= Len(u) THEN u[i] ELSE a[i - Len(u)]
  BY <1>4, <1>5, Zenon
<1>7. ASSUME NEW i \in 1..Len(w)
      PROVE  w[i] = IF i <= Len(u) THEN u[i] ELSE s[i - Len(u)]
  <2>1. ~(i <= Len(u)) => i - Len(u) \in 1..n
    BY <1>0, <1>6
  <2> QED
    BY <1>0, <1>1, <1>6, <2>1
<1>8. z = <<>> <=> n = Len(s)
  BY <1>0, <1>2, <1>3
<1> QED
  BY <1>0, <1>1, <1>6, <1>7, <1>8

(* s is the part of message q that follows its first j blocks.             *)
Run(q, j, s) == \A i \in 1..Len(s) : s[i] = <<q, j + i>>

LEMMA MovingInOrder ==
  ASSUME NEW S, NEW u \in Seq(S), NEW s \in Seq(S), NEW n \in 1..Len(s),
         NEW w, NEW z, Moved(n, u, s, w, z),
         NEW q, NEW j \in Nat,
         Run(q, j, u), Run(q, j + Len(u), s)
  PROVE  /\ j + Len(w) + Len(z) = j + Len(u) + Len(s)
         /\ Run(q, j, w) /\ Run(q, j + Len(w), z)
<1>1. n \in Nat
  OBVIOUS
<1>2. /\ Len(u) \in Nat /\ Len(s) \in Nat
      /\ Len(w) = Len(u) + n /\ Len(z) = Len(s) - n
  BY Moving
<1>3. \A i \in 1..Len(w) : w[i] = IF i <= Len(u) THEN u[i] ELSE s[i - Len(u)]
  BY Moving
<1>4. \A i \in 1..Len(z) : z[i] = s[n + i]
  BY Moving
<1>5. n <= Len(s)
  BY <1>2
<1>6. j + Len(w) + Len(z) = j + Len(u) + Len(s)
  BY <1>1, <1>2
<1>7. ASSUME NEW i \in 1..Len(w) PROVE w[i] = <<q, j + i>>
  <2>1. i \in Nat \ {0} /\ i <= Len(u) + n
    BY <1>1, <1>2
  <2>2. CASE i <= Len(u)
    <3>1. w[i] = u[i] /\ i \in 1..Len(u)
      BY <1>2, <1>3, <2>1, <2>2
    <3> QED
      BY <3>1 DEF Run
  <2>3. CASE ~(i <= Len(u))
    <3> DEFINE h == i - Len(u)
    <3>1. w[i] = s[h]
      BY <1>3, <2>3
    <3>2. h \in 1..Len(s) /\ j + Len(u) + h = j + i
      BY <1>1, <1>2, <1>5, <2>1, <2>3
    <3> HIDE DEF h
    <3> QED
      BY <3>1, <3>2 DEF Run
  <2> QED
    BY <2>2, <2>3
<1>8. ASSUME NEW i \in 1..Len(z) PROVE z[i] = <<q, j + Len(w) + i>>
  <2> DEFINE h == n + i
  <2>1. z[i] = s[h]
    BY <1>4
  <2>2. h \in 1..Len(s) /\ j + Len(u) + h = j + Len(w) + i
    BY <1>1, <1>2, <1>5
  <2> HIDE DEF h
  <2> QED
    BY <2>1, <2>2 DEF Run
<1> QED
  BY <1>6, <1>7, <1>8 DEF Run

LEMMA Reading ==
  ASSUME NEW S, NEW s \in Seq(S), s # <<>>, NEW size \in Nat \ {0}
  PROVE  LET read == OneRead(s, size) IN
           /\ Len(read) \in 1..Len(s) /\ read = First(Len(read), s)
           /\ read # <<>> /\ Head(read) = Head(s)
<1>1. Len(s) \in Nat \ {0}
  OBVIOUS
<1>2. CASE Len(s) < size
  BY <1>1, <1>2, Cutting DEF OneRead
<1>3. CASE ~(Len(s) < size)
  <2>1. size \in 0..Len(s)
    BY <1>1, <1>3
  <2> QED
    BY <1>1, <1>3, <2>1, Cutting DEF OneRead
<1> QED
  BY <1>2, <1>3

(* The blocks of a message.                                                *)
LEMMA Blocks ==
  ASSUME NEW m \in Messages
  PROVE  /\ Size(m) \in Nat \ {0}
         /\ Whole(m) \in Stream /\ Whole(m) # <<>> /\ Len(Whole(m)) = Size(m)
         /\ \A i \in 1..Size(m) : Whole(m)[i] = <<m, i>>
<1>1. IsFiniteSet(m.of)
  <2>1. IsFiniteSet(Bundles) /\ IsFiniteSet(Peers)
    <3>1. IsFiniteSet(Acks)
      <4> DEFINE f == [d \in Data |-> AckOf[d]]
      <4>1. f \in Surjection(Data, Acks)
        BY DEF Acks, Surjection
      <4> HIDE DEF f
      <4> QED
        BY <4>1, WireAssumption, FS_Surjection
    <3> QED
      BY <3>1, WireAssumption, FS_Union DEF Bundles, Peers
  <2>2. \A T : IsFiniteSet({T})
    BY FS_Singleton
  <2> QED
    BY <2>1, <2>2, FS_Subset, FS_EmptySet DEF Messages, Msg
<1>2. Cardinality(m.of) \in Nat
  BY <1>1, FS_CardinalityType
<1>3. Size(m) \in Nat \ {0}
  BY <1>2 DEF Size
<1>4. Whole(m) \in [1..Size(m) -> Messages \X (Nat \ {0})]
  BY <1>3 DEF Whole
<1> QED
  BY <1>3, <1>4 DEF Whole, Stream

LEMMA Contents ==
  ASSUME NEW m \in Messages
  PROVE  m.of \in (SUBSET Bundles) \cup (SUBSET Peers)
BY DEF Messages, Msg

(* The messages that a stream has blocks of.                               *)
Carried(s) == {s[i][1] : i \in 1..Len(s)}

LEMMA NothingCarried == Carried(<<>>) = {}
BY DEF Carried

LEMMA OneCarried ==
  ASSUME NEW m \in Messages
  PROVE  Carried(Whole(m)) = {m}
<1>1. Len(Whole(m)) \in Nat \ {0} /\ \A i \in 1..Len(Whole(m)) : Whole(m)[i][1] = m
  BY Blocks
<1> QED
  BY <1>1 DEF Carried

LEMMA MovedCarried ==
  ASSUME NEW S, NEW u \in Seq(S), NEW s \in Seq(S), NEW n \in 1..Len(s),
         NEW w, NEW z, Moved(n, u, s, w, z)
  PROVE  Carried(w) \subseteq Carried(u) \cup Carried(s) /\ Carried(z) \subseteq Carried(s)
<1>1. n \in Nat
  OBVIOUS
<1>2. /\ Len(u) \in Nat /\ Len(s) \in Nat
      /\ Len(w) = Len(u) + n /\ Len(z) = Len(s) - n
  BY Moving
<1>3. \A i \in 1..Len(w) : w[i] = IF i <= Len(u) THEN u[i] ELSE s[i - Len(u)]
  BY Moving
<1>4. \A i \in 1..Len(z) : z[i] = s[n + i]
  BY Moving
<1>5. n <= Len(s)
  BY <1>2
<1>6. ASSUME NEW i \in 1..Len(w) PROVE w[i][1] \in Carried(u) \cup Carried(s)
  <2>1. i <= Len(u) => i \in 1..Len(u)
    BY <1>2
  <2>2. ~(i <= Len(u)) => i - Len(u) \in 1..Len(s)
    BY <1>1, <1>2, <1>5
  <2> QED
    BY <1>3, <2>1, <2>2 DEF Carried
<1>7. ASSUME NEW i \in 1..Len(z) PROVE z[i][1] \in Carried(s)
  <2>1. n + i \in 1..Len(s)
    BY <1>1, <1>2, <1>5
  <2> QED
    BY <1>4, <2>1 DEF Carried
<1> QED
  BY <1>6, <1>7 DEF Carried

LEMMA Requests ==
  ASSUME NEW op \in Ops, NEW b \in Bundles \cup {None}, op = "send" => b # None
  PROVE  Request(op, b) \in Messages
<1>1. CASE op = "send"
  <2>1. Request(op, b) = Msg("bundle", {b}) /\ b \in Bundles
    BY <1>1 DEF Request
  <2> QED
    BY <2>1 DEF Messages
<1>2. CASE op # "send"
  <2>1. Request(op, b) \in {Msg(t, {}) : t \in {"request", "lookup", "register"}}
    BY <1>2 DEF Request, Ops
  <2> QED
    BY <2>1 DEF Messages
<1> QED
  BY <1>1, <1>2

----------------------------------------------------------------------------
(* The blocks of its request that a connection has not handed to the       *)
(* thread yet are a part of it up to its end, in order.                    *)
Asked(c) == Request(call[c].op, call[c].bundle)

InOrder(c) ==
  \E j \in 0..Size(Asked(c)) :
    /\ j + Len(up[c]) + Len(call[c].left) = Size(Asked(c))
    /\ Run(Asked(c), j, up[c]) /\ Run(Asked(c), j + Len(up[c]), call[c].left)

Used(c) == up[c] = <<>> /\ call[c].left = <<>>

(* What an answer says to the call it is for.                              *)
Fits(c, m) ==
  LET k == call[c] IN
    /\ k.op = "send" => thread[c].got = {k.bundle}
    /\ Asking(c) => m.of \in seen[c]
    /\ k.op = "lookup" /\ m.type = "peers" => m.of = thread[c].got /\ Used(c)

CallSound(c) ==
  LET k == call[c] IN
    /\ k.pc = "connect" => thread[c] = NoThread /\ k.result = {}
    /\ k.pc \in {"connect", "ended"} => down[c] = <<>>
    /\ k.pc # "ended" \/ link[c] = "open" => k.op \in Ops
    /\ k.pc = "held" => k.op = "register"
    /\ k.op = "send" <=> k.bundle # None
    /\ IF Asking(c) THEN stored \in seen[c] ELSE seen[c] = {}

StreamSound(c) ==
  /\ IF link[c] = "open" THEN InOrder(c) ELSE up[c] = <<>>
  /\ \A m \in Carried(down[c]) : Fits(c, m)
  /\ \A m \in Carried(thread[c].left) : Fits(c, m)

ResultSound(c) ==
  LET k == call[c]
      t == thread[c]
  IN
    /\ t.pc \in Busy => k.op = "send" /\ t.got = {k.bundle}
    /\ k.op = "send" /\ k.ok => t.got = {k.bundle}
    /\ k.op = "lookup" /\ k.result # {} => k.result = t.got /\ Used(c)

Typed(c) ==
  /\ call[c] \in Call /\ thread[c] \in Thread
  /\ up[c] \in Stream /\ down[c] \in Stream /\ link[c] \in {"open", "cut"}
  /\ call[c].pc = "write" <=> call[c].left # <<>>
  /\ seen[c] \in SUBSET SUBSET Bundles
  /\ thread[c].pc = "answer" <=> thread[c].left # <<>>
  /\ thread[c].pc = "put" <=> thread[c].puts # <<>>
  /\ thread[c].pc # "gone" => ServerOf(call[c].op) \in alive
  /\ thread[c].pc = "gone" => link[c] = "cut" /\ up[c] = <<>>

Sound(c) == Typed(c) /\ CallSound(c) /\ StreamSound(c) /\ ResultSound(c)

WireSound == TypeOK /\ \A c \in Conns : CallSound(c) /\ StreamSound(c) /\ ResultSound(c)

LEMMA SoundHere ==
  ASSUME WireSound, NEW c \in Conns
  PROVE  Sound(c)
BY DEF WireSound, TypeOK, Sound, Typed

----------------------------------------------------------------------------
(* What a step has to do with the history of a call that goes on, when the *)
(* file changes or not.                                                    *)
Keeps(d) ==
  /\ seen[d] \subseteq seen'[d] /\ seen'[d] \in SUBSET SUBSET Bundles
  /\ IF Asking(d) THEN stored' \in seen'[d] ELSE seen'[d] = {}

Recorded(c) ==
  /\ seen' = [d \in Conns |-> seen'[d]]
  /\ \A d \in Conns : d # c => Keeps(d)

LEMMA SameKeeps ==
  ASSUME WireSound, UNCHANGED <<stored, seen>>
  PROVE  seen' = [d \in Conns |-> seen'[d]] /\ \A d \in Conns : Keeps(d)
<1>1. TypeOK
  BY DEF WireSound
<1>2. \A d \in Conns : Keeps(d)
  BY SoundHere DEF Keeps, Sound, Typed, CallSound
<1> QED
  BY <1>1, <1>2 DEF TypeOK

LEMMA EndRecorded ==
  ASSUME WireSound, NEW c \in Conns, NEW files, seen' = [seen EXCEPT ![c] = files],
         UNCHANGED stored
  PROVE  Recorded(c) /\ seen'[c] = files
<1>1. TypeOK
  BY DEF WireSound
<1>2. seen'[c] = files /\ seen' = [d \in Conns |-> seen'[d]]
  BY <1>1 DEF TypeOK
<1>3. ASSUME NEW d \in Conns, d # c PROVE Keeps(d)
  <2>1. seen'[d] = seen[d]
    BY <1>1, <1>3 DEF TypeOK
  <2> QED
    BY <2>1, SoundHere DEF Keeps, Sound, Typed, CallSound
<1> QED
  BY <1>2, <1>3 DEF Recorded

LEMMA StoresKeeps ==
  ASSUME WireSound, NEW file \in SUBSET Bundles, Stores(file)
  PROVE  /\ seen' = [d \in Conns |-> seen'[d]] /\ stored' \subseteq Bundles
         /\ \A d \in Conns : Keeps(d)
<1>1. /\ stored' = file
      /\ seen' = [d \in Conns |-> IF Asking(d) THEN seen[d] \cup {file} ELSE seen[d]]
  BY DEF Stores
<1>2. ASSUME NEW d \in Conns PROVE Keeps(d)
  <2>1. seen[d] \in SUBSET SUBSET Bundles /\ (~Asking(d) => seen[d] = {})
    BY SoundHere DEF Sound, Typed, CallSound
  <2>2. seen'[d] = IF Asking(d) THEN seen[d] \cup {file} ELSE seen[d]
    BY <1>1
  <2> QED
    BY <1>1, <2>1, <2>2 DEF Keeps
<1> QED
  BY <1>1, <1>2

(* A step on one connection leaves the others alone.                       *)
Only(c) ==
  /\ call' = [call EXCEPT ![c] = call'[c]]
  /\ link' = [link EXCEPT ![c] = link'[c]]
  /\ up' = [up EXCEPT ![c] = up'[c]]
  /\ down' = [down EXCEPT ![c] = down'[c]]
  /\ thread' = [thread EXCEPT ![c] = thread'[c]]

LEMMA StaysSound ==
  ASSUME NEW d, Sound(d), Keeps(d),
         thread[d].pc # "gone" => ServerOf(call[d].op) \in alive',
         call'[d] = call[d], link'[d] = link[d], up'[d] = up[d],
         down'[d] = down[d], thread'[d] = thread[d]
  PROVE  Sound(d)'
<1>1. Typed(d)'
  BY DEF Sound, Typed, Keeps
<1>0. Asking(d)' = Asking(d)
  BY DEF Asking
<1>2. CallSound(d)'
  BY <1>0 DEF Sound, CallSound, Keeps
<1>3. Asked(d)' = Asked(d)
  BY DEF Asked
<1>4. InOrder(d) => InOrder(d)'
  BY <1>3 DEF InOrder
<1>5. \A m : Fits(d, m) => Fits(d, m)'
  BY <1>0 DEF Fits, Used, Keeps
<1>6. StreamSound(d)'
  BY <1>4, <1>5 DEF Sound, StreamSound
<1>7. ResultSound(d)'
  BY DEF Sound, ResultSound, Used
<1> QED
  BY <1>1, <1>2, <1>6, <1>7 DEF Sound

LEMMA AllSound ==
  ASSUME \A d \in Conns : Sound(d)', DOMAIN call' = Conns, DOMAIN thread' = Conns,
         DOMAIN link' = Conns, DOMAIN up' = Conns, DOMAIN down' = Conns,
         call' = [d \in Conns |-> call'[d]], thread' = [d \in Conns |-> thread'[d]],
         link' = [d \in Conns |-> link'[d]], up' = [d \in Conns |-> up'[d]],
         down' = [d \in Conns |-> down'[d]], seen' = [d \in Conns |-> seen'[d]],
         alive' \subseteq Servers, stored' \subseteq Bundles, listed' \subseteq Peers,
         events' \in 0..MaxEvents
  PROVE  WireSound'
<1>1. \A d \in Conns : Typed(d)' /\ CallSound(d)' /\ StreamSound(d)' /\ ResultSound(d)'
  BY DEF Sound
<1>2. /\ call' \in [Conns -> Call] /\ thread' \in [Conns -> Thread]
      /\ link' \in [Conns -> {"open", "cut"}]
      /\ up' \in [Conns -> Stream] /\ down' \in [Conns -> Stream]
      /\ seen' \in [Conns -> SUBSET SUBSET Bundles]
  BY <1>1 DEF Typed
<1>3. TypeOK'
  BY <1>1, <1>2 DEF TypeOK, Typed
<1> QED
  BY <1>1, <1>3 DEF WireSound

LEMMA OneMoves ==
  ASSUME WireSound, NEW c \in Conns, Only(c), Sound(c)', Recorded(c),
         alive \subseteq alive', stored' \subseteq Bundles, alive' \subseteq Servers,
         listed' \subseteq Peers, events' \in 0..MaxEvents
  PROVE  WireSound'
<1>0. TypeOK
  BY DEF WireSound
<1>1. ASSUME NEW d \in Conns PROVE Sound(d)'
  <2>1. CASE d = c
    BY <2>1
  <2>2. CASE d # c
    <3>1. /\ call'[d] = call[d] /\ link'[d] = link[d] /\ up'[d] = up[d]
          /\ down'[d] = down[d] /\ thread'[d] = thread[d]
      BY <1>0, <2>2 DEF Only, TypeOK
    <3>2. thread[d].pc # "gone" => ServerOf(call[d].op) \in alive'
      BY SoundHere DEF Sound, Typed
    <3>3. Keeps(d)
      BY <2>2 DEF Recorded
    <3> QED
      BY <3>1, <3>2, <3>3, SoundHere, StaysSound
  <2> QED
    BY <2>1, <2>2
<1>2. /\ DOMAIN call' = Conns /\ DOMAIN thread' = Conns
      /\ DOMAIN link' = Conns /\ DOMAIN up' = Conns /\ DOMAIN down' = Conns
      /\ call' = [d \in Conns |-> call'[d]] /\ thread' = [d \in Conns |-> thread'[d]]
      /\ link' = [d \in Conns |-> link'[d]] /\ up' = [d \in Conns |-> up'[d]]
      /\ down' = [d \in Conns |-> down'[d]] /\ seen' = [d \in Conns |-> seen'[d]]
  BY <1>0 DEF Only, TypeOK, Recorded
<1> QED
  BY <1>1, <1>2, AllSound

----------------------------------------------------------------------------
(* The client's steps.                                                     *)
LEMMA BeginSound ==
  ASSUME WireSound, NEW c \in Conns, NEW op \in Ops, NEW b \in Bundles \cup {None},
         Begin(c, op, b)
  PROVE  Only(c) /\ Sound(c)' /\ Recorded(c)
<1>0. TypeOK /\ Sound(c)
  BY SoundHere DEF WireSound
<1> DEFINE k == [NoCall EXCEPT !.op = op, !.bundle = b, !.pc = "connect"]
<1>1. Only(c) /\ call'[c] = k /\ thread'[c] = NoThread
  BY <1>0 DEF Begin, Only, TypeOK
<1>2. /\ k.op = op /\ k.bundle = b /\ k.pc = "connect" /\ k.left = <<>> /\ k.result = {}
      /\ ~k.ok /\ k.tries = 0
  BY DEF NoCall
<1>3. link'[c] = "cut" /\ up'[c] = <<>> /\ down'[c] = <<>> /\ UNCHANGED <<stored, alive>>
  BY <1>0 DEF Begin, Sound, Typed, CallSound
<1>4. <<>> \in Stream
  BY DEF Stream
<1>5. k \in Call
  <2>1. 0 \in 0..(MaxTries - 1)
    BY WireAssumption
  <2> QED
    BY <1>0, <1>4, <2>1 DEF NoCall, Call, TypeOK
<1>6. NoThread \in Thread
  BY <1>4 DEF NoThread, Thread
<1>10. Recorded(c) /\ seen'[c] = IF op = "vector" THEN {stored} ELSE {}
  BY EndRecorded DEF Begin
<1>11. stored \in SUBSET Bundles
  BY <1>0 DEF TypeOK
<1>7. Typed(c)'
  BY <1>1, <1>2, <1>3, <1>4, <1>5, <1>6, <1>10, <1>11 DEF Typed, NoThread
<1>8. CallSound(c)'
  <2>1. op = "send" <=> b # None
    BY DEF Begin
  <2>2. Asking(c)' <=> op = "vector"
    BY <1>1, <1>2 DEF Asking
  <2> QED
    BY <1>1, <1>2, <1>3, <1>10, <2>1, <2>2 DEF CallSound
<1>9. StreamSound(c)' /\ ResultSound(c)'
  BY <1>1, <1>2, <1>3, NothingCarried DEF StreamSound, ResultSound, NoThread, Busy
<1> QED
  BY <1>1, <1>7, <1>8, <1>9, <1>10 DEF Sound

(* The end of a call: what it must have made sure of.                      *)
LEMMA EndSound ==
  ASSUME WireSound, NEW c \in Conns, NEW ok \in BOOLEAN,
         NEW result \in (SUBSET Bundles) \cup (SUBSET Peers), Ended(c, ok, result),
         UNCHANGED <<link, up, thread, alive, stored>>,
         call[c].pc # "write" \/ link[c] = "cut",
         call[c].op = "send" /\ ok => thread[c].got = {call[c].bundle},
         call[c].op = "lookup" /\ result # {} => result = thread[c].got /\ Used(c)
  PROVE  Only(c) /\ Sound(c)'
<1>0. TypeOK /\ Sound(c)
  BY SoundHere DEF WireSound
<1> DEFINE k == call[c]
           j == [k EXCEPT !.pc = "ended", !.tries = 0, !.left = <<>>,
                          !.ok = ok, !.result = result]
<1>1. call' = [call EXCEPT ![c] = j] /\ down' = [down EXCEPT ![c] = <<>>]
  BY <1>0 DEF Ended, TypeOK
<1>15. seen'[c] = {}
  BY EndRecorded DEF Ended
<1>2. /\ Only(c) /\ call'[c] = j /\ down'[c] = <<>>
      /\ link'[c] = link[c] /\ up'[c] = up[c] /\ thread'[c] = thread[c]
  BY <1>0, <1>1 DEF Only, TypeOK
<1>3. k \in Call
  BY <1>0 DEF Sound, Typed
<1>4. /\ j.op = k.op /\ j.bundle = k.bundle /\ j.pc = "ended"
      /\ j.left = <<>> /\ j.ok = ok /\ j.result = result
  BY <1>3 DEF Call
<1>5. <<>> \in Stream /\ 0 \in 0..(MaxTries - 1)
  BY WireAssumption DEF Stream
<1>6. j \in Call
  BY <1>3, <1>5 DEF Call
<1>7. Typed(c)'
  BY <1>0, <1>2, <1>4, <1>5, <1>6, <1>15 DEF Sound, Typed
<1>16. ~Asking(c)'
  BY <1>2, <1>4 DEF Asking
<1>8. CallSound(c)'
  BY <1>0, <1>2, <1>4, <1>15, <1>16 DEF Sound, CallSound
<1>9. link[c] = "open" => k.left = <<>>
  BY <1>0 DEF Sound, Typed
<1>10. Used(c)' <=> up[c] = <<>>
  BY <1>2, <1>4 DEF Used
<1>11. link[c] = "open" => InOrder(c)'
  <2>1. Asked(c)' = Asked(c)
    BY <1>2, <1>4 DEF Asked
  <2> QED
    BY <1>0, <1>2, <1>4, <1>9, <2>1 DEF InOrder, Sound, StreamSound
<1>12. \A m : Fits(c, m) => Fits(c, m)'
  BY <1>2, <1>4, <1>10, <1>16 DEF Fits, Used
<1>13. StreamSound(c)'
  BY <1>0, <1>2, <1>11, <1>12, NothingCarried DEF Sound, StreamSound
<1>14. ResultSound(c)'
  BY <1>0, <1>2, <1>4, <1>10 DEF Sound, ResultSound, Used
<1> QED
  BY <1>2, <1>7, <1>8, <1>13, <1>14 DEF Sound

LEMMA ConnectSound ==
  ASSUME WireSound, NEW c \in Conns, Connect(c)
  PROVE  Only(c) /\ Sound(c)'
<1>0. TypeOK /\ Sound(c)
  BY SoundHere DEF WireSound
<1> DEFINE k == call[c]
           q == Request(k.op, k.bundle)
<1>1. /\ k \in Call /\ k.pc = "connect" /\ thread[c] = NoThread /\ k.result = {}
      /\ down[c] = <<>> /\ up[c] = <<>> /\ link[c] = "cut" /\ k.op \in Ops
      /\ k.op = "send" <=> k.bundle # None
      /\ UNCHANGED <<up, alive, stored>>
  BY <1>0 DEF Connect, Sound, Typed, CallSound, NoThread
<1>2. CASE /\ ServerOf(k.op) \in alive
           /\ call' = [call EXCEPT ![c].pc = "write", ![c].tries = 0, ![c].left = Whole(q)]
           /\ thread' = [thread EXCEPT ![c].pc = "idle"]
           /\ link' = [link EXCEPT ![c] = "open"]
           /\ UNCHANGED <<down, seen>>
  <2> DEFINE j == [k EXCEPT !.pc = "write", !.tries = 0, !.left = Whole(q)]
             t == [NoThread EXCEPT !.pc = "idle"]
  <2>1. /\ Only(c) /\ call'[c] = j /\ thread'[c] = t /\ link'[c] = "open"
        /\ down'[c] = <<>> /\ up'[c] = <<>>
    <3>1. call' = [call EXCEPT ![c] = j] /\ thread' = [thread EXCEPT ![c] = t]
      BY <1>0, <1>1, <1>2 DEF TypeOK
    <3> QED
      BY <1>0, <1>1, <1>2, <3>1 DEF TypeOK, Only
  <2>2. k.bundle \in Bundles \cup {None}
    BY <1>1 DEF Call
  <2>3. q \in Messages
    BY <1>1, <2>2, Requests
  <2>4. /\ Whole(q) \in Stream /\ Whole(q) # <<>> /\ Len(Whole(q)) = Size(q)
        /\ Size(q) \in Nat /\ \A i \in 1..Size(q) : Whole(q)[i] = <<q, i>>
    BY <2>3, Blocks
  <2>5. /\ j.op = k.op /\ j.bundle = k.bundle /\ j.pc = "write"
        /\ j.left = Whole(q) /\ j.ok = k.ok /\ j.result = {}
    BY <1>1 DEF Call
  <2>6. t.pc = "idle" /\ t.left = <<>> /\ t.got = {} /\ t.puts = <<>>
    BY DEF NoThread
  <2>7. <<>> \in Stream /\ 0 \in 0..(MaxTries - 1)
    BY WireAssumption DEF Stream
  <2>8. j \in Call /\ t \in Thread
    <3>1. j \in Call
      BY <1>1, <2>4, <2>7 DEF Call
    <3>2. <<>> \in Seq({"save", "upsert"} \X Bundles)
      OBVIOUS
    <3>3. t \in Thread
      BY <2>7, <3>2 DEF NoThread, Thread
    <3> QED
      BY <3>1, <3>3
  <2> HIDE DEF j, t, q
  <2>9. Typed(c)'
    <3>1. call'[c] \in Call /\ thread'[c] \in Thread /\ up'[c] \in Stream /\ down'[c] \in Stream
      BY <2>1, <2>7, <2>8
    <3>2. call'[c].pc = "write" /\ call'[c].left # <<>>
      BY <2>1, <2>4, <2>5
    <3>3. thread'[c].pc = "idle" /\ thread'[c].left = <<>> /\ thread'[c].puts = <<>>
      BY <2>1, <2>6
    <3>4. ServerOf(call'[c].op) \in alive'
      BY <1>1, <1>2, <2>1, <2>5
    <3>5. seen'[c] \in SUBSET SUBSET Bundles
      BY <1>0, <1>2 DEF Sound, Typed
    <3> QED
      BY <2>1, <3>1, <3>2, <3>3, <3>4, <3>5 DEF Typed
  <2>14. Asking(c)' = Asking(c)
    BY <1>1, <2>1, <2>5 DEF Asking
  <2>10. CallSound(c)'
    BY <1>0, <1>1, <1>2, <2>1, <2>5, <2>14 DEF Sound, CallSound
  <2>11. InOrder(c)'
    <3>1. Asked(c)' = q
      BY <2>1, <2>5 DEF Asked, q
    <3>2. 0 \in 0..Size(q) /\ 0 + 0 + Len(Whole(q)) = Size(q)
      BY <2>4
    <3> QED
      BY <2>1, <2>4, <2>5, <3>1, <3>2 DEF InOrder, Run
  <2>12. StreamSound(c)'
    BY <2>1, <2>6, <2>11, NothingCarried DEF StreamSound
  <2>13. ResultSound(c)'
    <3>1. k.op = "send" /\ k.ok => thread[c].got = {k.bundle}
      BY <1>0 DEF Sound, ResultSound
    <3>2. thread'[c].pc = "idle" /\ thread'[c].got = thread[c].got
      BY <1>1, <2>1, <2>6 DEF NoThread
    <3>3. /\ call'[c].op = k.op /\ call'[c].bundle = k.bundle
          /\ call'[c].ok = k.ok /\ call'[c].result = {}
      BY <2>1, <2>5
    <3> QED
      BY <1>1, <3>1, <3>2, <3>3 DEF ResultSound, Busy
  <2> QED
    BY <2>1, <2>9, <2>10, <2>12, <2>13 DEF Sound
<1>3. CASE /\ k.tries + 1 < MaxTries /\ call' = [call EXCEPT ![c].tries = @ + 1]
           /\ UNCHANGED <<down, thread, link, seen>>
  <2> DEFINE j == [k EXCEPT !.tries = @ + 1]
  <2>1. Only(c) /\ call'[c] = j
    BY <1>0, <1>1, <1>3 DEF TypeOK, Only
  <2>2. k.tries + 1 \in 0..(MaxTries - 1)
    BY <1>1, <1>3, WireAssumption DEF Call
  <2>3. j \in Call
    BY <1>1, <2>2 DEF Call
  <2>4. /\ j.op = k.op /\ j.bundle = k.bundle /\ j.pc = k.pc
        /\ j.left = k.left /\ j.ok = k.ok /\ j.result = {}
    BY <1>1 DEF Call
  <2> HIDE DEF j
  <2>9. Asking(c)' = Asking(c)
    BY <1>1, <2>1, <2>4 DEF Asking
  <2>5. Typed(c)' /\ CallSound(c)'
    BY <1>0, <1>1, <1>3, <2>1, <2>3, <2>4, <2>9 DEF Sound, Typed, CallSound
  <2>6. /\ thread'[c] = thread[c] /\ link'[c] = "cut" /\ up'[c] = <<>> /\ down'[c] = <<>>
        /\ thread[c].left = <<>>
    BY <1>1, <1>3 DEF NoThread
  <2>7. StreamSound(c)'
    BY <2>6, NothingCarried DEF StreamSound
  <2>8. ResultSound(c)'
    BY <1>0, <1>1, <2>1, <2>4, <2>6 DEF Sound, ResultSound
  <2> QED
    BY <2>1, <2>5, <2>7, <2>8 DEF Sound
<1>4. CASE Ended(c, FALSE, {}) /\ UNCHANGED <<thread, link>>
  BY <1>1, <1>4, EndSound
<1> QED
  BY <1>2, <1>3, <1>4 DEF Connect


LEMMA Piece ==
  ASSUME NEW s \in Stream, s # <<>>, NEW n \in Pieces(s)
  PROVE  n \in 1..Len(s)
BY DEF Pieces, Stream

LEMMA WriteSound ==
  ASSUME WireSound, NEW c \in Conns, Write(c)
  PROVE  Only(c) /\ Sound(c)'
<1>0. TypeOK /\ Sound(c)
  BY SoundHere DEF WireSound
<1> DEFINE k == call[c]
           s == k.left
           u == up[c]
<1>1. /\ k \in Call /\ k.pc = "write" /\ link[c] = "open" /\ s \in Stream /\ s # <<>>
      /\ u \in Stream /\ InOrder(c)
      /\ UNCHANGED <<link, down, thread, alive, stored, seen>>
  BY <1>0 DEF Write, Sound, Typed, StreamSound, Call
<1>2. PICK n \in Pieces(s) :
        /\ up' = [up EXCEPT ![c] = @ \o First(n, s)]
        /\ call' = [call EXCEPT ![c].left = After(n, @),
                                ![c].pc = IF n = Len(s) THEN "read" ELSE @]
  BY DEF Write
<1>3. n \in 1..Len(s) /\ n \in 0..Len(s)
  <2>1. n \in 1..Len(s)
    BY <1>1, Piece
  <2> QED
    BY <2>1
<1> DEFINE w == u \o First(n, s)
           z == After(n, s)
           pc == IF n = Len(s) THEN "read" ELSE "write"
           j == [k EXCEPT !.left = z, !.pc = pc]
<1>4. s \in Seq(Block) /\ u \in Seq(Block) /\ Moved(n, u, s, w, z)
  BY <1>1, Streams DEF Moved
<1> HIDE DEF z, w
<1>5. w \in Stream /\ z \in Stream
  BY <1>3, <1>4, Moving, Streams
<1>6. z = <<>> <=> n = Len(s)
  BY <1>3, <1>4, Moving
<1>7. Only(c) /\ call'[c] = j /\ up'[c] = w
  <2>1. call' = [call EXCEPT ![c] = j]
    BY <1>0, <1>1, <1>2 DEF TypeOK, z
  <2> QED
    BY <1>0, <1>1, <1>2, <2>1 DEF TypeOK, Only, w
<1>8. /\ j.op = k.op /\ j.bundle = k.bundle /\ j.pc = pc
      /\ j.left = z /\ j.ok = k.ok /\ j.result = k.result
  BY <1>1 DEF Call
<1>9. j \in Call
  BY <1>1, <1>5 DEF Call
<1> HIDE DEF j
<1>10. link'[c] = link[c] /\ down'[c] = down[c] /\ thread'[c] = thread[c]
  BY <1>1
<1>11. Typed(c)'
  <2>1. call'[c].pc = "write" <=> call'[c].left # <<>>
    BY <1>6, <1>7, <1>8
  <2> QED
    BY <1>0, <1>1, <1>5, <1>7, <1>8, <1>9, <1>10, <2>1 DEF Sound, Typed
<1>17. Asking(c)' = Asking(c)
  BY <1>1, <1>7, <1>8 DEF Asking
<1>12. CallSound(c)'
  BY <1>0, <1>1, <1>7, <1>8, <1>10, <1>17 DEF Sound, CallSound
<1>13. InOrder(c)'
  <2>1. Asked(c)' = Asked(c)
    BY <1>7, <1>8 DEF Asked
  <2>2. PICK i \in 0..Size(Asked(c)) :
          /\ i + Len(u) + Len(s) = Size(Asked(c))
          /\ Run(Asked(c), i, u) /\ Run(Asked(c), i + Len(u), s)
    BY <1>1 DEF InOrder
  <2>3. i \in Nat
    BY <2>2
  <2>4. /\ i + Len(w) + Len(z) = i + Len(u) + Len(s)
        /\ Run(Asked(c), i, w) /\ Run(Asked(c), i + Len(w), z)
    <3> HIDE DEF u, s
    <3>1. Run(Asked(c), i, u) /\ Run(Asked(c), i + Len(u), s)
      BY <2>2
    <3> QED
      BY <1>3, <1>4, <2>3, <3>1, MovingInOrder
  <2>5. up'[c] = w /\ call'[c].left = z
    BY <1>7, <1>8
  <2> QED
    BY <2>1, <2>2, <2>4, <2>5 DEF InOrder
<1>14. ~Used(c)
  BY <1>1 DEF Used
<1>15. StreamSound(c)'
  <2>1. \A m : Fits(c, m) => Fits(c, m)'
    BY <1>1, <1>7, <1>8, <1>10, <1>14, <1>17 DEF Fits
  <2> QED
    BY <1>0, <1>1, <1>10, <1>13, <2>1 DEF Sound, StreamSound
<1>16. ResultSound(c)'
  BY <1>0, <1>1, <1>7, <1>8, <1>10, <1>14 DEF Sound, ResultSound
<1> QED
  BY <1>7, <1>11, <1>12, <1>15, <1>16 DEF Sound

(* What a client takes from the blocks of an answer fits its call.         *)
LEMMA FirstFits ==
  ASSUME WireSound, NEW c \in Conns, down[c] # <<>>
  PROVE  /\ Head(down[c]) \in Block /\ Fits(c, Head(down[c])[1])
         /\ Head(down[c])[1].of \in (SUBSET Bundles) \cup (SUBSET Peers)
<1>1. Sound(c) /\ down[c] \in Seq(Block)
  BY SoundHere DEF Sound, Typed, Stream, Block
<1>2. Head(down[c]) = down[c][1] /\ 1 \in 1..Len(down[c]) /\ down[c][1] \in Block
  BY <1>1
<1> QED
  BY <1>1, <1>2, Contents DEF Carried, Sound, StreamSound, Block

LEMMA ReadSound ==
  ASSUME WireSound, NEW c \in Conns, ReadExact(c) \/ ReadOnce(c)
  PROVE  Only(c) /\ Sound(c)'
<1>0. UNCHANGED <<link, up, thread, alive, stored>> /\ call[c].pc = "read"
  BY DEF ReadExact, ReadOnce
<1>1. down[c] # <<>>
  BY DEF ReadExact, ReadOnce, Complete
<1> DEFINE m == Head(down[c])[1]
<1>2. Fits(c, m) /\ m.of \in (SUBSET Bundles) \cup (SUBSET Peers)
  BY <1>1, FirstFits
<1>3. CASE ReadExact(c)
  BY <1>0, <1>2, <1>3, EndSound DEF ReadExact, Fits
<1>4. CASE ReadOnce(c)
  <2>1. call[c].op = "lookup"
    BY <1>4 DEF ReadOnce
  <2>2. Head(OneRead(down[c], Room)) = Head(down[c])
    BY <1>1, SoundHere, Reading, WireAssumption DEF Sound, Typed, Stream
  <2>3. \/ m.type = "peers" /\ Ended(c, TRUE, m.of)
        \/ Ended(c, FALSE, {})
    BY <1>4, <2>2 DEF ReadOnce
  <2> QED
    BY <1>0, <1>2, <2>1, <2>3, EndSound DEF Fits
<1> QED
  BY <1>3, <1>4

LEMMA GiveUpSound ==
  ASSUME WireSound, NEW c \in Conns, Timeout(c) \/ Fail(c) \/ Release(c)
  PROVE  Only(c) /\ Sound(c)'
<1>0. UNCHANGED <<link, up, thread, alive, stored>>
  BY DEF Timeout, Fail, Release
<1>1. CASE Timeout(c) \/ Fail(c)
  BY <1>0, <1>1, EndSound DEF Timeout, Fail
<1>2. CASE Release(c)
  <2>1. call[c].pc = "held" /\ call[c].op = "register"
    BY <1>2, SoundHere DEF Sound, CallSound, Release
  <2> QED
    BY <1>0, <1>2, <2>1, EndSound DEF Release
<1> QED
  BY <1>1, <1>2

LEMMA HoldSound ==
  ASSUME WireSound, NEW c \in Conns, Hold(c)
  PROVE  Only(c) /\ Sound(c)'
<1>0. TypeOK /\ Sound(c)
  BY SoundHere DEF WireSound
<1> DEFINE k == call[c]
           j == [k EXCEPT !.pc = "held", !.ok = TRUE]
<1>1. /\ k \in Call /\ k.pc = "read" /\ k.op = "register"
      /\ UNCHANGED <<link, up, down, thread, alive, stored, seen>>
  BY <1>0 DEF Hold, Sound, Typed
<1>2. Only(c) /\ call'[c] = j
  <2>1. call' = [call EXCEPT ![c] = j]
    BY <1>0 DEF Hold, TypeOK
  <2> QED
    BY <1>0, <1>1, <2>1 DEF TypeOK, Only
<1>3. /\ j \in Call /\ j.op = k.op /\ j.bundle = k.bundle /\ j.pc = "held"
      /\ j.left = k.left /\ j.ok = TRUE /\ j.result = k.result
  BY <1>1 DEF Call
<1> HIDE DEF j
<1>9. ~Asking(c) /\ ~Asking(c)'
  BY <1>1, <1>2, <1>3 DEF Asking
<1>4. Typed(c)' /\ CallSound(c)'
  BY <1>0, <1>1, <1>2, <1>3, <1>9 DEF Sound, Typed, CallSound
<1>5. Asked(c)' = Asked(c)
  BY <1>2, <1>3 DEF Asked
<1>6. InOrder(c) => InOrder(c)'
  BY <1>1, <1>2, <1>3, <1>5 DEF InOrder
<1>7. \A m : Fits(c, m)'
  BY <1>1, <1>2, <1>3, <1>9 DEF Fits
<1>8. StreamSound(c)' /\ ResultSound(c)'
  BY <1>0, <1>1, <1>2, <1>3, <1>6, <1>7 DEF Sound, StreamSound, ResultSound
<1> QED
  BY <1>2, <1>4, <1>8 DEF Sound


----------------------------------------------------------------------------
(* The steps of a server thread.  A read takes blocks off its stream.      *)
LEMMA TakingInOrder ==
  ASSUME WireSound, NEW c \in Conns, UNCHANGED call, InOrder(c),
         NEW n \in 0..Len(up[c]), up'[c] = After(n, up[c])
  PROVE  InOrder(c)'
<1> DEFINE u == up[c]
           w == up'[c]
           s == call[c].left
           q == Asked(c)
<1>1. u \in Seq(Block) /\ s \in Seq(Block)
  <2>1. call[c] \in Call /\ u \in Stream
    BY SoundHere DEF Sound, Typed
  <2> QED
    BY <2>1, Streams DEF Call
<1>2. /\ n \in Nat /\ Len(u) \in Nat /\ Len(s) \in Nat /\ n <= Len(u)
      /\ Len(w) = Len(u) - n /\ \A i \in 1..(Len(u) - n) : w[i] = u[n + i]
  <2>1. w = After(n, u) /\ n \in 0..Len(u) /\ Len(u) \in Nat /\ Len(s) \in Nat
    BY <1>1
  <2> HIDE DEF u, w, s
  <2>2. Len(After(n, u)) = Len(u) - n
    BY <1>1, <2>1, LengthAfter
  <2>3. \A i \in 1..(Len(u) - n) : After(n, u)[i] = u[n + i]
    BY <1>1, <2>1, Cutting, Zenon
  <2> QED
    BY <2>1, <2>2, <2>3
<1>3. PICK j \in 0..Size(q) :
        j + Len(u) + Len(s) = Size(q) /\ Run(q, j, u) /\ Run(q, j + Len(u), s)
  BY DEF InOrder
<1>4. j \in Nat
  BY <1>3
<1> HIDE DEF u, w, s, q
<1>5. ASSUME NEW i \in 1..Len(w) PROVE w[i] = <<q, (j + n) + i>>
  <2> DEFINE h == n + i
  <2>1. h \in 1..Len(u) /\ w[i] = u[h] /\ j + h = (j + n) + i
    BY <1>2, <1>4
  <2> HIDE DEF h
  <2> QED
    BY <1>3, <2>1 DEF Run
<1>6. Run(q, j + n, w)
  BY <1>5 DEF Run
<1>7. j + n + Len(w) = j + Len(u)
  BY <1>2, <1>4
<1>8. Size(q) \in Nat /\ j + n \in 0..Size(q) /\ j + n + Len(w) + Len(s) = Size(q)
  BY <1>2, <1>3, <1>4
<1>9. Run(q, j + n + Len(w), s)
  BY <1>3, <1>7
<1>10. Asked(c)' = q /\ call'[c].left = s /\ up'[c] = w
  BY DEF Asked, q, s, w
<1> QED
  BY <1>6, <1>8, <1>9, <1>10 DEF InOrder

(* The first block on the way to a thread belongs to the request.          *)
LEMMA FirstAsked ==
  ASSUME WireSound, NEW c \in Conns, up[c] # <<>>
  PROVE  /\ link[c] = "open" /\ InOrder(c) /\ up[c] \in Seq(Block)
         /\ Len(up[c]) \in Nat \ {0} /\ call[c].op \in Ops
         /\ Head(up[c]) = up[c][1] /\ Head(up[c])[1] = Asked(c) /\ Asked(c) \in Messages
<1>1. /\ link[c] = "open" /\ InOrder(c) /\ up[c] \in Seq(Block) /\ call[c].op \in Ops
  BY SoundHere, Streams DEF Sound, StreamSound, Typed, CallSound
<1>2. Len(up[c]) \in Nat \ {0} /\ Head(up[c]) = up[c][1] /\ up[c][1] \in Block
  BY <1>1
<1>3. up[c][1][1] = Asked(c)
  <2>1. PICK j \in 0..Size(Asked(c)) : Run(Asked(c), j, up[c])
    BY <1>1 DEF InOrder
  <2>2. up[c][1] = <<Asked(c), j + 1>>
    BY <1>2, <2>1 DEF Run
  <2> QED
    BY <2>2
<1> QED
  BY <1>1, <1>2, <1>3 DEF Block

(* What a step of a thread has to show for its connection.                 *)
LEMMA ThreadSound ==
  ASSUME WireSound, NEW c \in Conns, NEW u \in Stream, NEW w \in Stream, NEW t \in Thread,
         up' = [up EXCEPT ![c] = u], down' = [down EXCEPT ![c] = w],
         thread' = [thread EXCEPT ![c] = t],
         UNCHANGED <<call, link, alive>>, Keeps(c),
         thread[c].pc # "gone", t.pc # "gone", t.pc = "answer" <=> t.left # <<>>,
         t.pc = "put" <=> t.puts # <<>>,
         call[c].pc = "ended" => w = <<>>,
         u # up[c] => link[c] = "open" /\ InOrder(c)',
         \A m \in Carried(w) : Fits(c, m)', \A m \in Carried(t.left) : Fits(c, m)',
         ResultSound(c)'
  PROVE  Only(c) /\ Sound(c)'
<1>0. TypeOK /\ Sound(c)
  BY SoundHere DEF WireSound
<1>1. Only(c) /\ up'[c] = u /\ down'[c] = w /\ thread'[c] = t
  BY <1>0 DEF TypeOK, Only
<1>2. link'[c] = link[c] /\ call'[c] = call[c]
  OBVIOUS
<1>3. call[c].pc # "connect"
  BY <1>0 DEF Sound, CallSound, NoThread
<1>4. Typed(c)'
  BY <1>0, <1>1, <1>2 DEF Sound, Typed, Keeps
<1>9. Asking(c)' = Asking(c)
  BY DEF Asking
<1>5. CallSound(c)'
  BY <1>0, <1>1, <1>2, <1>3, <1>9 DEF Sound, CallSound, Keeps
<1>6. InOrder(c) /\ u = up[c] => InOrder(c)'
  <2>1. Asked(c)' = Asked(c)
    BY DEF Asked
  <2> QED
    BY <1>1, <1>2, <2>1 DEF InOrder
<1>7. IF link'[c] = "open" THEN InOrder(c)' ELSE up'[c] = <<>>
  BY <1>0, <1>1, <1>2, <1>6 DEF Sound, StreamSound
<1>8. StreamSound(c)'
  BY <1>1, <1>7 DEF StreamSound
<1> QED
  BY <1>1, <1>4, <1>5, <1>8 DEF Sound


(* Answers on their way keep fitting when the thread's part does.          *)
LEMMA KeptFits ==
  ASSUME WireSound, NEW c \in Conns, UNCHANGED call, Keeps(c), NEW m, Fits(c, m),
         call[c].op = "send" => thread'[c].got = {call[c].bundle},
         call[c].op = "lookup" => thread'[c].got = thread[c].got /\ up'[c] = up[c]
  PROVE  Fits(c, m)'
<1>1. Asking(c)' = Asking(c)
  BY DEF Asking
<1> QED
  BY <1>1 DEF Fits, Used, Keeps

LEMMA AnswerFits ==
  ASSUME WireSound, NEW c \in Conns
  PROVE  /\ \A m \in Carried(down[c]) : Fits(c, m)
         /\ \A m \in Carried(thread[c].left) : Fits(c, m)
BY SoundHere DEF Sound, StreamSound

LEMMA NewThread ==
  ASSUME NEW p, NEW g
  PROVE  [NoThread EXCEPT !.pc = p, !.got = g]
           = [pc |-> p, left |-> <<>>, got |-> g, puts |-> <<>>]
<1> DEFINE k == [NoThread EXCEPT !.pc = p]
<1>1. k = [pc |-> p, left |-> <<>>, got |-> {}, puts |-> <<>>]
  BY DEF NoThread
<1>2. [NoThread EXCEPT !.pc = p, !.got = g] = [k EXCEPT !.got = g]
  OBVIOUS
<1> HIDE DEF k
<1> QED
  BY <1>1, <1>2

LEMMA NewAnswer ==
  ASSUME NEW p, NEW l, NEW g
  PROVE  [NoThread EXCEPT !.pc = p, !.left = l, !.got = g]
           = [pc |-> p, left |-> l, got |-> g, puts |-> <<>>]
<1> DEFINE k == [NoThread EXCEPT !.pc = p]
           j == [NoThread EXCEPT !.pc = p, !.left = l]
<1>1. k = [pc |-> p, left |-> <<>>, got |-> {}, puts |-> <<>>]
  BY DEF NoThread
<1>2. j = [k EXCEPT !.left = l]
  OBVIOUS
<1>3. [NoThread EXCEPT !.pc = p, !.left = l, !.got = g] = [j EXCEPT !.got = g]
  OBVIOUS
<1> HIDE DEF k, j
<1>4. j = [pc |-> p, left |-> l, got |-> {}, puts |-> <<>>]
  BY <1>1, <1>2
<1> QED
  BY <1>3, <1>4

LEMMA ReceiveSound ==
  ASSUME WireSound, NEW c \in Conns, Receive(c)
  PROVE  Only(c) /\ Sound(c)'
<1>0. TypeOK /\ Sound(c)
  BY SoundHere DEF WireSound
<1> DEFINE b == {call[c].bundle}
           q == Asked(c)
           u == After(Size(Head(up[c])[1]), up[c])
           t == [pc |-> "ack", left |-> <<>>, got |-> Head(up[c])[1].of, puts |-> <<>>]
<1>1. /\ thread[c].pc = "idle" /\ call[c].op \in {"send", "vector"} /\ up[c] # <<>>
      /\ Head(up[c])[2] = 1 /\ Len(up[c]) >= Size(Head(up[c])[1])
      /\ Head(up[c]) # <<Msg("request", {}), 1>>
      /\ UNCHANGED <<call, link, down, alive, stored, seen>>
  <2>1. ServerOf(call[c].op) = "peer" /\ call[c].op \in Ops
    BY FirstAsked DEF Receive, Idle, Complete
  <2> QED
    BY <2>1 DEF Receive, Idle, Complete, IsJson, ServerOf, Ops
<1>2. /\ up[c] \in Seq(Block) /\ InOrder(c) /\ link[c] = "open"
      /\ Head(up[c])[1] = q /\ q \in Messages /\ Head(up[c]) \in Block
      /\ Len(up[c]) \in Nat \ {0}
  BY <1>1, FirstAsked
<1>3. Head(up[c]) = <<q, 1>>
  BY <1>1, <1>2 DEF Block
<1>4. call[c].op = "send"
  <2>1. q # Msg("request", {})
    BY <1>1, <1>3
  <2> QED
    BY <1>1, <2>1 DEF Asked, Request
<1>5. q.of = b
  BY <1>4 DEF Asked, Request, Msg
<1>6. Size(q) \in 0..Len(up[c])
  BY <1>1, <1>2, Blocks
<1>7. u \in Stream
  BY <1>2, <1>6, Cutting, Streams
<1>8. t \in Thread /\ t.pc = "ack" /\ t.left = <<>> /\ t.got = b /\ t.puts = <<>>
  <2>1. b \in (SUBSET Bundles) \cup (SUBSET Peers)
    BY <1>2, <1>5, Contents
  <2>2. <<>> \in Stream /\ <<>> \in Seq({"save", "upsert"} \X Bundles)
    BY DEF Stream
  <2> QED
    BY <1>2, <1>5, <2>1, <2>2 DEF Thread, Busy
<1>9. up' = [up EXCEPT ![c] = u] /\ down' = [down EXCEPT ![c] = down[c]]
      /\ thread' = [thread EXCEPT ![c] = t]
  <2>1. [NoThread EXCEPT !.pc = "ack", !.got = Head(up[c])[1].of] = t
    BY NewThread
  <2> HIDE DEF t
  <2> QED
    BY <1>0, <2>1 DEF Receive, TypeOK
<1>16. Keeps(c)
  BY <1>1, SameKeeps
<1>10. up'[c] = u /\ thread'[c] = t
  BY <1>0, <1>9 DEF TypeOK
<1>11. InOrder(c)'
  BY <1>1, <1>2, <1>6, <1>10, TakingInOrder
<1> HIDE DEF t, u, b
<1>12. \A x \in Carried(down[c]) : Fits(c, x)'
  <2>1. ASSUME NEW x, Fits(c, x) PROVE Fits(c, x)'
    BY <1>1, <1>4, <1>8, <1>10, <1>16, <2>1, KeptFits DEF b
  <2> QED
    BY <2>1, AnswerFits
<1>13. ResultSound(c)'
  BY <1>1, <1>4, <1>8, <1>10 DEF ResultSound, b
<1>14. call[c].pc = "ended" => down[c] = <<>>
  BY <1>0 DEF Sound, CallSound
<1>15. down[c] \in Stream
  BY <1>0 DEF Sound, Typed
<1> QED
  BY <1>1, <1>2, <1>7, <1>8, <1>9, <1>11, <1>12, <1>13, <1>14, <1>15, <1>16, NothingCarried, ThreadSound

LEMMA RespondSound ==
  ASSUME WireSound, NEW c \in Conns, Respond(c)
  PROVE  Only(c) /\ Sound(c)'
<1>0. TypeOK /\ Sound(c)
  BY SoundHere DEF WireSound
<1> DEFINE read == OneRead(up[c], Buffer)
           u == After(Len(read), up[c])
           m == Msg("vector", stored)
           t == [pc |-> "answer", left |-> Whole(m), got |-> stored, puts |-> <<>>]
<1>1. /\ thread[c].pc = "idle" /\ up[c] # <<>> /\ Head(up[c]) = <<Msg("request", {}), 1>>
      /\ UNCHANGED <<call, link, down, alive, stored, seen>>
  BY DEF Respond, Idle, IsJson
<1>16. Keeps(c)
  BY <1>1, SameKeeps
<1>2. /\ up[c] \in Seq(Block) /\ InOrder(c) /\ link[c] = "open"
      /\ Head(up[c])[1] = Asked(c) /\ call[c].op \in Ops /\ Len(up[c]) \in Nat \ {0}
  BY <1>1, FirstAsked
<1>3. call[c].op = "vector"
  <2>1. Asked(c) = Msg("request", {})
    BY <1>1, <1>2
  <2>2. Asked(c).type = "request"
    BY <2>1 DEF Msg
  <2> QED
    BY <1>2, <2>2 DEF Asked, Request, Msg, Ops
<1>4. Len(read) \in 0..Len(up[c])
  <2>1. Len(read) \in 1..Len(up[c])
    BY <1>1, <1>2, Reading, WireAssumption
  <2> QED
    BY <2>1
<1>5. u \in Stream
  BY <1>2, <1>4, Cutting, Streams
<1>6. up' = [up EXCEPT ![c] = u] /\ down' = [down EXCEPT ![c] = down[c]]
      /\ \/ thread' = [thread EXCEPT ![c] = t]
         \/ thread' = [thread EXCEPT ![c] = thread[c]]
  <2>1. [NoThread EXCEPT !.pc = "answer", !.left = Whole(m), !.got = stored] = t
    BY NewAnswer
  <2>2. thread' = [thread EXCEPT ![c] = t] \/ UNCHANGED thread
    BY <2>1 DEF Respond, Answering
  <2> HIDE DEF t, u
  <2>3. up' = [up EXCEPT ![c] = u]
    BY DEF Respond, u
  <2>4. /\ down' = [down EXCEPT ![c] = down[c]]
        /\ UNCHANGED thread => thread' = [thread EXCEPT ![c] = thread[c]]
    BY <1>0, <1>1 DEF TypeOK
  <2> QED
    BY <2>2, <2>3, <2>4
<1>7. up'[c] = u /\ InOrder(c)'
  <2>1. up'[c] = u
    BY <1>0, <1>6 DEF TypeOK
  <2> QED
    BY <1>1, <1>2, <1>4, <2>1, TakingInOrder
<1>8. /\ m \in Messages /\ m.of = stored /\ stored \in SUBSET Bundles
  BY <1>0 DEF TypeOK, Messages, Msg
<1>9. /\ t \in Thread /\ t.pc = "answer" /\ t.left = Whole(m) /\ Whole(m) # <<>>
      /\ Carried(Whole(m)) = {m} /\ t.puts = <<>>
  <2>1. <<>> \in Seq({"save", "upsert"} \X Bundles)
    OBVIOUS
  <2> QED
    BY <1>8, <2>1, Blocks, OneCarried DEF Thread
<1> HIDE DEF t, u, m
<1>10. \A x \in Carried(down[c]) : Fits(c, x)'
  <2>1. ASSUME NEW x, Fits(c, x) PROVE Fits(c, x)'
    BY <1>1, <1>3, <1>16, <2>1, KeptFits
  <2> QED
    BY <2>1, AnswerFits
<1>11. ASSUME NEW x, x = m PROVE Fits(c, x)'
  <2>1. Asking(c)' => stored \in seen'[c]
    BY <1>0, <1>1 DEF Sound, CallSound, Asking
  <2> QED
    BY <1>1, <1>3, <1>8, <1>11, <2>1 DEF Fits
<1>12. /\ call[c].pc = "ended" => down[c] = <<>>
       /\ down[c] \in Stream
  BY <1>0 DEF Sound, CallSound, Typed
<1>13. ASSUME NEW r \in Thread, thread' = [thread EXCEPT ![c] = r],
              r.pc \in {"answer", "idle"}
       PROVE  ResultSound(c)'
  <2>1. thread'[c] = r
    BY <1>0, <1>13 DEF TypeOK
  <2> QED
    BY <1>0, <1>1, <1>3, <1>13, <2>1 DEF Sound, ResultSound, Busy
<1>14. CASE thread' = [thread EXCEPT ![c] = t]
  <2>1. ResultSound(c)'
    BY <1>9, <1>13, <1>14
  <2>2. \A x \in Carried(t.left) : Fits(c, x)'
    BY <1>9, <1>11
  <2> QED
    BY <1>1, <1>2, <1>5, <1>6, <1>7, <1>9, <1>10, <1>12, <1>14, <1>16, <2>1, <2>2, ThreadSound
<1>15. CASE thread' = [thread EXCEPT ![c] = thread[c]]
  <2>1. thread[c] \in Thread /\ thread[c].left = <<>> /\ thread[c].puts = <<>>
    BY <1>0, <1>1 DEF Sound, Typed
  <2>2. ResultSound(c)'
    BY <1>1, <1>13, <1>15, <2>1
  <2> QED
    BY <1>1, <1>2, <1>5, <1>6, <1>7, <1>10, <1>12, <1>15, <1>16, <2>1, <2>2, NothingCarried, ThreadSound
<1> QED
  BY <1>6, <1>14, <1>15


(* Writing to a client: the whole or a first part of some blocks.          *)
Sent(c, n, s, w) == w = IF Heard(c) THEN down[c] \o First(n, s) ELSE down[c]

LEMMA Sending ==
  ASSUME WireSound, NEW c \in Conns, NEW s \in Stream, NEW n \in 1..Len(s),
         NEW w, Sent(c, n, s, w)
  PROVE  /\ w \in Stream /\ After(n, s) \in Stream
         /\ After(n, s) = <<>> <=> n = Len(s)
         /\ Carried(w) \subseteq Carried(down[c]) \cup Carried(s)
         /\ Carried(After(n, s)) \subseteq Carried(s)
         /\ call[c].pc = "ended" => w = <<>>
<1> DEFINE x == down[c] \o First(n, s)
           z == After(n, s)
           u == down[c]
<1>1. u \in Seq(Block) /\ s \in Seq(Block) /\ Moved(n, u, s, x, z)
  BY SoundHere, Streams DEF Sound, Typed, Moved
<1>2. call[c].pc = "ended" => u = <<>> /\ ~Heard(c)
  BY SoundHere DEF Sound, CallSound, Heard
<1> HIDE DEF x, z, u
<1>3. x \in Seq(Block) /\ z \in Seq(Block) /\ (z = <<>> <=> n = Len(s))
  BY <1>1, Moving
<1>4. Carried(x) \subseteq Carried(u) \cup Carried(s) /\ Carried(z) \subseteq Carried(s)
  BY <1>1, MovedCarried
<1>5. w = IF Heard(c) THEN x ELSE u
  BY DEF x, u, Sent
<1> QED
  BY <1>1, <1>2, <1>3, <1>4, <1>5, Streams DEF z, u

LEMMA AcknowledgeSound ==
  ASSUME WireSound, NEW c \in Conns, Acknowledge(c)
  PROVE  Only(c) /\ Sound(c)'
<1>0. TypeOK /\ Sound(c)
  BY SoundHere DEF WireSound
<1> DEFINE m == Msg("ack", {})
           w == IF Heard(c) THEN down[c] \o Whole(m) ELSE down[c]
           t == [thread[c] EXCEPT !.pc = "handle"]
<1>1. /\ thread[c] \in Thread /\ thread[c].pc = "ack" /\ thread[c].left = <<>>
      /\ call[c].op = "send" /\ thread[c].got = {call[c].bundle}
      /\ thread[c].puts = <<>> /\ UNCHANGED <<call, link, up, alive, stored, seen>>
  BY <1>0 DEF Acknowledge, Sound, Typed, ResultSound, Busy
<1>11. Keeps(c)
  BY <1>1, SameKeeps
<1>2. m \in Messages
  BY DEF Messages
<1>3. /\ Whole(m) \in Stream /\ Carried(Whole(m)) = {m} /\ Len(Whole(m)) \in Nat \ {0}
  BY <1>2, Blocks, OneCarried
<1>4. Len(Whole(m)) \in 1..Len(Whole(m)) /\ First(Len(Whole(m)), Whole(m)) = Whole(m)
  <2>1. Whole(m) \in Seq(Block) /\ Len(Whole(m)) \in 0..Len(Whole(m))
    BY <1>3, Streams
  <2> QED
    BY <1>3, <2>1, Cutting
<1>5. /\ w \in Stream /\ Carried(w) \subseteq Carried(down[c]) \cup {m}
      /\ call[c].pc = "ended" => w = <<>>
  <2>1. Sent(c, Len(Whole(m)), Whole(m), w)
    BY <1>4 DEF Sent
  <2> HIDE DEF w
  <2> QED
    BY <1>3, <1>4, <2>1, Sending
<1>6. /\ t \in Thread /\ t.pc = "handle" /\ t.left = <<>> /\ t.got = thread[c].got
      /\ t.puts = <<>>
  BY <1>1 DEF Thread, Busy
<1>7. /\ up' = [up EXCEPT ![c] = up[c]] /\ down' = [down EXCEPT ![c] = w]
      /\ thread' = [thread EXCEPT ![c] = t] /\ thread'[c] = t
  BY <1>0, <1>1 DEF Acknowledge, TypeOK
<1> HIDE DEF w, t, m
<1>8. ASSUME NEW x PROVE Fits(c, x)'
  BY <1>1, <1>6, <1>7 DEF Fits, Asking
<1>9. ResultSound(c)'
  BY <1>1, <1>6, <1>7 DEF ResultSound
<1>10. up[c] \in Stream
  BY <1>0 DEF Sound, Typed
<1> QED
  BY <1>1, <1>5, <1>6, <1>7, <1>8, <1>9, <1>10, <1>11, NothingCarried, ThreadSound

(* The steps with which a thread routes a bundle: what it still has to     *)
(* put, and what it does to the file.                                      *)
Routes(c) == Handle(c) \/ Purge(c) \/ LookForAck(c) \/ Put(c)

Job == Seq({"save", "upsert"} \X Bundles)

LEMMA SavedIn ==
  ASSUME stored \subseteq Bundles, NEW b \in Bundles
  PROVE  Saved(b) \subseteq SUBSET Bundles
<1> SUFFICES ASSUME NEW S \in Saved(b) PROVE S \in SUBSET Bundles
  OBVIOUS
<1>1. \/ S \in SUBSET stored
      \/ \E T \in SUBSET stored : S = T \cup {b}
  BY DEF Saved
<1> QED
  BY <1>1

LEMMA RouteTurns ==
  ASSUME WireSound, NEW c \in Conns, Routes(c)
  PROVE  /\ \E pc \in Busy \cup {"idle"} : \E puts \in Job :
              /\ pc = "put" <=> puts # <<>>
              /\ thread' = [thread EXCEPT ![c].pc = pc, ![c].puts = puts]
         /\ UNCHANGED <<stored, seen>> \/ \E file \in SUBSET Bundles : Stores(file)
         /\ thread[c].pc \in Busy /\ UNCHANGED <<call, link, up, down, alive, listed, events>>
<1>0. Sound(c) /\ stored \subseteq Bundles
  BY SoundHere DEF WireSound, TypeOK
<1>1. /\ thread[c].pc \in Busy /\ UNCHANGED <<call, link, up, down, alive, listed, events>>
  BY DEF Routes, Handle, Purge, LookForAck, Put, Busy
<1>2. thread[c].got \subseteq Bundles /\ thread[c].puts \in Job
  <2>1. /\ call[c].op = "send" /\ thread[c].got = {call[c].bundle} /\ call[c] \in Call
        /\ call[c].bundle # None /\ thread[c] \in Thread
    BY <1>0, <1>1 DEF Sound, ResultSound, Typed, CallSound
  <2> QED
    BY <2>1 DEF Call, Thread, Job
<1> DEFINE Turned == \E pc \in Busy \cup {"idle"} : \E puts \in Job :
              /\ pc = "put" <=> puts # <<>>
              /\ thread' = [thread EXCEPT ![c].pc = pc, ![c].puts = puts]
<1>3. ASSUME NEW pc \in (Busy \ {"put"}) \cup {"idle"}, Turns(c, pc) PROVE Turned
  <2>1. <<>> \in Job /\ pc \in Busy \cup {"idle"} /\ pc # "put"
    BY DEF Job
  <2> QED
    BY <1>3, <2>1 DEF Turns
<1>4. ASSUME NEW puts \in Job, Puts(c, puts) PROVE Turned
  <2> DEFINE pc == IF puts = <<>> THEN "idle" ELSE "put"
  <2>1. pc \in Busy \cup {"idle"} /\ (pc = "put" <=> puts # <<>>)
    BY DEF Busy
  <2>2. thread' = [thread EXCEPT ![c].pc = pc, ![c].puts = puts]
    BY <1>4 DEF Puts
  <2> QED
    BY <2>1, <2>2
<1> HIDE DEF Turned
<1>5. /\ "idle" \in (Busy \ {"put"}) \cup {"idle"} /\ "purge" \in (Busy \ {"put"}) \cup {"idle"}
      /\ "look" \in (Busy \ {"put"}) \cup {"idle"}
  BY DEF Busy
<1>6. ASSUME NEW b \in Bundles
      PROVE  /\ <<<<"save", b>>, <<"upsert", b>>>> \in Job /\ <<<<"upsert", b>>>> \in Job
             /\ b \in Data => DataPuts(b) \in Job
  <2>1. b \in Data => AckOf[b] \in Bundles
    BY DEF Bundles, Acks
  <2>2. <<<<"save", b>>, <<"upsert", b>>>> \in Job /\ <<<<"upsert", b>>>> \in Job
    BY DEF Job
  <2>3. ASSUME NEW a \in Bundles
        PROVE  <<<<"upsert", b>>, <<"save", a>>, <<"upsert", a>>>> \in Job
    BY DEF Job
  <2> QED
    BY <2>1, <2>2, <2>3 DEF DataPuts
<1>7. CASE Handle(c)
  <2>1. PICK b \in thread[c].got :
          \/ Turns(c, "idle") \/ Turns(c, "purge")
          \/ b \in Data /\ Puts(c, DataPuts(b))
    BY <1>7 DEF Handle
  <2>2. Turned
    BY <1>2, <1>3, <1>4, <1>5, <1>6, <2>1
  <2> QED
    BY <1>1, <1>7, <2>2 DEF Handle, Turned
<1>8. CASE Purge(c)
  <2>1. PICK b \in thread[c].got :
          \/ Stores(stored \ {b}) /\ Turns(c, "idle")
          \/ Stores(stored \ Cleared(b)) /\ Turns(c, "look")
    BY <1>8 DEF Purge
  <2>2. Turned
    BY <1>3, <1>5, <2>1
  <2>3. \E file \in SUBSET Bundles : Stores(file)
    BY <1>0, <2>1
  <2> QED
    BY <1>1, <2>2, <2>3 DEF Turned
<1>9. CASE LookForAck(c)
  <2>1. PICK b \in thread[c].got :
          \/ Puts(c, <<<<"save", b>>, <<"upsert", b>>>>)
          \/ Puts(c, <<<<"upsert", b>>>>)
          \/ Turns(c, "idle")
    BY <1>9 DEF LookForAck
  <2>2. Turned
    BY <1>2, <1>3, <1>4, <1>5, <1>6, <2>1
  <2> QED
    BY <1>1, <1>9, <2>2 DEF LookForAck, Turned
<1>10. CASE Put(c)
  <2>1. thread[c].puts # <<>>
    BY <1>0, <1>10 DEF Put, Sound, Typed
  <2>2. /\ Tail(thread[c].puts) \in Job /\ Head(thread[c].puts) \in {"save", "upsert"} \X Bundles
    BY <1>2, <2>1 DEF Job
  <2>3. Turned
    BY <1>3, <1>4, <1>5, <1>10, <2>2 DEF Put
  <2>4. ASSUME NEW put \in {"save", "upsert"} \X Bundles, NEW file \in Outcomes(put)
        PROVE  file \in SUBSET Bundles
    <3>1. put[2] \in Bundles
      OBVIOUS
    <3>2. Saved(put[2]) \subseteq SUBSET Bundles
      BY <1>0, <3>1, SavedIn
    <3> QED
      BY <1>0, <3>2 DEF Outcomes
  <2>5. \E file \in SUBSET Bundles : Stores(file)
    BY <1>10, <2>2, <2>4 DEF Put
  <2> QED
    BY <1>1, <2>3, <2>5 DEF Turned
<1> QED
  BY <1>7, <1>8, <1>9, <1>10 DEF Routes

LEMMA RouteSound ==
  ASSUME WireSound, NEW c \in Conns, Routes(c)
  PROVE  /\ Only(c) /\ Sound(c)' /\ Recorded(c) /\ stored' \subseteq Bundles
         /\ UNCHANGED <<alive, listed, events>>
<1>0. TypeOK /\ Sound(c)
  BY SoundHere DEF WireSound
<1>1. PICK pc \in Busy \cup {"idle"}, puts \in Job :
        /\ pc = "put" <=> puts # <<>>
        /\ thread' = [thread EXCEPT ![c].pc = pc, ![c].puts = puts]
  BY RouteTurns
<1>2. thread[c].pc \in Busy /\ UNCHANGED <<call, link, up, down, alive, listed, events>>
  BY RouteTurns
<1> DEFINE t == [thread[c] EXCEPT !.pc = pc, !.puts = puts]
<1>3. /\ thread[c] \in Thread /\ thread[c].left = <<>> /\ thread[c].pc # "gone"
      /\ call[c].op = "send" /\ thread[c].got = {call[c].bundle}
  BY <1>0, <1>2 DEF Sound, Typed, ResultSound, Busy
<1>4. t \in Thread /\ t.pc = pc /\ t.puts = puts /\ t.left = <<>> /\ t.got = thread[c].got
  BY <1>3 DEF Thread, Job
<1>5. /\ up' = [up EXCEPT ![c] = up[c]] /\ down' = [down EXCEPT ![c] = down[c]]
      /\ thread' = [thread EXCEPT ![c] = t] /\ thread'[c] = t
  BY <1>0, <1>1, <1>2 DEF TypeOK
<1>6. Keeps(c) /\ Recorded(c) /\ stored' \subseteq Bundles
  <2>1. UNCHANGED <<stored, seen>> \/ \E file \in SUBSET Bundles : Stores(file)
    BY RouteTurns
  <2> QED
    BY <1>0, <2>1, SameKeeps, StoresKeeps DEF Recorded, TypeOK
<1> HIDE DEF t
<1>7. ASSUME NEW x PROVE Fits(c, x)'
  BY <1>2, <1>3, <1>4, <1>5 DEF Fits, Asking
<1>8. ResultSound(c)'
  BY <1>2, <1>3, <1>4, <1>5 DEF ResultSound
<1>9. /\ up[c] \in Stream /\ down[c] \in Stream
      /\ call[c].pc = "ended" => down[c] = <<>>
  BY <1>0 DEF Sound, Typed, CallSound
<1>10. pc # "gone" /\ pc # "answer"
  BY DEF Busy
<1>11. Only(c) /\ Sound(c)'
  BY <1>1, <1>2, <1>3, <1>4, <1>5, <1>6, <1>7, <1>8, <1>9, <1>10, ThreadSound
<1> QED
  BY <1>2, <1>6, <1>11

LEMMA AnswerSound ==
  ASSUME WireSound, NEW c \in Conns, Answer(c)
  PROVE  Only(c) /\ Sound(c)'
<1>0. TypeOK /\ Sound(c)
  BY SoundHere DEF WireSound
<1> DEFINE s == thread[c].left
<1>1. /\ thread[c] \in Thread /\ thread[c].pc = "answer" /\ s # <<>> /\ s \in Stream
      /\ thread[c].puts = <<>> /\ UNCHANGED <<call, link, up, alive, stored, seen>>
  BY <1>0 DEF Answer, Sound, Typed, Thread
<1>13. Keeps(c)
  BY <1>1, SameKeeps
<1>2. PICK n \in Pieces(s) :
        /\ down' = [down EXCEPT ![c] = IF Heard(c) THEN @ \o First(n, s) ELSE @]
        /\ thread' = [thread EXCEPT ![c].left = After(n, @),
                                    ![c].pc = IF n = Len(s) THEN "idle" ELSE @]
  BY DEF Answer
<1> DEFINE w == IF Heard(c) THEN down[c] \o First(n, s) ELSE down[c]
           pc == IF n = Len(s) THEN "idle" ELSE "answer"
           t == [thread[c] EXCEPT !.left = After(n, s), !.pc = pc]
<1>3. n \in 1..Len(s)
  BY <1>1, Piece
<1>4. /\ w \in Stream /\ After(n, s) \in Stream
      /\ After(n, s) = <<>> <=> n = Len(s)
      /\ Carried(w) \subseteq Carried(down[c]) \cup Carried(s)
      /\ Carried(After(n, s)) \subseteq Carried(s)
      /\ call[c].pc = "ended" => w = <<>>
  <2>1. Sent(c, n, s, w)
    BY DEF Sent
  <2> HIDE DEF w
  <2> QED
    BY <1>1, <1>3, <2>1, Sending
<1>5. /\ t \in Thread /\ t.pc = pc /\ t.left = After(n, s) /\ t.got = thread[c].got
      /\ t.puts = <<>>
  BY <1>1, <1>4 DEF Thread
<1>6. /\ up' = [up EXCEPT ![c] = up[c]] /\ down' = [down EXCEPT ![c] = w]
      /\ thread' = [thread EXCEPT ![c] = t] /\ thread'[c] = t
  <2>1. thread' = [thread EXCEPT ![c] = t]
    BY <1>0, <1>1, <1>2 DEF TypeOK
  <2> QED
    BY <1>0, <1>1, <1>2, <2>1 DEF TypeOK
<1> HIDE DEF w, t
<1>7. ASSUME NEW x, Fits(c, x) PROVE Fits(c, x)'
  BY <1>1, <1>5, <1>6, <1>7 DEF Fits, Used, Asking
<1>8. /\ \A x \in Carried(w) : Fits(c, x)'
      /\ \A x \in Carried(t.left) : Fits(c, x)'
  BY <1>4, <1>5, <1>7, AnswerFits
<1>9. ResultSound(c)'
  BY <1>0, <1>1, <1>5, <1>6 DEF Sound, ResultSound, Used, Busy
<1>10. up[c] \in Stream
  BY <1>0 DEF Sound, Typed
<1>11. t.pc = "answer" <=> t.left # <<>>
  BY <1>4, <1>5
<1>12. t.pc # "gone" /\ t.pc # "put"
  BY <1>5
<1> QED
  BY <1>1, <1>4, <1>5, <1>6, <1>8, <1>9, <1>10, <1>11, <1>12, <1>13, ThreadSound


(* A read that gets a whole request leaves nothing of it behind.           *)
LEMMA AllRead ==
  ASSUME WireSound, NEW c \in Conns, up[c] # <<>>,
         OneRead(up[c], Buffer) = Whole(Asked(c))
  PROVE  /\ call[c].left = <<>>
         /\ After(Len(OneRead(up[c], Buffer)), up[c]) = <<>>
<1> DEFINE q == Asked(c)
           u == up[c]
           s == call[c].left
           read == OneRead(u, Buffer)
<1>1. /\ u \in Seq(Block) /\ q \in Messages /\ Head(u) = u[1] /\ Len(u) \in Nat \ {0}
      /\ InOrder(c)
  BY FirstAsked
<1>2. s \in Seq(Block)
  BY SoundHere, Streams DEF Sound, Typed, Call
<1>3. PICK j \in 0..Size(q) : j + Len(u) + Len(s) = Size(q) /\ Run(q, j, u)
  BY <1>1 DEF InOrder
<1>4. Len(read) \in 1..Len(u) /\ Head(read) = Head(u)
  BY <1>1, Reading, WireAssumption
<1>5. Size(q) \in Nat \ {0} /\ Len(Whole(q)) = Size(q) /\ Whole(q)[1] = <<q, 1>>
      /\ Whole(q) \in Seq(Block)
  BY <1>1, Blocks, Streams
<1>6. j = 0
  <2>1. u[1] = <<q, j + 1>>
    BY <1>1, <1>3 DEF Run
  <2>2. Head(Whole(q)) = Whole(q)[1]
    BY <1>5
  <2>3. <<q, j + 1>> = <<q, 1>>
    BY <1>1, <1>4, <1>5, <2>1, <2>2
  <2>4. j + 1 = 1 /\ j \in Nat
    BY <1>3, <2>3
  <2> QED
    BY <2>4
<1>7. Len(s) \in Nat /\ Len(read) = Size(q)
  BY <1>2, <1>5
<1> HIDE DEF u, s, q, read
<1>8. Len(s) = 0 /\ Len(read) = Len(u)
  BY <1>1, <1>3, <1>4, <1>5, <1>6, <1>7
<1>9. s = <<>>
  BY <1>2, <1>8
<1>10. After(Len(u), u) = <<>>
  <2>1. Len(u) \in 0..Len(u)
    BY <1>1
  <2> QED
    BY <1>1, <2>1, Cutting
<1> QED
  BY <1>8, <1>9, <1>10 DEF u, s, read

LEMMA ServeSound ==
  ASSUME WireSound, NEW c \in Conns, Serve(c)
  PROVE  Only(c) /\ Sound(c)' /\ listed' \subseteq Peers
<1>0. TypeOK /\ Sound(c)
  BY SoundHere DEF WireSound
<1> DEFINE read == OneRead(up[c], Buffer)
           u == After(Len(read), up[c])
           T(m, g) == [pc |-> "answer", left |-> Whole(m), got |-> g, puts |-> <<>>]
<1>1. /\ thread[c].pc = "idle" /\ up[c] # <<>> /\ ServerOf(call[c].op) = "registry"
      /\ UNCHANGED <<call, link, down, alive, stored, seen>>
  BY DEF Serve, Idle
<1>21. Keeps(c)
  BY <1>1, SameKeeps
<1>2. /\ up[c] \in Seq(Block) /\ InOrder(c) /\ link[c] = "open"
      /\ call[c].op \in Ops /\ Len(up[c]) \in Nat \ {0}
  BY <1>1, FirstAsked
<1>3. call[c].op \in {"lookup", "register"}
  BY <1>1, <1>2 DEF ServerOf, Ops
<1>4. Len(read) \in 0..Len(up[c])
  <2>1. Len(read) \in 1..Len(up[c])
    BY <1>1, <1>2, Reading, WireAssumption
  <2> QED
    BY <2>1
<1>5. u \in Stream
  BY <1>2, <1>4, Cutting, Streams
<1>6. up' = [up EXCEPT ![c] = u] /\ down' = [down EXCEPT ![c] = down[c]]
  BY <1>0, <1>1 DEF Serve, TypeOK
<1>7. up'[c] = u /\ InOrder(c)'
  <2>1. up'[c] = u
    BY <1>0, <1>6 DEF TypeOK
  <2> QED
    BY <1>1, <1>2, <1>4, <2>1, TakingInOrder
<1>8. \E m \in Messages : \E g \in (SUBSET Bundles) \cup (SUBSET Peers) :
        /\ thread' = [thread EXCEPT ![c] = T(m, g)]
        /\ m.type = "peers" => m.of = g /\ read = Whole(Msg("lookup", {}))
  <2>1. /\ Msg("ok", {}) \in Messages /\ Msg("error", {}) \in Messages
        /\ {} \in (SUBSET Bundles) \cup (SUBSET Peers)
    BY DEF Messages
  <2>2. listed \in SUBSET Peers /\ Msg("peers", listed) \in Messages
    BY <1>0 DEF TypeOK, Messages
  <2>3. /\ Msg("ok", {}).type = "ok" /\ Msg("error", {}).type = "error"
        /\ Msg("peers", listed).of = listed
    BY DEF Msg
  <2>4. \/ thread' = [thread EXCEPT ![c] = T(Msg("ok", {}), {})]
        \/ /\ thread' = [thread EXCEPT ![c] = T(Msg("peers", listed), listed)]
           /\ read = Whole(Msg("lookup", {}))
        \/ thread' = [thread EXCEPT ![c] = T(Msg("error", {}), {})]
    BY DEF Serve, Answering, NoThread
  <2> HIDE DEF T, read
  <2>5. CASE thread' = [thread EXCEPT ![c] = T(Msg("ok", {}), {})]
    <3>1. /\ thread' = [thread EXCEPT ![c] = T(Msg("ok", {}), {})]
          /\ Msg("ok", {}).type # "peers"
      BY <2>3, <2>5
    <3> QED
      BY <2>1, <3>1, Zenon
  <2>6. CASE /\ thread' = [thread EXCEPT ![c] = T(Msg("peers", listed), listed)]
             /\ read = Whole(Msg("lookup", {}))
    BY <2>2, <2>3, <2>6
  <2>7. CASE thread' = [thread EXCEPT ![c] = T(Msg("error", {}), {})]
    <3>1. /\ thread' = [thread EXCEPT ![c] = T(Msg("error", {}), {})]
          /\ Msg("error", {}).type # "peers"
      BY <2>3, <2>7
    <3> QED
      BY <2>1, <3>1, Zenon
  <2> QED
    BY <2>4, <2>5, <2>6, <2>7
<1>9. PICK m \in Messages, g \in (SUBSET Bundles) \cup (SUBSET Peers) :
        /\ thread' = [thread EXCEPT ![c] = T(m, g)]
        /\ m.type = "peers" => m.of = g /\ read = Whole(Msg("lookup", {}))
  BY <1>8
<1> DEFINE t == T(m, g)
<1>10. /\ t \in Thread /\ t.pc = "answer" /\ t.left = Whole(m) /\ t.left # <<>>
       /\ t.got = g /\ Carried(t.left) = {m} /\ t.puts = <<>>
  <2>1. <<>> \in Seq({"save", "upsert"} \X Bundles)
    OBVIOUS
  <2> QED
    BY <2>1, Blocks, OneCarried DEF Thread
<1>11. thread'[c] = t
  BY <1>0, <1>9 DEF TypeOK
<1>12. call[c].op = "lookup" /\ m.type = "peers" => u = <<>> /\ call[c].left = <<>>
  <2> SUFFICES ASSUME call[c].op = "lookup", m.type = "peers"
               PROVE  u = <<>> /\ call[c].left = <<>>
    OBVIOUS
  <2>1. Asked(c) = Msg("lookup", {})
    BY DEF Asked, Request
  <2> QED
    BY <1>1, <1>9, <2>1, AllRead
<1> HIDE DEF t, u, read, T
<1>13. ASSUME NEW x, Fits(c, x) PROVE Fits(c, x)'
  BY <1>1, <1>3, <1>13 DEF Fits, Used, Asking
<1>14. Fits(c, m)'
  BY <1>1, <1>3, <1>7, <1>9, <1>10, <1>11, <1>12 DEF Fits, Used, Asking
<1>15. ResultSound(c)'
  <2>1. call[c].op = "lookup" => call[c].result = {}
    BY <1>0, <1>1 DEF Sound, ResultSound, Used
  <2> QED
    BY <1>1, <1>3, <1>10, <1>11, <2>1 DEF ResultSound, Busy
<1>16. /\ down[c] \in Stream
       /\ call[c].pc = "ended" => down[c] = <<>>
  BY <1>0 DEF Sound, Typed, CallSound
<1>17. /\ \A x \in Carried(down[c]) : Fits(c, x)'
       /\ \A x \in Carried(t.left) : Fits(c, x)'
  BY <1>10, <1>13, <1>14, AnswerFits
<1>18. thread' = [thread EXCEPT ![c] = t]
  BY <1>9 DEF t
<1>19. Only(c) /\ Sound(c)'
  BY <1>1, <1>2, <1>5, <1>6, <1>7, <1>10, <1>15, <1>16, <1>17, <1>18, <1>21, ThreadSound
<1>20. listed' \subseteq Peers
  BY <1>0 DEF Serve, TypeOK, Peers
<1> QED
  BY <1>19, <1>20

----------------------------------------------------------------------------
(* A connection that ends: nothing is on its way to the server any more.   *)
LEMMA LostSound ==
  ASSUME NEW c, Sound(c), call'[c] = call[c], Keeps(c),
         link'[c] = "cut", up'[c] = <<>>, down'[c] = down[c] \/ down'[c] = <<>>,
         \/ thread'[c] = thread[c] /\ thread[c].pc # "gone"
         \/ thread'[c] = [thread[c] EXCEPT !.pc = "gone", !.left = <<>>, !.puts = <<>>],
         thread'[c].pc # "gone" => ServerOf(call[c].op) \in alive',
         call[c].pc # "connect"
  PROVE  Sound(c)'
<1> DEFINE t == thread'[c]
<1>1. <<>> \in Stream /\ thread[c] \in Thread
  BY DEF Sound, Typed, Stream
<1>2. /\ t \in Thread /\ t.got = thread[c].got
      /\ \/ t = thread[c] /\ t.pc # "gone"
         \/ t.pc = "gone" /\ t.left = <<>> /\ t.puts = <<>>
  <2>1. CASE t = thread[c] /\ thread[c].pc # "gone"
    BY <1>1, <2>1
  <2>2. CASE t = [thread[c] EXCEPT !.pc = "gone", !.left = <<>>, !.puts = <<>>]
    <3>1. <<>> \in Seq({"save", "upsert"} \X Bundles)
      OBVIOUS
    <3> QED
      BY <1>1, <2>2, <3>1 DEF Thread
  <2> QED
    BY <2>1, <2>2
<1>8. Asking(c)' = Asking(c)
  BY DEF Asking
<1> HIDE DEF t
<1>3. Typed(c)'
  BY <1>1, <1>2 DEF Sound, Typed, Keeps, t
<1>4. CallSound(c)'
  BY <1>8 DEF Sound, CallSound, Keeps
<1>5. \A m : Fits(c, m) => Fits(c, m)'
  BY <1>2, <1>8 DEF Fits, Used, Keeps, t
<1>6. StreamSound(c)'
  BY <1>2, <1>5, NothingCarried DEF Sound, StreamSound, t
<1>7. ResultSound(c)'
  BY <1>2 DEF Sound, ResultSound, Used, Busy, t
<1> QED
  BY <1>3, <1>4, <1>6, <1>7 DEF Sound

LEMMA LeaveSound ==
  ASSUME WireSound, NEW c \in Conns, Leave(c) \/ Cut(c)
  PROVE  Only(c) /\ Sound(c)'
<1>0. TypeOK /\ Sound(c)
  BY SoundHere DEF WireSound
<1>1. CASE Leave(c)
  <2>1. /\ thread[c].pc = "idle" /\ thread[c].left = <<>> /\ thread[c] \in Thread
        /\ thread[c].puts = <<>>
        /\ call[c].pc # "connect" /\ UNCHANGED <<call, down, alive, stored, seen>>
    BY <1>0, <1>1 DEF Leave, Sound, Typed, CallSound, NoThread
  <2>2. [thread[c] EXCEPT !.pc = "gone"] = [thread[c] EXCEPT !.pc = "gone", !.left = <<>>, !.puts = <<>>]
    BY <2>1 DEF Thread
  <2>3. /\ Only(c) /\ link'[c] = "cut" /\ up'[c] = <<>>
        /\ thread'[c] = [thread[c] EXCEPT !.pc = "gone"]
    BY <1>0, <1>1 DEF Leave, TypeOK, Only
  <2>4. thread'[c].pc = "gone"
    BY <2>1, <2>3 DEF Thread
  <2> QED
    BY <1>0, <2>1, <2>2, <2>3, <2>4, SameKeeps, LostSound
<1>2. CASE Cut(c)
  <2>1. /\ call[c].pc # "connect" /\ thread[c].pc # "gone"
        /\ ServerOf(call[c].op) \in alive /\ UNCHANGED <<call, thread, alive, stored, seen>>
    BY <1>0, <1>2 DEF Cut, Sound, Typed, CallSound, NoThread
  <2>2. Only(c) /\ link'[c] = "cut" /\ up'[c] = <<>> /\ down'[c] = <<>>
    BY <1>0, <1>2 DEF Cut, TypeOK, Only
  <2> QED
    BY <1>0, <2>1, <2>2, SameKeeps, LostSound
<1> QED
  BY <1>1, <1>2

LEMMA DieSound ==
  ASSUME WireSound, NEW s \in Servers, Die(s)
  PROVE  WireSound'
<1>0. TypeOK
  BY DEF WireSound
<1> DEFINE its == {c \in Conns : thread[c].pc # "gone" /\ ServerOf(call[c].op) = s}
<1>1. /\ thread' = [c \in Conns |-> IF c \in its
                                    THEN [thread[c] EXCEPT !.pc = "gone", !.left = <<>>, !.puts = <<>>]
                                    ELSE thread[c]]
      /\ link' = [c \in Conns |-> IF c \in its THEN "cut" ELSE link[c]]
      /\ up' = [c \in Conns |-> IF c \in its THEN <<>> ELSE up[c]]
      /\ alive' = alive \ {s} /\ UNCHANGED <<call, down, stored, seen>>
  BY DEF Die
<1>6. seen' = [d \in Conns |-> seen'[d]] /\ \A d \in Conns : Keeps(d)
  BY <1>1, SameKeeps
<1>2. ASSUME NEW c \in Conns PROVE Sound(c)'
  <2>1. Sound(c)
    BY SoundHere
  <2>2. CASE c \in its
    <3>1. /\ thread'[c] = [thread[c] EXCEPT !.pc = "gone", !.left = <<>>, !.puts = <<>>]
          /\ link'[c] = "cut" /\ up'[c] = <<>>
      BY <1>1, <2>2
    <3>2. call[c].pc # "connect"
      BY <2>1, <2>2 DEF Sound, CallSound, NoThread
    <3>3. thread'[c].pc = "gone"
      <4>1. thread[c] \in Thread
        BY <2>1 DEF Sound, Typed
      <4> QED
        BY <3>1, <4>1 DEF Thread
    <3> QED
      BY <1>1, <1>6, <2>1, <3>1, <3>2, <3>3, LostSound
  <2>3. CASE c \notin its
    <3>1. /\ thread'[c] = thread[c] /\ link'[c] = link[c] /\ up'[c] = up[c]
          /\ call'[c] = call[c] /\ down'[c] = down[c] /\ stored' = stored
      BY <1>1, <2>3
    <3>2. thread[c].pc # "gone" => ServerOf(call[c].op) \in alive'
      BY <1>1, <2>1, <2>3 DEF Sound, Typed
    <3> QED
      BY <1>6, <2>1, <3>1, <3>2, StaysSound
  <2> QED
    BY <2>2, <2>3
<1>3. alive' \subseteq Servers /\ stored' \subseteq Bundles /\ listed' \subseteq Peers
  BY <1>0, <1>1 DEF Die, TypeOK
<1>4. events' \in 0..MaxEvents
  <2>1. events < MaxEvents /\ events' = events + 1
    BY DEF Die
  <2>2. events \in 0..MaxEvents /\ MaxEvents \in Nat
    BY <1>0, WireAssumption DEF TypeOK
  <2> QED
    BY <2>1, <2>2
<1>5. /\ DOMAIN call' = Conns /\ DOMAIN thread' = Conns
      /\ DOMAIN link' = Conns /\ DOMAIN up' = Conns /\ DOMAIN down' = Conns
      /\ call' = [d \in Conns |-> call'[d]] /\ thread' = [d \in Conns |-> thread'[d]]
      /\ link' = [d \in Conns |-> link'[d]] /\ up' = [d \in Conns |-> up'[d]]
      /\ down' = [d \in Conns |-> down'[d]]
  <2> HIDE DEF its
  <2> QED
    BY <1>0, <1>1 DEF TypeOK
<1> QED
  BY <1>2, <1>3, <1>4, <1>5, <1>6, AllSound

LEMMA RestartSound ==
  ASSUME WireSound, NEW s \in Servers, Restart(s)
  PROVE  WireSound'
<1>0. TypeOK
  BY DEF WireSound
<1>1. /\ UNCHANGED <<call, link, up, down, thread, stored, seen, listed, events>>
      /\ alive' = alive \cup {s}
  BY DEF Restart
<1>2. seen' = [d \in Conns |-> seen'[d]] /\ \A d \in Conns : Keeps(d)
  BY <1>1, SameKeeps
<1>3. ASSUME NEW c \in Conns PROVE Sound(c)'
  BY <1>1, <1>2, SoundHere, StaysSound DEF Sound, Typed
<1> QED
  BY <1>0, <1>1, <1>2, <1>3, AllSound DEF TypeOK

LEMMA StoreSound ==
  ASSUME WireSound, Store
  PROVE  WireSound'
<1>0. TypeOK
  BY DEF WireSound
<1>1. /\ UNCHANGED <<call, link, up, down, thread, alive, listed>>
      /\ events < MaxEvents /\ events' = events + 1
  BY DEF Store
<1>2. \E file \in SUBSET Bundles : Stores(file)
  <2>1. \A b \in Bundles : Saved(b) \subseteq SUBSET Bundles
    BY <1>0, SavedIn DEF TypeOK
  <2> QED
    BY <2>1 DEF Store
<1>3. /\ seen' = [d \in Conns |-> seen'[d]] /\ stored' \subseteq Bundles
      /\ \A d \in Conns : Keeps(d)
  BY <1>2, StoresKeeps
<1>4. ASSUME NEW c \in Conns PROVE Sound(c)'
  BY <1>1, <1>3, SoundHere, StaysSound DEF Sound, Typed
<1>5. events' \in 0..MaxEvents
  BY <1>0, <1>1, WireAssumption DEF TypeOK
<1> QED
  BY <1>0, <1>1, <1>3, <1>4, <1>5, AllSound DEF TypeOK

LEMMA ClientStepSound ==
  ASSUME WireSound, NEW c \in Conns, ClientStep(c) \/ Release(c)
  PROVE  Only(c) /\ Sound(c)' /\ Recorded(c) /\ UNCHANGED <<alive, stored, listed, events>>
<1>1. Only(c) /\ Sound(c)'
  BY ConnectSound, WriteSound, ReadSound, HoldSound, GiveUpSound DEF ClientStep
<1>2. UNCHANGED <<alive, stored, listed, events>>
  BY DEF ClientStep, Release, Connect, Write, ReadExact, ReadOnce, Hold, Timeout, Fail
<1>3. \/ UNCHANGED seen
      \/ seen' = [seen EXCEPT ![c] = {}]
  BY DEF ClientStep, Release, Connect, Write, ReadExact, ReadOnce, Hold, Timeout, Fail, Ended
<1> QED
  BY <1>1, <1>2, <1>3, SameKeeps, EndRecorded DEF Recorded

LEMMA ThreadStepSound ==
  ASSUME WireSound, NEW c \in Conns, ThreadStep(c)
  PROVE  /\ Only(c) /\ Sound(c)' /\ Recorded(c) /\ UNCHANGED <<alive, events>>
         /\ stored' \subseteq Bundles /\ listed' \subseteq Peers
<1>0. stored \subseteq Bundles /\ listed \subseteq Peers
  BY DEF WireSound, TypeOK
<1>1. CASE Routes(c)
  BY <1>0, <1>1, RouteSound
<1>2. CASE Respond(c) \/ Receive(c) \/ Acknowledge(c) \/ Answer(c) \/ Leave(c)
  <2>1. Only(c) /\ Sound(c)'
    BY <1>2, RespondSound, ReceiveSound, AcknowledgeSound, AnswerSound, LeaveSound
  <2>2. UNCHANGED <<stored, seen, alive, events>> /\ listed' \subseteq listed
    BY <1>2 DEF Respond, Receive, Acknowledge, Answer, Leave
  <2> QED
    BY <1>0, <2>1, <2>2, SameKeeps DEF Recorded
<1>3. CASE Serve(c)
  <2>1. UNCHANGED <<stored, seen, alive, events>>
    BY <1>3 DEF Serve
  <2> QED
    BY <1>0, <1>3, <2>1, ServeSound, SameKeeps DEF Recorded
<1> QED
  BY <1>1, <1>2, <1>3 DEF ThreadStep, Routes

LEMMA WireStep == WireSound /\ [Next]_vars => WireSound'
<1> SUFFICES ASSUME WireSound, [Next]_vars PROVE WireSound'
  OBVIOUS
<1>0. TypeOK
  BY DEF WireSound
<1>1. alive \subseteq Servers /\ stored \subseteq Bundles /\ listed \subseteq Peers
      /\ events \in 0..MaxEvents
  BY <1>0 DEF TypeOK
<1>2. ASSUME NEW c \in Conns, NEW op \in Ops, NEW b \in Bundles \cup {None}, Begin(c, op, b)
      PROVE  WireSound'
  <2>1. UNCHANGED <<alive, stored, listed, events>>
    BY <1>2 DEF Begin
  <2> QED
    BY <1>1, <1>2, <2>1, BeginSound, OneMoves
<1>3. ASSUME NEW c \in Conns, ClientStep(c) \/ Release(c) PROVE WireSound'
  BY <1>1, <1>3, ClientStepSound, OneMoves
<1>4. ASSUME NEW c \in Conns, ThreadStep(c) PROVE WireSound'
  BY <1>1, <1>4, ThreadStepSound, OneMoves
<1>5. ASSUME NEW c \in Conns, Cut(c) PROVE WireSound'
  <2>1. UNCHANGED <<alive, stored, seen, listed>> /\ events < MaxEvents /\ events' = events + 1
    BY <1>5 DEF Cut
  <2>2. events' \in 0..MaxEvents
    BY <1>1, <2>1, WireAssumption
  <2>3. Recorded(c)
    BY <2>1, SameKeeps DEF Recorded
  <2> QED
    BY <1>1, <1>5, <2>1, <2>2, <2>3, LeaveSound, OneMoves
<1>6. CASE UNCHANGED vars
  <2>1. UNCHANGED <<call, link, up, down, thread, alive, stored, seen, listed, events>>
    BY <1>6 DEF vars
  <2>2. seen' = [d \in Conns |-> seen'[d]] /\ \A d \in Conns : Keeps(d)
    BY <2>1, SameKeeps
  <2>3. ASSUME NEW c \in Conns PROVE Sound(c)'
    BY <2>1, <2>2, SoundHere, StaysSound DEF Sound, Typed
  <2> QED
    BY <1>0, <1>1, <2>1, <2>2, <2>3, AllSound DEF TypeOK
<1> QED
  BY <1>2, <1>3, <1>4, <1>5, <1>6, DieSound, RestartSound, StoreSound DEF Next

LEMMA WireInit == Init => WireSound
<1> SUFFICES ASSUME Init PROVE WireSound
  OBVIOUS
<1>1. ASSUME NEW c \in Conns
      PROVE  /\ call[c] = NoCall /\ thread[c] = NoThread /\ link[c] = "cut"
             /\ up[c] = <<>> /\ down[c] = <<>> /\ seen[c] = {}
  BY DEF Init
<1>2. /\ <<>> \in Stream /\ 0 \in 0..(MaxTries - 1) /\ 0 \in 0..MaxEvents
      /\ <<>> \in Seq({"save", "upsert"} \X Bundles)
  BY WireAssumption DEF Stream
<1>3. NoCall \in Call /\ NoThread \in Thread
  BY <1>2 DEF NoCall, Call, NoThread, Thread
<1>4. TypeOK
  BY <1>2, <1>3 DEF Init, TypeOK, NoCall, NoThread, Peers
<1>5. ASSUME NEW c \in Conns PROVE CallSound(c) /\ StreamSound(c) /\ ResultSound(c)
  <2>1. NoCall.op = None /\ NoCall.bundle = None /\ NoCall.pc = "ended" /\ NoCall.left = <<>>
        /\ NoCall.ok = FALSE /\ NoCall.result = {}
    BY DEF NoCall
  <2>2. NoThread.pc = "gone" /\ NoThread.left = <<>>
    BY DEF NoThread
  <2>3. None # "send" /\ None # "vector" /\ None # "lookup"
    BY DEF None
  <2> QED
    BY <1>1, <2>1, <2>2, <2>3, NothingCarried DEF CallSound, StreamSound, ResultSound, Asking, Busy
<1> QED
  BY <1>4, <1>5 DEF WireSound

----------------------------------------------------------------------------
(* The connection variables keep their types, and the states of a call, of *)
(* its thread and of what each has left to write fit together (client.rs,  *)
(* server.rs).                                                             *)
THEOREM WireTypes == Spec => []TypeOK
<1>1. WireSound => TypeOK
  BY DEF WireSound
<1> QED
  BY <1>1, WireInit, WireStep, PTL DEF Spec

(* A bundle whose send was answered is the one that the peer's thread      *)
(* decoded (send_bundle, receive_bundle).                                  *)
THEOREM AnsweredIsReceived == Spec => []SentIsReceived
<1>1. WireSound => SentIsReceived
  BY DEF WireSound, ResultSound, SentIsReceived
<1> QED
  BY <1>1, WireInit, WireStep, PTL DEF Spec

(* Whatever the pieces in which a message arrives, a thread takes nothing  *)
(* for a bundle but a bundle that was sent (handle_peer_to_peer,           *)
(* receive_bundle).                                                        *)
THEOREM OnlySentIsHandled == Spec => []NothingMadeUp
<1>1. WireSound => NothingMadeUp
  BY DEF WireSound, ResultSound, NothingMadeUp
<1> QED
  BY <1>1, WireInit, WireStep, PTL DEF Spec

(* What a call is told when it ends.                                       *)
Told(d) ==
  Asking(d) /\ call'[d].pc = "ended" /\ call'[d].ok => call'[d].result \in seen[d]

LEMMA EndTold ==
  ASSUME WireSound, NEW c \in Conns, NEW ok, NEW result, Ended(c, ok, result),
         Asking(c) /\ ok => result \in seen[c]
  PROVE  Told(c)
<1>1. TypeOK /\ call[c] \in Call
  BY SoundHere DEF WireSound, Sound, Typed
<1>2. call'[c].ok = ok /\ call'[c].result = result
  BY <1>1 DEF Ended, TypeOK, Call
<1> QED
  BY <1>2 DEF Told

LEMMA ClientTold ==
  ASSUME WireSound, NEW c \in Conns, ClientStep(c) \/ Release(c)
  PROVE  Told(c)
<1>1. TypeOK /\ Sound(c) /\ call[c] \in Call
  BY SoundHere DEF WireSound, Sound, Typed
<1>2. CASE ReadExact(c)
  <2>1. down[c] # <<>>
    BY <1>2 DEF ReadExact, Complete
  <2>2. Fits(c, Head(down[c])[1])
    BY <2>1, FirstFits
  <2> QED
    BY <1>2, <2>2, EndTold DEF ReadExact, Fits, Asking
<1>3. CASE call[c].op = "lookup" \/ call[c].op = "register"
  BY <1>3 DEF Told, Asking
<1>4. CASE Timeout(c) \/ Fail(c)
  BY <1>4, EndTold DEF Timeout, Fail
<1>5. CASE Connect(c)
  <2>1. call[c].pc = "connect"
    BY <1>5 DEF Connect
  <2>2. CASE Ended(c, FALSE, {})
    BY <2>2, EndTold
  <2>3. CASE ~Ended(c, FALSE, {})
    <3> DEFINE k == call[c]
               left == Whole(Request(k.op, k.bundle))
    <3>2. \/ call' = [call EXCEPT ![c].pc = "write", ![c].tries = 0, ![c].left = left]
          \/ call' = [call EXCEPT ![c].tries = @ + 1]
      BY <1>5, <2>3 DEF Connect
    <3> HIDE DEF left
    <3>1. call'[c].pc \in {"write", "connect"}
      BY <1>1, <2>1, <3>2 DEF TypeOK, Call
    <3> QED
      BY <3>1 DEF Told
  <2> QED
    BY <2>2, <2>3
<1>6. CASE Write(c)
  <2>1. call'[c].pc \in {"write", "read"}
    BY <1>1, <1>6 DEF Write, TypeOK, Call
  <2> QED
    BY <2>1 DEF Told
<1>7. CASE ReadOnce(c) \/ Hold(c)
  BY <1>3, <1>7 DEF ReadOnce, Hold
<1>8. CASE Release(c)
  BY <1>1, <1>3, <1>8 DEF Release, Sound, CallSound
<1> QED
  BY <1>2, <1>4, <1>5, <1>6, <1>7, <1>8 DEF ClientStep

LEMMA OthersTold ==
  ASSUME NEW d, call'[d] = call[d]
  PROVE  Told(d)
BY DEF Told, Asking

LEMMA AllTold == WireSound /\ [Next]_vars => \A d \in Conns : Told(d)
<1> SUFFICES ASSUME WireSound, [Next]_vars, NEW d \in Conns PROVE Told(d)
  OBVIOUS
<1>0. TypeOK
  BY DEF WireSound
<1>1. CASE UNCHANGED call
  BY <1>1, OthersTold
<1>2. ASSUME NEW c \in Conns, ClientStep(c) \/ Release(c) PROVE Told(d)
  <2>1. CASE c = d
    BY <1>2, <2>1, ClientTold
  <2>2. CASE c # d
    <3>1. call' = [call EXCEPT ![c] = call'[c]]
      BY <1>2, ClientStepSound DEF Only
    <3>2. call'[d] = call[d]
      BY <1>0, <2>2, <3>1 DEF TypeOK
    <3> QED
      BY <3>2, OthersTold
  <2> QED
    BY <2>1, <2>2
<1>3. ASSUME NEW c \in Conns, NEW op \in Ops, NEW b \in Bundles \cup {None}, Begin(c, op, b)
      PROVE  Told(d)
  <2>1. CASE c = d
    BY <1>3, <2>1 DEF Begin, Told, Asking
  <2>2. CASE c # d
    <3>1. call'[d] = call[d]
      BY <1>0, <1>3, <2>2 DEF TypeOK, Begin
    <3> QED
      BY <3>1, OthersTold
  <2> QED
    BY <2>1, <2>2
<1>4. ASSUME NEW c \in Conns, ThreadStep(c) \/ Cut(c) PROVE UNCHANGED call
  BY <1>4 DEF ThreadStep, Respond, Receive, Acknowledge, Handle, Purge, LookForAck, Put,
              Serve, Answer, Leave, Cut
<1>5. ASSUME NEW x \in Servers, Die(x) \/ Restart(x) PROVE UNCHANGED call
  BY <1>5 DEF Die, Restart
<1>6. Store \/ UNCHANGED vars => UNCHANGED call
  BY DEF Store, vars
<1> QED
  BY <1>1, <1>2, <1>3, <1>4, <1>5, <1>6 DEF Next

(* A summary vector that arrives is the peer's whole file as it was at one *)
(* moment of the call, whatever the peer saves, purges and sweeps          *)
(* meanwhile and in whatever pieces the answer comes (request_peer_sv,     *)
(* respond_peer_sv).                                                       *)
THEOREM VectorsAreCurrent == Spec => VectorIsCurrent
<1>1. WireSound /\ [Next]_vars =>
        \A c \in Conns : Asking(c) /\ call'[c].pc = "ended" /\ call'[c].ok =>
          call'[c].result \in seen[c]
  BY AllTold DEF Told
<1> QED
  BY <1>1, WireInit, WireStep, PTL DEF Spec, VectorIsCurrent

(* A look-up has the registry's whole answer or none, for every number of  *)
(* listed nodes and every size of the buffers                              *)
(* (get_connected_peers_from_server, handle_client).                       *)
THEOREM LookupsAreWhole == Spec => []AllOrNobody
<1>1. WireSound => AllOrNobody
  BY DEF WireSound, ResultSound, AllOrNobody
<1> QED
  BY <1>1, WireInit, WireStep, PTL DEF Spec


==============================================================================
