------------------------------- MODULE Expiry --------------------------------
(***************************************************************************)
(* Time to live (src/routing/model.rs:72-95, ack.rs:18-20, the timestamp   *)
(* in network/protobuf.rs, and every place where engine.rs, client.rs and  *)
(* storage.rs look whether a bundle is expired or do not).  One DATA       *)
(* bundle, created at the source when the behaviour begins, and its ACK    *)
(* travel between nodes that have the same clock.  A node keeps them until *)
(* a sweep finds them expired, an ACK removes the DATA, or both.  A node   *)
(* has at most one job with the DATA and one with the ACK, in threads of   *)
(* their own: their calls of the storage layer come in any order.          *)
(***************************************************************************)
EXTENDS Integers, FiniteSets

CONSTANTS
  Nodes, Source, Destination,
  Links,    \* pairs of nodes: the first knows the second as a peer and can reach it
  Births,   \* when in a second the DATA may be created, in ticks
  Ttls,     \* values of the command line's --ttl, a u64
  Half,     \* half the values of a u64
  Ticks,    \* ticks of the clock in a second
  MaxTime   \* bound: the clock stops there

ASSUME ExpiryAssumption ==
  /\ IsFiniteSet(Nodes)
  /\ Source \in Nodes /\ Destination \in Nodes /\ Source # Destination
  /\ Links \subseteq Nodes \X Nodes
  /\ Half \in Nat \ {0} /\ Ttls \subseteq 0..(2 * Half - 1)
  /\ Ticks \in Nat \ {0} /\ MaxTime \in Nat /\ Ticks <= MaxTime
  /\ Births \subseteq 0..(Ticks - 1)

VARIABLES
  now,     \* the clock, in ticks
  born,    \* when the DATA bundle was created
  ttl,     \* its time to live, and that of its ACK
  copies,  \* copies[k][n]: the timestamp of the bundle of kind k in n's file
  hand,    \* hand[k][n]: the job of n with a bundle of kind k: its stage and the timestamp
  acked    \* the nodes whose files have had the ACK

vars == <<now, born, ttl, copies, hand, acked>>

Kinds == {"data", "ack"}

EndOf(k) == IF k = "data" THEN Destination ELSE Source

----------------------------------------------------------------------------
(* `ttl as i64'.                                                           *)
AsSigned(x) == IF x < Half THEN x ELSE x - 2 * Half

(* num_seconds, of a duration that is not negative: the clock does not     *)
(* step back.                                                              *)
Seconds(d) == d \div Ticks

(* Mutant: expired in the last second too.                                 *)
IsExpiredEarly(t) == Seconds(now - t) >= AsSigned(ttl)

IsExpired(t) == Seconds(now - t) > AsSigned(ttl)

(* Mutant: the timestamp is rounded up.                                    *)
OnWireUp(t) == (Seconds(t) + 1) * Ticks

(* protobuf.rs sends whole seconds since the epoch, and the receiver makes *)
(* a timestamp without a fraction.                                         *)
OnWire(t) == Seconds(t) * Ticks

Times == 0..MaxTime

Stages == {"received", "checked", "kept", "delivered", "purged", "new"}

Jobs == Stages \X Times

(* None or one of S.                                                       *)
AtMostOne(S) == {{}} \cup {{x} : x \in S}

TypeOK ==
  /\ now \in Times /\ born \in Times /\ ttl \in Ttls
  /\ copies \in [Kinds -> [Nodes -> AtMostOne(Times)]]
  /\ hand \in [Kinds -> [Nodes -> AtMostOne(Jobs)]]
  /\ acked \subseteq Nodes

(* Bundle::new for a `send'.                                               *)
Init ==
  /\ now \in Births /\ born = now /\ ttl \in Ttls
  /\ copies = [k \in Kinds |-> [n \in Nodes |-> {}]]
  /\ hand = [k \in Kinds |-> [n \in Nodes |->
               IF k = "data" /\ n = Source THEN {<<"received", now>>} ELSE {}]]
  /\ acked = {}

----------------------------------------------------------------------------
(* The file of n without what is expired, as cleanup_expired_bundles       *)
(* leaves it.                                                              *)
Live(n) == [k \in Kinds |-> {t \in copies[k][n] : ~IsExpired(t)}]

(* Mutant: an ACK in the file does not matter.                             *)
BarredNever(file, k) == FALSE

Barred(file, k) == k = "data" /\ file["ack"] # {}

(* save_bundle: it sweeps first, and does not look whether what it saves   *)
(* is expired.                                                             *)
Saved(n, k, t) ==
  IF Barred(Live(n), k) \/ Live(n)[k] # {} THEN Live(n)
  ELSE [Live(n) EXCEPT ![k] = {t}]

FileOf(n) == [k \in Kinds |-> copies[k][n]]

(* upsert_bundle: update_bundle, which does not sweep, or save_bundle.     *)
Upserted(n, k, t) ==
  IF copies[k][n] = {} THEN Saved(n, k, t)
  ELSE IF Barred(FileOf(n), k) THEN FileOf(n)
  ELSE [FileOf(n) EXCEPT ![k] = {t}]

Write(n, file) == copies' = [k \in Kinds |-> [copies[k] EXCEPT ![n] = file[k]]]

Goes(n, k, job) == hand' = [hand EXCEPT ![k][n] = job]

----------------------------------------------------------------------------
(* Mutant: route_bundle takes every DATA bundle on.                        *)
CheckNothing(n) ==
  \E t \in Times :
    /\ hand["data"][n] = {<<"received", t>>} /\ copies["data"][n] = {}
    /\ Goes(n, "data", {<<"checked", t>>})
    /\ UNCHANGED <<now, born, ttl, copies, acked>>

(* DATA that handle_peer_to_peer does not find in the file (so that there  *)
(* is nothing to delete), goes to route_bundle, which drops it if it is    *)
(* expired.                                                                *)
Check(n) ==
  \E t \in Times :
    /\ hand["data"][n] = {<<"received", t>>} /\ copies["data"][n] = {}
    /\ IF IsExpired(t)
       THEN Goes(n, "data", {})
       ELSE Goes(n, "data", {<<"checked", t>>})
    /\ UNCHANGED <<now, born, ttl, copies, acked>>

(* Not at the destination: it saves the DATA, and goes on if it could not. *)
Save(n) ==
  \E t \in Times :
    /\ n # Destination /\ hand["data"][n] = {<<"checked", t>>}
    /\ Write(n, Saved(n, "data", t))
    /\ Goes(n, "data", {<<"kept", t>>})
    /\ UNCHANGED <<now, born, ttl, acked>>

(* At the destination: upsert_bundle, ...                                  *)
Deliver ==
  \E t \in Times :
    /\ hand["data"][Destination] = {<<"checked", t>>}
    /\ Write(Destination, Upserted(Destination, "data", t))
    /\ Goes(Destination, "data", {<<"delivered", t>>})
    /\ UNCHANGED <<now, born, ttl, acked>>

(* ... then new_ack, with the time of now and the ttl of the DATA, and     *)
(* save_bundle.                                                            *)
Acknowledge ==
  /\ \E t \in Times : hand["data"][Destination] = {<<"delivered", t>>}
  /\ hand["ack"][Destination] = {}
  /\ Write(Destination, Saved(Destination, "ack", now))
  /\ hand' = [hand EXCEPT !["data"][Destination] = {},
                          !["ack"][Destination] = {<<"kept", now>>}]
  /\ acked' = acked \cup {Destination}
  /\ UNCHANGED <<now, born, ttl>>

(* A job that has forwarded a bundle upserts it as InTransit, unless it    *)
(* reached nobody.  The source of the DATA, which forwards the ACK to      *)
(* nobody, upserts it as Delivered.                                        *)
Finish(n, k) ==
  \E t \in Times :
    /\ hand[k][n] = {<<"kept", t>>}
    /\ Write(n, Upserted(n, k, t)) \/ (n # EndOf(k) /\ UNCHANGED copies)
    /\ Goes(n, k, {})
    /\ UNCHANGED <<now, born, ttl, acked>>

(* The job, or a retry, sends what its peer does not have, or everything   *)
(* if the peer's summary vector did not come, and the peer receives it,    *)
(* unless it is Delivered here.  Nobody looks whether it is expired.       *)
Send(n, m, k) ==
  /\ <<n, m>> \in Links /\ n # m /\ n # EndOf(k)
  /\ hand[k][m] = {}
  /\ \E t \in copies[k][n] \cup {u \in Times : <<"kept", u>> \in hand[k][n]} :
       Goes(m, k, {<<"received", OnWire(t)>>})
  /\ UNCHANGED <<now, born, ttl, copies, acked>>

(* handle_peer_to_peer drops what is known.                                *)
Drop(n, k) ==
  /\ \E t \in Times : hand[k][n] = {<<"received", t>>}
  /\ copies[k][n] # {}
  /\ Goes(n, k, {})
  /\ UNCHANGED <<now, born, ttl, copies, acked>>

(* An ACK that handle_peer_to_peer does not find in the file goes to       *)
(* route_bundle.                                                           *)
TakeAck(n) ==
  \E t \in Times :
    /\ hand["ack"][n] = {<<"received", t>>} /\ copies["ack"][n] = {}
    /\ Goes(n, "ack", {<<"checked", t>>})
    /\ UNCHANGED <<now, born, ttl, copies, acked>>

(* There handle_incoming_ack looks for the DATA and deletes it.  (What the *)
(* DATA job or a sweep does between the look and the delete comes to the   *)
(* same before or after both: the delete takes what is there.)             *)
Purge(n) ==
  \E t \in Times :
    /\ hand["ack"][n] = {<<"checked", t>>}
    /\ Write(n, [FileOf(n) EXCEPT !["data"] = {}])
    /\ Goes(n, "ack", {<<"purged", t>>})
    /\ UNCHANGED <<now, born, ttl, acked>>

(* It looks for the ACK.  If it is there the job ends, but at the source.  *)
LookForAck(n) ==
  \E t \in Times :
    /\ hand["ack"][n] = {<<"purged", t>>}
    /\ Goes(n, "ack", IF copies["ack"][n] = {} THEN {<<"new", t>>}
                      ELSE IF n = EndOf("ack") THEN {<<"kept", t>>} ELSE {})
    /\ UNCHANGED <<now, born, ttl, copies, acked>>

(* It saves the ACK, expired or not.                                       *)
KeepAck(n) ==
  \E t \in Times :
    /\ hand["ack"][n] = {<<"new", t>>}
    /\ Write(n, Saved(n, "ack", t))
    /\ Goes(n, "ack", {<<"kept", t>>})
    /\ acked' = acked \cup {n}
    /\ UNCHANGED <<now, born, ttl>>

(* Some other bundle is saved at n.                                        *)
Sweep(n) ==
  /\ Live(n) # FileOf(n)
  /\ Write(n, Live(n))
  /\ UNCHANGED <<now, born, ttl, hand, acked>>

Tick ==
  /\ now < MaxTime /\ now' = now + 1
  /\ UNCHANGED <<born, ttl, copies, hand, acked>>

----------------------------------------------------------------------------
DataJob(n) ==
  \/ Drop(n, "data") \/ Check(n) \/ Save(n) \/ Finish(n, "data")
  \/ n = Destination /\ (Deliver \/ Acknowledge)

AckJob(n) ==
  \/ Drop(n, "ack") \/ TakeAck(n) \/ Purge(n) \/ LookForAck(n) \/ KeepAck(n)
  \/ Finish(n, "ack")

Next ==
  \/ Tick
  \/ \E n \in Nodes : DataJob(n) \/ AckJob(n) \/ Sweep(n)
  \/ \E n, m \in Nodes, k \in Kinds : Send(n, m, k)

(* Time passes, threads go on, and every node saves other bundles from     *)
(* time to time: nothing else sweeps.                                      *)
Fairness ==
  /\ WF_vars(Tick)
  /\ \A n \in Nodes : WF_vars(DataJob(n)) /\ WF_vars(AckJob(n)) /\ WF_vars(Sweep(n))

Spec == Init /\ [][Next]_vars /\ Fairness

----------------------------------------------------------------------------
(* The time that really passed since the bundle was created is more than   *)
(* its ttl.                                                                *)
Outlived == now - born > ttl * Ticks

(* The ACK's own step that deletes the DATA.                               *)
Purges(n) ==
  \E t \in Times : hand["ack"][n] = {<<"checked", t>>} /\ hand'["ack"][n] = {<<"purged", t>>}

(* No file loses the DATA before its ttl is over, but by the delete of     *)
(* handle_incoming_ack: that the wire cuts the timestamp makes no copy     *)
(* expire early, and a ttl that an i64 can hold is compared rightly        *)
(* (is_expired, From for Bundle).                                          *)
NeverEarly ==
  [][ttl < Half => \A n \in Nodes :
       copies["data"][n] # {} /\ copies'["data"][n] = {} => Outlived \/ Purges(n)]_vars

(* Once its file has had the ACK, a node neither takes the DATA nor        *)
(* rewrites it before its ttl is over, whatever its jobs had looked up     *)
(* before, and although the ACK that bars the DATA may expire and go       *)
(* first: the ACK is not older than the DATA and has its ttl (new_ack),    *)
(* also when both have lost a part of a second on the wire.                *)
AckedTakesNothing ==
  [][ttl < Half => \A n \in acked :
       copies'["data"][n] \subseteq copies["data"][n] \/ Outlived]_vars

(* DATA dies out: once it is expired, the nodes do not hand it to each     *)
(* other for ever while each sweeps it (route_bundle's check of what it    *)
(* receives).                                                              *)
DataDiesOut == <>[](\A n \in Nodes : copies["data"][n] = {})

(* The same of the ACK, which nothing checks when it is received: files    *)
(* are rid of it once it is expired ("Automatic removal of expired         *)
(* bundles", README.md:86).                                                *)
AckDiesOut == <>[](\A n \in Nodes : \A t \in copies["ack"][n] : ~IsExpired(t))

=============================================================================
