-------------------------- MODULE ArpCache_proofs --------------------------
(***************************************************************************)
(* Theorems about the ARP cache, for any neighbours, slots, packets and    *)
(* interleavings of the three threads: the table holds one entry of an     *)
(* address and is never written before its beginning; a packet that waits  *)
(* is in one place; and no neighbour that answers in time is reported      *)
(* unreachable.                                                            *)
(***************************************************************************)
EXTENDS ArpCache, DataInduction, FiniteSetTheorems

-----------------------------------------------------------------------------
(* The invariant of the table.                                              *)

Item == [ip : Alive \cup {NoAddr}, age : Nat]

\* An address has one entry.
Distinct(t) == \A i, j \in Slots : t[i].ip = t[j].ip => i = j \/ t[i].ip = NoAddr

\* As many slots as neighbours, or more.
Ample == Cardinality(Alive) <= Cardinality(Slots)

\* What is in the table has been said by a neighbour.
IInv == /\ entries \in [Slots -> Item]
        /\ Distinct(entries)
        /\ asked \subseteq Alive
        /\ Ample => ~ corrupt

-----------------------------------------------------------------------------
(* The table: insertion.                                                    *)

\* Entries of different neighbours leave one slot for the next neighbour.
LEMMA RoomForOneMore ==
  ASSUME ArpAssumption, NEW t \in [Slots -> Item], Distinct(t), Ample,
         NEW ip \in Alive, \A i \in Slots : t[i].ip # ip /\ t[i].ip # NoAddr
  PROVE  FALSE
<1> DEFINE f == [i \in Slots |-> t[i].ip]
           others == Alive \ {ip}
<1>1. IsFiniteSet(Slots) /\ IsFiniteSet(Alive)
  BY DEF ArpAssumption
<1>2. f \in [Slots -> others]
  BY DEF Item
<1>3. \A i, j \in Slots : f[i] = f[j] => i = j
  BY DEF Distinct
<1>4. f \in Injection(Slots, others)
  BY <1>2, <1>3 DEF Injection, IsInjective
<1>5. /\ IsFiniteSet(others)
      /\ Cardinality(others) = Cardinality(Alive) - 1
  BY <1>1, FS_RemoveElement
<1>6. Cardinality(Slots) <= Cardinality(others)
  BY <1>1, <1>4, <1>5, FS_Injection
<1>7. Cardinality(Alive) \in Nat /\ Cardinality(Slots) \in Nat
  BY <1>1, FS_CardinalityType
<1> QED
  BY <1>5, <1>6, <1>7 DEF Ample

\* arpcache_insert of what a neighbour says.
LEMMA InsertKeeps ==
  ASSUME ArpAssumption, IInv, NEW ip \in Alive, Insert(ip)
  PROVE  entries' \in [Slots -> Item] /\ Distinct(entries') /\ (Ample => ~ corrupt')
<1>1. ip # NoAddr
  BY DEF ArpAssumption, IPs, Addrs
<1>2. Entry(ip) \in Item /\ Entry(ip).ip = ip
  BY DEF Entry, Item
<1>3. entries' \in Stored(ip) /\ corrupt' = (corrupt \/ ~ (Known(ip) \/ Known(NoAddr)))
  BY DEF Insert
<1>4. Ample => Known(ip) \/ Known(NoAddr)
  BY RoomForOneMore DEF IInv, Known
<1>5. Ample => ~ corrupt'
  BY <1>3, <1>4 DEF IInv
<1>6. CASE Known(ip)
  <2>1. entries' = [i \in Slots |-> IF entries[i].ip = ip THEN Entry(ip) ELSE entries[i]]
    BY <1>3, <1>6 DEF Stored
  <2>2. entries' \in [Slots -> Item]
    BY <1>2, <2>1 DEF IInv
  <2>3. \A i \in Slots : entries'[i].ip = entries[i].ip
    BY <1>2, <2>1
  <2> QED
    BY <1>5, <2>2, <2>3 DEF IInv, Distinct
<1>7. CASE ~ Known(ip) /\ Known(NoAddr)
  <2>1. PICK k \in Slots : entries' = [entries EXCEPT ![k] = Entry(ip)]
    BY <1>3, <1>7 DEF Stored
  <2>2. entries' \in [Slots -> Item]
    BY <1>2, <2>1 DEF IInv
  <2>3. entries'[k].ip = ip /\ \A i \in Slots : i # k => entries'[i].ip = entries[i].ip
    BY <1>2, <2>1 DEF IInv
  <2>4. \A i \in Slots : entries[i].ip # ip
    BY <1>7 DEF Known
  <2>5. Distinct(entries')
    BY <2>3, <2>4 DEF IInv, Distinct
  <2> QED
    BY <1>5, <2>2, <2>5
<1>8. CASE ~ Known(ip) /\ ~ Known(NoAddr)
  BY <1>3, <1>5, <1>8 DEF Stored, IInv
<1> QED
  BY <1>6, <1>7, <1>8

-----------------------------------------------------------------------------
(* The table: the other steps.                                              *)

LEMMA InitInv == ASSUME ArpAssumption, Init PROVE IInv
<1>1. entries = [i \in Slots |-> [ip |-> NoAddr, age |-> 0]]
      /\ asked = {} /\ corrupt = FALSE
  BY DEF Init
<1> QED
  BY <1>1 DEF IInv, Item, Distinct

\* Time changes no address.
LEMMA OlderKeeps ==
  ASSUME ArpAssumption, entries \in [Slots -> Item], Distinct(entries), Older
  PROVE  entries' \in [Slots -> Item] /\ Distinct(entries')
<1>1. entries' = [i \in Slots |-> IF entries[i].ip = NoAddr THEN entries[i]
                    ELSE [entries[i] EXCEPT !.age = Upto(EntryTimeout + 1, @)]]
  BY DEF Older
<1>2. \A n \in Nat : Upto(EntryTimeout + 1, n) \in Nat
  BY DEF Upto, ArpAssumption
<1>3. \A i \in Slots : entries'[i] \in Item /\ entries'[i].ip = entries[i].ip
  BY <1>1, <1>2 DEF Item
<1> QED
  BY <1>1, <1>3 DEF Distinct

\* Nor does the sweep, which only frees slots.
LEMMA SweepKeeps ==
  ASSUME ArpAssumption, IInv, SweepPass
  PROVE  IInv'
<1>1. entries' = [i \in Slots |->
                   IF entries[i].ip # NoAddr /\ entries[i].age - late >= EntryTimeout
                   THEN [ip |-> NoAddr, age |-> 0] ELSE entries[i]]
  BY DEF SweepPass
<1>2. asked' \subseteq Alive /\ corrupt' = corrupt
  BY DEF SweepPass, IInv, Requested
<1>3. [ip |-> NoAddr, age |-> 0] \in Item
  BY DEF Item
<1>4. entries' \in [Slots -> Item]
  BY <1>1, <1>3 DEF IInv
<1>5. \A i \in Slots : entries'[i].ip = NoAddr \/ entries'[i].ip = entries[i].ip
  BY <1>1
<1>6. Distinct(entries')
  BY <1>5 DEF IInv, Distinct
<1> QED
  BY <1>2, <1>4, <1>6 DEF IInv, Ample, Distinct

LEMMA NextInv == ASSUME ArpAssumption, IInv, [Next]_vars PROVE IInv'
<1>1. CASE \E p \in Packets : Transmit(p)
  BY <1>1 DEF Transmit, Send, HandleLocal, Forward, IInv, Ample, Distinct
<1>2. CASE \E t \in Threads : SenderStep(t)
  <2>1. PICK t \in Threads : AppendPacket(t) \/ SendRequest(t)
    BY <1>2 DEF SenderStep
  <2>2. UNCHANGED <<entries, corrupt>>
    BY <2>1 DEF AppendPacket, SendRequest
  <2>3. asked' \subseteq Alive
    BY <2>1 DEF AppendPacket, SendRequest, Requested, IInv
  <2> QED
    BY <2>2, <2>3 DEF IInv, Ample, Distinct
<1>3. ASSUME NEW ip \in IPs, HandleReply(ip) \/ HandleRequest(ip)
      PROVE  IInv'
  <2>1. ip \in Alive /\ Insert(ip) /\ asked' \subseteq Alive
    BY <1>3 DEF HandleReply, HandleRequest, IInv
  <2> QED
    BY <2>1, InsertKeeps DEF IInv, Ample, Distinct
<1>4. ASSUME NEW ip \in IPs, Unanswered(ip)
      PROVE  IInv'
  BY <1>4 DEF Unanswered, IInv, Ample, Distinct
<1>5. CASE Wakes \/ SecondPasses
  <2>1. Older /\ UNCHANGED <<corrupt, asked>>
    BY <1>5 DEF Wakes, SecondPasses
  <2> QED
    BY <2>1, OlderKeeps DEF IInv, Ample, Distinct
<1>6. CASE SweepPass
  BY <1>6, SweepKeeps
<1>7. CASE SendUnreachable \/ SweepSleeps
  BY <1>7 DEF SendUnreachable, SweepSleeps, IInv, Ample, Distinct
<1>8. CASE UNCHANGED vars
  BY <1>8 DEF vars, IInv, Ample, Distinct
<1> QED
  BY <1>1, <1>2, <1>3, <1>4, <1>5, <1>6, <1>7, <1>8 DEF Next, SweepStep

-----------------------------------------------------------------------------
(* arpcache_insert keeps the table sound: it never stores a second entry of  *)
(* an address, and with as many slots as neighbours never finds the table    *)
(* full, where it would write entries[-1].                                   *)
THEOREM TableAlwaysSound == ASSUME ArpAssumption PROVE Spec => []TableSound
<1>1. Init => IInv
  BY InitInv
<1>2. IInv /\ [Next]_vars => IInv'
  BY NextInv
<1>3. IInv => TableSound
  BY DEF IInv, TableSound, Distinct, Ample
<1> QED
  BY <1>1, <1>2, <1>3, PTL DEF Spec

-----------------------------------------------------------------------------
(* Where a packet waits.                                                    *)

Request == [ip : IPs, age : 0 .. 2, retries : 1 .. MaxRetries, pkts : Seq(Packets)]
Packet == [src : Addrs, dst : Addrs, where : {"new", "held", "cached", "sent", "taken", "dropped"}]

\* There is one request for an address; its packets are different, are for the
\* address, and are cached; and every cached packet is one of them.
Listed(rq, pk) ==
  /\ \A i, j \in DOMAIN rq : rq[i].ip = rq[j].ip => i = j
  /\ \A i \in DOMAIN rq : rq[i].pkts # <<>> /\ IsInjective(rq[i].pkts)
  /\ \A i \in DOMAIN rq : \A p \in ToSet(rq[i].pkts) : pk[p].where = "cached" /\ pk[p].dst = rq[i].ip
  /\ \A p \in Packets : pk[p].where = "cached" => \E i \in DOMAIN rq : p \in ToSet(rq[i].pkts)

Hand(h, t, p) == h[t].pc = "append" /\ h[t].id = p

\* A held packet is in the hand of one thread, on its way to a neighbour, or in
\* pkt_list, once.
Handed(h, l, pk) ==
  /\ \A t, u \in Threads : \A p \in Packets : Hand(h, t, p) /\ Hand(h, u, p) => t = u
  /\ \A t \in Threads : \A p \in Packets : Hand(h, t, p) => p \notin ToSet(l) /\ pk[p].dst \in IPs
  /\ IsInjective(l)
  /\ \A p \in Packets : pk[p].where = "held" <=> p \in ToSet(l) \/ \E t \in Threads : Hand(h, t, p)

\* The sweep drops its list before it sleeps.
PacketInv ==
  /\ TypeOK
  /\ Listed(reqs, pkt)
  /\ Handed(th, sweep.list, pkt)
  /\ sweep.pc # "drop" => sweep.list = <<>>

-----------------------------------------------------------------------------
(* The requests and their packets.                                          *)

LEMMA Requests ==
  ASSUME NEW rq \in Seq(Request), NEW k \in DOMAIN rq
  PROVE  rq[k] \in Request /\ rq[k].ip \in IPs /\ rq[k].pkts \in Seq(Packets) /\ ToSet(rq[k].pkts) \subseteq Packets
<1>1. rq[k] \in Request
  OBVIOUS
<1>2. rq[k].ip \in IPs /\ rq[k].pkts \in Seq(Packets)
  BY <1>1 DEF Request
<1>3. ToSet(rq[k].pkts) \subseteq Packets
  BY <1>2 DEF ToSet
<1> QED
  BY <1>1, <1>2, <1>3

\* A packet that does not wait in a request may go anywhere else.
LEMMA OtherListed ==
  ASSUME NEW rq \in Seq(Request), NEW pk \in [Packets -> Packet], Listed(rq, pk),
         NEW p \in Packets, pk[p].where # "cached", NEW q \in Packet, q.where # "cached"
  PROVE  Listed(rq, [pk EXCEPT ![p] = q])
<1> DEFINE qk == [pk EXCEPT ![p] = q]
<1>1. \A x \in Packets : qk[x] = IF x = p THEN q ELSE pk[x]
  OBVIOUS
<1> HIDE DEF qk
<1>2. ASSUME NEW i \in DOMAIN rq, NEW x \in ToSet(rq[i].pkts)
      PROVE  qk[x].where = "cached" /\ qk[x].dst = rq[i].ip
  <2>2. x \in Packets
    BY Requests
  <2>3. pk[x].where = "cached" /\ pk[x].dst = rq[i].ip
    BY DEF Listed
  <2> QED
    BY <1>1, <2>2, <2>3
<1>3. ASSUME NEW x \in Packets, qk[x].where = "cached" PROVE \E i \in DOMAIN rq : x \in ToSet(rq[i].pkts)
  BY <1>1, <1>3 DEF Listed
<1>4. Listed(rq, qk)
  BY <1>2, <1>3 DEF Listed
<1> QED
  BY <1>4 DEF qk

\* Times and retries are nothing to the packets.
LEMMA AlikeListed ==
  ASSUME NEW rq, NEW sq, NEW pk, Listed(rq, pk), DOMAIN sq = DOMAIN rq,
         \A i \in DOMAIN rq : sq[i].ip = rq[i].ip /\ sq[i].pkts = rq[i].pkts
  PROVE  Listed(sq, pk)
  BY DEF Listed

\* The request sq[i] is rq[pos[i]] still.
Rest(sq, rq, pos) ==
  /\ \A i \in DOMAIN sq : /\ pos[i] \in DOMAIN rq
                          /\ sq[i].ip = rq[pos[i]].ip /\ sq[i].pkts = rq[pos[i]].pkts
  /\ \A i, j \in DOMAIN sq : pos[i] = pos[j] => i = j

\* The packet p was in a request that is not left.
Freed(sq, rq, pos, p) == \E k \in DOMAIN rq : p \in ToSet(rq[k].pkts) /\ \A i \in DOMAIN sq : pos[i] # k

\* Any packets but the ones a removed request had.
LEMMA RestListed ==
  ASSUME NEW rq \in Seq(Request), NEW pk \in [Packets -> Packet], Listed(rq, pk), NEW sq, NEW qk, NEW pos,
         Rest(sq, rq, pos),
         \A p \in Packets : Freed(sq, rq, pos, p) => qk[p].where # "cached",
         \A p \in Packets : ~ Freed(sq, rq, pos, p) => qk[p] = pk[p]
  PROVE  Listed(sq, qk)
<1>0. /\ \A i \in DOMAIN sq : /\ pos[i] \in DOMAIN rq
                              /\ sq[i].ip = rq[pos[i]].ip /\ sq[i].pkts = rq[pos[i]].pkts
      /\ \A i, j \in DOMAIN sq : pos[i] = pos[j] => i = j
  BY DEF Rest
<1>1. \A i, j \in DOMAIN sq : sq[i].ip = sq[j].ip => i = j
  BY <1>0 DEF Listed
<1>2. \A i \in DOMAIN sq : sq[i].pkts # <<>> /\ IsInjective(sq[i].pkts)
  BY <1>0 DEF Listed
<1>3. ASSUME NEW i \in DOMAIN sq, NEW p \in ToSet(sq[i].pkts)
      PROVE  qk[p].where = "cached" /\ qk[p].dst = sq[i].ip
  <2>1. pos[i] \in DOMAIN rq /\ p \in ToSet(rq[pos[i]].pkts) /\ sq[i].ip = rq[pos[i]].ip
    BY <1>0
  <2>2. p \in Packets
    <3>1. ToSet(rq[pos[i]].pkts) \subseteq Packets
      BY <2>1, Requests
    <3> QED
      BY <2>1, <3>1
  <2>3. pk[p].where = "cached" /\ pk[p].dst = rq[pos[i]].ip
    BY <2>1 DEF Listed
  <2>4. ASSUME NEW k \in DOMAIN rq, p \in ToSet(rq[k].pkts), \A j \in DOMAIN sq : pos[j] # k PROVE FALSE
    <3>1. pk[p].dst = rq[k].ip
      BY <2>4 DEF Listed
    <3>2. k = pos[i]
      BY <2>1, <2>3, <3>1 DEF Listed
    <3> QED
      BY <2>4, <3>2
  <2>5. qk[p] = pk[p]
    BY <2>2, <2>4 DEF Freed
  <2> QED
    BY <2>1, <2>3, <2>5
<1>4. ASSUME NEW p \in Packets, qk[p].where = "cached"
      PROVE  \E i \in DOMAIN sq : p \in ToSet(sq[i].pkts)
  <2>1. qk[p] = pk[p] /\ \A k \in DOMAIN rq : p \in ToSet(rq[k].pkts) => \E i \in DOMAIN sq : pos[i] = k
    BY <1>4 DEF Freed
  <2>2. PICK k \in DOMAIN rq : p \in ToSet(rq[k].pkts)
    BY <1>4, <2>1 DEF Listed
  <2>3. PICK i \in DOMAIN sq : pos[i] = k
    BY <2>1, <2>2
  <2> QED
    BY <1>0, <2>2, <2>3
<1> QED
  BY <1>1, <1>2, <1>3, <1>4 DEF Listed

\* One more packet in the request for its next hop.
LEMMA JoinListed ==
  ASSUME NEW rq \in Seq(Request), NEW pk \in [Packets -> Packet], Listed(rq, pk),
         NEW p \in Packets, pk[p].where # "cached", NEW k \in DOMAIN rq, rq[k].ip = pk[p].dst
  PROVE  /\ [rq EXCEPT ![k].pkts = Append(@, p)] \in Seq(Request)
         /\ Listed([rq EXCEPT ![k].pkts = Append(@, p)], [pk EXCEPT ![p].where = "cached"])
<1> DEFINE sq == [rq EXCEPT ![k].pkts = Append(@, p)]
           qk == [pk EXCEPT ![p].where = "cached"]
<1>1. PICK n \in Nat : DOMAIN rq = 1 .. n /\ rq \in [1 .. n -> Request]
  OBVIOUS
<1>2. \A i \in 1 .. n : /\ rq[i] \in Request /\ rq[i].pkts \in Seq(Packets)
                        /\ sq[i] = IF i = k THEN [rq[k] EXCEPT !.pkts = Append(@, p)] ELSE rq[i]
  BY <1>1 DEF Request
<1>3. Append(rq[k].pkts, p) \in Seq(Packets)
  BY <1>1, <1>2
<1>4. [rq[k] EXCEPT !.pkts = Append(@, p)] \in Request
  BY <1>1, <1>2, <1>3 DEF Request
<1>5. sq \in [1 .. n -> Request]
  BY <1>1, <1>2, <1>4
<1>6. \A i \in 1 .. n : sq[i].ip = rq[i].ip /\ (i # k => sq[i].pkts = rq[i].pkts)
  BY <1>1, <1>2 DEF Request
<1>7. sq[k].pkts = Append(rq[k].pkts, p)
  BY <1>1, <1>2 DEF Request
<1>8. \A x \in Packets : IF x = p THEN qk[x].where = "cached" /\ qk[x].dst = pk[x].dst ELSE qk[x] = pk[x]
  BY DEF Packet
<1>9. DOMAIN sq = 1 .. n
  BY <1>1
<1> HIDE DEF sq, qk
<1>10. p \notin ToSet(rq[k].pkts)
  BY DEF Listed
<1>11. PICK m \in Nat : Len(rq[k].pkts) = m
  <2>1. rq[k].pkts \in Seq(Packets)
    BY Requests
  <2> QED
    BY <2>1
<1>12. /\ DOMAIN sq[k].pkts = 1 .. m + 1 /\ sq[k].pkts[m + 1] = p
       /\ DOMAIN rq[k].pkts = 1 .. m
       /\ \A i \in 1 .. m : sq[k].pkts[i] = rq[k].pkts[i]
  BY <1>1, <1>2, <1>7, <1>11
<1>13. ToSet(sq[k].pkts) = ToSet(rq[k].pkts) \cup {p}
  <2>1. \A x \in ToSet(rq[k].pkts) : x \in ToSet(sq[k].pkts)
    BY <1>12 DEF ToSet
  <2>2. p \in ToSet(sq[k].pkts)
    BY <1>12 DEF ToSet
  <2>3. \A i \in 1 .. m + 1 : sq[k].pkts[i] \in ToSet(rq[k].pkts) \cup {p}
    <3> TAKE i \in 1 .. m + 1
    <3>1. i = m + 1 \/ i \in 1 .. m
      OBVIOUS
    <3> QED
      BY <1>12, <3>1 DEF ToSet
  <2> QED
    BY <1>12, <2>1, <2>2, <2>3 DEF ToSet
<1>14. IsInjective(sq[k].pkts)
  <2>1. IsInjective(rq[k].pkts)
    BY DEF Listed
  <2>2. \A i \in 1 .. m : rq[k].pkts[i] # p
    BY <1>10, <1>12 DEF ToSet
  <2> QED
    BY <1>12, <2>1, <2>2 DEF IsInjective
<1>15. sq[k].pkts # <<>>
  BY <1>12
<1>16. ASSUME NEW i \in 1 .. n, NEW x \in ToSet(sq[i].pkts)
       PROVE  qk[x].where = "cached" /\ qk[x].dst = sq[i].ip
  <2>1. CASE x = p /\ i = k
    BY <1>6, <1>8, <2>1
  <2>2. CASE x \in ToSet(rq[i].pkts)
    <3>1. x \in Packets
      BY <1>2, <2>2 DEF ToSet
    <3>2. pk[x].where = "cached" /\ pk[x].dst = rq[i].ip
      BY <1>1, <2>2 DEF Listed
    <3> QED
      BY <1>6, <1>8, <3>1, <3>2
  <2> QED
    BY <1>6, <1>13, <2>1, <2>2
<1>17. ASSUME NEW x \in Packets, qk[x].where = "cached" PROVE \E i \in 1 .. n : x \in ToSet(sq[i].pkts)
  <2>1. CASE x = p
    BY <1>1, <1>13, <2>1
  <2>2. CASE x # p
    <3>1. PICK i \in 1 .. n : x \in ToSet(rq[i].pkts)
      BY <1>1, <1>8, <1>17, <2>2 DEF Listed
    <3> QED
      BY <1>6, <1>13, <3>1
  <2> QED
    BY <2>1, <2>2
<1>18. Listed(sq, qk)
  <2>1. \A i, j \in 1 .. n : sq[i].ip = sq[j].ip => i = j
    BY <1>1, <1>6 DEF Listed
  <2>2. \A i \in 1 .. n : sq[i].pkts # <<>> /\ IsInjective(sq[i].pkts)
    BY <1>1, <1>6, <1>14, <1>15 DEF Listed
  <2> QED
    BY <1>9, <1>16, <1>17, <2>1, <2>2 DEF Listed
<1>19. sq \in Seq(Request)
  BY <1>5
<1> QED
  BY <1>18, <1>19 DEF sq, qk

-----------------------------------------------------------------------------
(* The hands.                                                               *)

Work == {Idle} \cup [pc : {"append", "request"}, id : Packets]

\* Held packets and hands that stay as they are.
LEMMA AlikeHanded ==
  ASSUME NEW h, NEW g, NEW l, NEW pk, NEW qk, Handed(h, l, pk),
         \A t \in Threads : \A p \in Packets : Hand(g, t, p) <=> Hand(h, t, p),
         \A p \in Packets : qk[p].where = "held" <=> pk[p].where = "held",
         \A p \in Packets : pk[p].where = "held" => qk[p].dst = pk[p].dst
  PROVE  Handed(g, l, qk)
  BY DEF Handed

\* A packet in nobody's hand is taken out of the list and into a hand.
LEMMA HoldHanded ==
  ASSUME NEW h \in [Threads -> Work], NEW l, NEW pk \in [Packets -> Packet], Handed(h, l, pk),
         NEW t \in Threads, h[t] = Idle, NEW p \in Packets, \A u \in Threads : ~ Hand(h, u, p),
         NEW q \in Packet, q.where = "held", q.dst \in IPs,
         NEW k, IsInjective(k), \A x \in Packets : x \in ToSet(k) <=> x \in ToSet(l) /\ x # p
  PROVE  Handed([h EXCEPT ![t] = [pc |-> "append", id |-> p]], k, [pk EXCEPT ![p] = q])
<1> DEFINE g == [h EXCEPT ![t] = [pc |-> "append", id |-> p]]
           qk == [pk EXCEPT ![p] = q]
<1>1. \A u \in Threads : \A x \in Packets : Hand(g, u, x) <=> IF u = t THEN x = p ELSE Hand(h, u, x)
  BY DEF Hand
<1>2. \A x \in Packets : IF x = p THEN qk[x] = q ELSE qk[x] = pk[x]
  OBVIOUS
<1> HIDE DEF g, qk
<1>3. \A x \in Packets : ~ Hand(h, t, x)
  BY DEF Hand, Idle
<1>4. \A u, v \in Threads : \A x \in Packets : Hand(g, u, x) /\ Hand(g, v, x) => u = v
  BY <1>1 DEF Handed
<1>5. \A u \in Threads : \A x \in Packets : Hand(g, u, x) => x \notin ToSet(k) /\ qk[x].dst \in IPs
  BY <1>1, <1>2 DEF Handed
<1>6. ASSUME NEW x \in Packets PROVE qk[x].where = "held" <=> x \in ToSet(k) \/ \E u \in Threads : Hand(g, u, x)
  <2>1. CASE x = p
    BY <1>1, <1>2, <2>1
  <2>2. CASE x # p
    <3>1. (\E u \in Threads : Hand(g, u, x)) <=> \E u \in Threads : Hand(h, u, x)
      BY <1>1, <1>3, <2>2
    <3> QED
      BY <1>2, <2>2, <3>1 DEF Handed
  <2> QED
    BY <2>1, <2>2
<1> QED
  BY <1>4, <1>5, <1>6 DEF Handed, g, qk

\* Or out of the list and away.
LEMMA GoneHanded ==
  ASSUME NEW h, NEW l, NEW pk \in [Packets -> Packet], Handed(h, l, pk),
         NEW p \in Packets, \A u \in Threads : ~ Hand(h, u, p), NEW q \in Packet, q.where # "held",
         NEW k, IsInjective(k), \A x \in Packets : x \in ToSet(k) <=> x \in ToSet(l) /\ x # p
  PROVE  Handed(h, k, [pk EXCEPT ![p] = q])
<1> DEFINE qk == [pk EXCEPT ![p] = q]
<1>2. \A x \in Packets : IF x = p THEN qk[x] = q ELSE qk[x] = pk[x]
  OBVIOUS
<1> HIDE DEF qk
<1>5. \A u \in Threads : \A x \in Packets : Hand(h, u, x) => x \notin ToSet(k) /\ qk[x].dst \in IPs
  BY <1>2 DEF Handed
<1>6. \A x \in Packets : qk[x].where = "held" <=> x \in ToSet(k) \/ \E u \in Threads : Hand(h, u, x)
  BY <1>2 DEF Handed
<1> QED
  BY <1>5, <1>6 DEF Handed, qk

\* A hand that lets its packet go.
LEMMA LetGoHanded ==
  ASSUME NEW h \in [Threads -> Work], NEW l, NEW pk \in [Packets -> Packet], Handed(h, l, pk),
         NEW t \in Threads, NEW p \in Packets, Hand(h, t, p), NEW w \in Work, w.pc # "append"
  PROVE  Handed([h EXCEPT ![t] = w], l, [pk EXCEPT ![p].where = "cached"])
<1> DEFINE g == [h EXCEPT ![t] = w]
           qk == [pk EXCEPT ![p].where = "cached"]
<1>1. \A u \in Threads : \A x \in Packets : Hand(g, u, x) <=> u # t /\ Hand(h, u, x)
  BY DEF Hand
<1>2. \A x \in Packets : IF x = p THEN qk[x].where = "cached" ELSE qk[x] = pk[x]
  BY DEF Packet
<1> HIDE DEF g, qk
<1>3. \A u \in Threads : u # t => ~ Hand(h, u, p)
  BY DEF Handed
<1>4. \A u, v \in Threads : \A x \in Packets : Hand(g, u, x) /\ Hand(g, v, x) => u = v
  BY <1>1 DEF Handed
<1>5. \A u \in Threads : \A x \in Packets : Hand(g, u, x) => x \notin ToSet(l) /\ qk[x].dst \in IPs
  BY <1>1, <1>2, <1>3 DEF Handed
<1>6. ASSUME NEW x \in Packets PROVE qk[x].where = "held" <=> x \in ToSet(l) \/ \E u \in Threads : Hand(g, u, x)
  <2>1. CASE x = p
    <3>1. p \notin ToSet(l)
      BY DEF Handed
    <3> QED
      BY <1>1, <1>2, <1>3, <2>1, <3>1
  <2>2. CASE x # p
    <3>1. ~ Hand(h, t, x)
      BY <2>2 DEF Hand
    <3>2. (\E u \in Threads : Hand(g, u, x)) <=> \E u \in Threads : Hand(h, u, x)
      BY <1>1, <3>1
    <3> QED
      BY <1>2, <2>2, <3>2 DEF Handed
  <2> QED
    BY <2>1, <2>2
<1> QED
  BY <1>4, <1>5, <1>6 DEF Handed, g, qk

\* The sweep takes packets of requests into its list.
LEMMA ListHanded ==
  ASSUME NEW h, NEW pk \in [Packets -> Packet], Handed(h, <<>>, pk), NEW l, IsInjective(l),
         \A p \in Packets : p \in ToSet(l) => pk[p].where = "cached",
         NEW qk, \A p \in Packets : qk[p] = IF p \in ToSet(l) THEN [pk[p] EXCEPT !.where = "held"] ELSE pk[p]
  PROVE  Handed(h, l, qk)
<1>1. \A p \in Packets : qk[p].dst = pk[p].dst /\ (p \in ToSet(l) => qk[p].where = "held") /\ (p \notin ToSet(l) => qk[p] = pk[p])
  BY DEF Packet
<1>2. \A p \in Packets : p \notin ToSet(<<>>)
  BY DEF ToSet
<1>3. \A t \in Threads : \A p \in Packets : Hand(h, t, p) => pk[p].where = "held"
  BY DEF Handed
<1>4. \A t \in Threads : \A p \in Packets : Hand(h, t, p) => p \notin ToSet(l) /\ qk[p].dst \in IPs
  BY <1>1, <1>3 DEF Handed
<1>5. \A p \in Packets : qk[p].where = "held" <=> p \in ToSet(l) \/ \E t \in Threads : Hand(h, t, p)
  BY <1>1, <1>2 DEF Handed
<1> QED
  BY <1>4, <1>5 DEF Handed

-----------------------------------------------------------------------------
(* The packets: a packet on its way out.                                    *)

\* A packet that waits nowhere, or in pkt_list only, and k, the list without it.
Free(p, k) ==
  /\ pkt[p].where # "cached"
  /\ \A u \in Threads : ~ Hand(th, u, p)
  /\ IsInjective(k)
  /\ \A x \in Packets : x \in ToSet(k) <=> x \in ToSet(sweep.list) /\ x # p

\* The part of the invariant that a packet sent out may disturb.
Out(k) ==
  /\ th' \in [Threads -> Work]
  /\ pkt' \in [Packets -> Packet]
  /\ Listed(reqs, pkt')
  /\ Handed(th', k, pkt')

\* Only where the packet is changes.
LEMMA Placed ==
  ASSUME NEW q \in Packet, NEW w \in {"new", "held", "cached", "sent", "taken", "dropped"}
  PROVE  \E r \in Packet : r = [q EXCEPT !.where = w] /\ r.where = w /\ r.dst = q.dst
<1>1. [q EXCEPT !.where = w] \in Packet
  BY DEF Packet
<1>2. [q EXCEPT !.where = w].where = w /\ [q EXCEPT !.where = w].dst = q.dst
  BY DEF Packet
<1> QED
  BY <1>1, <1>2

LEMMA LookUpKeeps ==
  ASSUME PacketInv, NEW t \in Threads, th[t] = Idle, NEW p \in Packets, NEW k, Free(p, k),
         NEW q \in Packet, q.dst \in IPs, LookUp(t, p, q)
  PROVE  Out(k)
<1>1. /\ th \in [Threads -> Work] /\ pkt \in [Packets -> Packet] /\ reqs \in Seq(Request)
      /\ Listed(reqs, pkt) /\ Handed(th, sweep.list, pkt)
  BY DEF PacketInv, TypeOK, Work, Packet, Request
<1>2. CASE Known(q.dst)
  <2>1. PICK r \in Packet : r = [q EXCEPT !.where = "sent"] /\ r.where = "sent"
    BY Placed
  <2>2. pkt' = [pkt EXCEPT ![p] = r] /\ th' = th
    BY <1>2, <2>1 DEF LookUp, Becomes
  <2>3. Listed(reqs, [pkt EXCEPT ![p] = r])
    BY <1>1, <2>1, OtherListed DEF Free
  <2>4. Handed(th, k, [pkt EXCEPT ![p] = r])
    BY <1>1, <2>1, GoneHanded DEF Free
  <2>5. [pkt EXCEPT ![p] = r] \in [Packets -> Packet]
    BY <1>1, <2>1
  <2> QED
    BY <1>1, <2>2, <2>3, <2>4, <2>5 DEF Out
<1>3. CASE ~ Known(q.dst)
  <2>1. PICK r \in Packet : r = [q EXCEPT !.where = "held"] /\ r.where = "held" /\ r.dst \in IPs
    BY Placed
  <2>2. pkt' = [pkt EXCEPT ![p] = r] /\ th' = [th EXCEPT ![t] = [pc |-> "append", id |-> p]]
    BY <1>3, <2>1 DEF LookUp, Becomes
  <2>3. Listed(reqs, [pkt EXCEPT ![p] = r])
    BY <1>1, <2>1, OtherListed DEF Free
  <2>4. Handed([th EXCEPT ![t] = [pc |-> "append", id |-> p]], k, [pkt EXCEPT ![p] = r])
    BY <1>1, <2>1, HoldHanded DEF Free
  <2>5. [pkt EXCEPT ![p] = r] \in [Packets -> Packet]
    BY <1>1, <2>1
  <2>6. [th EXCEPT ![t] = [pc |-> "append", id |-> p]] \in [Threads -> Work]
    BY <1>1 DEF Work
  <2> QED
    BY <2>2, <2>3, <2>4, <2>5, <2>6 DEF Out
<1> QED
  BY <1>2, <1>3

\* A packet that leaves the stack without the cache.
LEMMA BecomesKeeps ==
  ASSUME PacketInv, NEW p \in Packets, NEW k, Free(p, k), NEW q \in Packet,
         NEW w \in {"sent", "taken", "dropped"}, Becomes(p, q, w), UNCHANGED th
  PROVE  Out(k)
<1>1. /\ th \in [Threads -> Work] /\ pkt \in [Packets -> Packet] /\ reqs \in Seq(Request)
      /\ Listed(reqs, pkt) /\ Handed(th, sweep.list, pkt)
  BY DEF PacketInv, TypeOK, Work, Packet, Request
<1>2. PICK r \in Packet : r = [q EXCEPT !.where = w] /\ r.where = w
  <2>1. w \in {"new", "held", "cached", "sent", "taken", "dropped"}
    OBVIOUS
  <2>2. \E r \in Packet : r = [q EXCEPT !.where = w] /\ r.where = w /\ r.dst = q.dst
    BY <2>1, Placed
  <2> QED
    BY <2>2
<1>3. pkt' = [pkt EXCEPT ![p] = r] /\ th' = th
  BY <1>2 DEF Becomes
<1>4. w # "held" /\ w # "cached"
  OBVIOUS
<1>5. Listed(reqs, [pkt EXCEPT ![p] = r])
  BY <1>1, <1>2, <1>4, OtherListed DEF Free
<1>6. Handed(th, k, [pkt EXCEPT ![p] = r])
  BY <1>1, <1>2, <1>4, GoneHanded DEF Free
<1>7. [pkt EXCEPT ![p] = r] \in [Packets -> Packet]
  BY <1>1, <1>2
<1> QED
  BY <1>1, <1>3, <1>5, <1>6, <1>7 DEF Out

LEMMA IpSendKeeps ==
  ASSUME PacketInv, NEW t \in Threads, th[t] = Idle, NEW p \in Packets, NEW k, Free(p, k),
         NEW q \in Packet, IpSend(t, p, q)
  PROVE  Out(k)
<1>1. q.dst \in IPs \/ ~ Routed(q.dst)
  BY DEF Routed, Packet, Addrs
<1>2. CASE Routed(q.dst)
  BY <1>1, <1>2, LookUpKeeps DEF IpSend
<1>3. CASE ~ Routed(q.dst)
  BY <1>3, BecomesKeeps DEF IpSend
<1> QED
  BY <1>2, <1>3

\* The answer to a packet is one.
LEMMA IcmpType ==
  ASSUME PacketInv, NEW p \in Packets
  PROVE  pkt[p] \in Packet /\ Icmp(pkt[p]) \in Packet
<1>1. pkt[p] \in Packet
  BY DEF PacketInv, TypeOK, Packet
<1>2. Self \in Addrs
  BY DEF Addrs, IPs
<1> QED
  BY <1>1, <1>2 DEF Icmp, Packet

\* With the list as it is, or with its first packet taken.
LEMMA OutKeeps ==
  ASSUME PacketInv, UNCHANGED <<prompt, entries, corrupt, reqs, late, asked>>,
         sweep' = sweep \/ (sweep.pc = "drop" /\ sweep' = [sweep EXCEPT !.list = Tail(@)] /\ sweep.list # <<>>),
         Out(sweep'.list)
  PROVE  PacketInv'
<1>1. sweep' \in [pc : {"sleep", "lock", "drop"}, list : Seq(Packets)]
  <2>1. sweep \in [pc : {"sleep", "lock", "drop"}, list : Seq(Packets)]
    BY DEF PacketInv, TypeOK
  <2>2. sweep.list # <<>> => Tail(sweep.list) \in Seq(Packets)
    BY <2>1
  <2> QED
    BY <2>1, <2>2
<1>2. sweep'.pc # "drop" => sweep'.list = <<>>
  BY DEF PacketInv, TypeOK
<1>3. TypeOK'
  BY <1>1 DEF PacketInv, TypeOK, Out, Work, Packet
<1>4. Listed(reqs', pkt')
  BY DEF Out
<1> QED
  BY <1>2, <1>3, <1>4 DEF PacketInv, Out

LEMMA TransmitKeeps ==
  ASSUME PacketInv, NEW p \in Packets, Transmit(p)
  PROVE  PacketInv'
<1>1. pkt[p].where = "new" /\ UNCHANGED <<prompt, entries, corrupt, reqs, sweep, late, asked>>
  BY DEF Transmit, Send, HandleLocal, Forward, Arrives
<1>2. Free(p, sweep.list)
  <2>1. Handed(th, sweep.list, pkt)
    BY DEF PacketInv
  <2>2. p \notin ToSet(sweep.list) /\ \A u \in Threads : ~ Hand(th, u, p)
    BY <1>1, <2>1 DEF Handed
  <2>3. IsInjective(sweep.list)
    BY <2>1 DEF Handed
  <2> QED
    BY <1>1, <2>2, <2>3 DEF Free
<1>3. pkt[p] \in Packet /\ Icmp(pkt[p]) \in Packet
  BY IcmpType
<1>4. "rx" \in Threads /\ "app" \in Threads
  BY DEF Threads
<1>5. Out(sweep.list)
  <2>1. CASE Send(p)
    <3>1. th["app"] = Idle /\ IpSend("app", p, pkt[p])
      BY <2>1 DEF Send
    <3> QED
      BY <1>2, <1>3, <1>4, <3>1, IpSendKeeps
  <2>2. CASE HandleLocal(p)
    <3>1. th["rx"] = Idle /\ (IpSend("rx", p, Icmp(pkt[p])) \/ (Becomes(p, pkt[p], "taken") /\ UNCHANGED th))
      BY <2>2 DEF HandleLocal, Arrives
    <3> QED
      BY <1>2, <1>3, <1>4, <3>1, IpSendKeeps, BecomesKeeps
  <2>3. CASE Forward(p)
    <3>1. th["rx"] = Idle /\ (IpSend("rx", p, Icmp(pkt[p])) \/ (Routed(pkt[p].dst) /\ LookUp("rx", p, pkt[p])))
      BY <2>3 DEF Forward, Arrives
    <3>2. Routed(pkt[p].dst) => pkt[p].dst \in IPs
      BY <1>3 DEF Routed, Packet, Addrs
    <3> QED
      BY <1>2, <1>3, <1>4, <3>1, <3>2, IpSendKeeps, LookUpKeeps
  <2> QED
    BY <2>1, <2>2, <2>3 DEF Transmit
<1> QED
  BY <1>1, <1>5, OutKeeps

LEMMA SendUnreachableKeeps ==
  ASSUME PacketInv, SendUnreachable
  PROVE  PacketInv'
<1>1. sweep.pc = "drop" /\ sweep.list # <<>> /\ sweep.list \in Seq(Packets)
  BY DEF SendUnreachable, PacketInv, TypeOK
<1>2. PICK p \in Packets, k \in Seq(Packets) : p = Head(sweep.list) /\ k = Tail(sweep.list)
  <2>1. Head(sweep.list) \in Packets /\ Tail(sweep.list) \in Seq(Packets)
    BY <1>1
  <2> QED
    BY <2>1
<1>3. PICK n \in Nat : DOMAIN sweep.list = 1 .. n + 1 /\ DOMAIN k = 1 .. n
                       /\ sweep.list[1] = p /\ \A i \in 1 .. n : k[i] = sweep.list[i + 1]
  <2>1. Len(k) \in Nat
    BY <1>2
  <2> QED
    BY <1>1, <1>2, <2>1
<1>4. IsInjective(sweep.list) /\ Handed(th, sweep.list, pkt)
  BY DEF PacketInv, Handed
<1>5. IsInjective(k)
  <2> SUFFICES ASSUME NEW i \in 1 .. n, NEW j \in 1 .. n, k[i] = k[j] PROVE i = j
    BY <1>3 DEF IsInjective
  <2>1. i + 1 \in 1 .. n + 1 /\ j + 1 \in 1 .. n + 1 /\ sweep.list[i + 1] = sweep.list[j + 1]
    BY <1>3
  <2>2. i + 1 = j + 1
    BY <1>3, <1>4, <2>1 DEF IsInjective
  <2> QED
    BY <2>2
<1>6. ASSUME NEW x \in Packets PROVE x \in ToSet(k) <=> x \in ToSet(sweep.list) /\ x # p
  <2>1. ASSUME NEW i \in 1 .. n, x = k[i] PROVE x \in ToSet(sweep.list) /\ x # p
    <3>1. i + 1 \in 1 .. n + 1 /\ 1 \in 1 .. n + 1 /\ i + 1 # 1 /\ x = sweep.list[i + 1]
      BY <1>3, <2>1
    <3> QED
      BY <1>3, <1>4, <3>1 DEF ToSet, IsInjective
  <2>2. ASSUME NEW i \in 1 .. n + 1, x = sweep.list[i], x # p PROVE x \in ToSet(k)
    <3>1. i # 1
      BY <1>3, <2>2
    <3>2. i - 1 \in 1 .. n /\ (i - 1) + 1 = i
      BY <3>1
    <3> QED
      BY <1>3, <2>2, <3>2 DEF ToSet
  <2> QED
    BY <1>3, <2>1, <2>2 DEF ToSet
<1>7. p \in ToSet(sweep.list)
  <2>1. 1 \in DOMAIN sweep.list /\ p = sweep.list[1]
    BY <1>3
  <2> QED
    BY <2>1 DEF ToSet
<1>8. pkt[p].where = "held" /\ \A u \in Threads : ~ Hand(th, u, p)
  BY <1>4, <1>7 DEF Handed
<1>9. Free(p, k)
  BY <1>5, <1>6, <1>8 DEF Free
<1>10. th["sweep"] = Idle /\ IpSend("sweep", p, Icmp(pkt[p])) /\ sweep' = [sweep EXCEPT !.list = Tail(@)]
  BY <1>2 DEF SendUnreachable
<1>11. "sweep" \in Threads /\ Icmp(pkt[p]) \in Packet
  BY IcmpType DEF Threads
<1>12. Out(k)
  BY <1>9, <1>10, <1>11, IpSendKeeps
<1>13. sweep'.list = k
  BY <1>2, <1>10 DEF PacketInv, TypeOK
<1>14. UNCHANGED <<prompt, entries, corrupt, reqs, late, asked>>
  BY DEF SendUnreachable
<1> QED
  BY <1>1, <1>10, <1>12, <1>13, <1>14, OutKeeps

-----------------------------------------------------------------------------
(* The packets: the cache.                                                  *)

\* A new request.
LEMMA NewListed ==
  ASSUME NEW rq \in Seq(Request), NEW pk \in [Packets -> Packet], Listed(rq, pk), ArpAssumption,
         NEW p \in Packets, pk[p].where # "cached", pk[p].dst \in IPs, \A k \in DOMAIN rq : rq[k].ip # pk[p].dst
  PROVE  /\ <<[ip |-> pk[p].dst, age |-> 0, retries |-> 1, pkts |-> <<p>>]>> \o rq \in Seq(Request)
         /\ Listed(<<[ip |-> pk[p].dst, age |-> 0, retries |-> 1, pkts |-> <<p>>]>> \o rq,
                   [pk EXCEPT ![p].where = "cached"])
<1> DEFINE r == [ip |-> pk[p].dst, age |-> 0, retries |-> 1, pkts |-> <<p>>]
           sq == <<r>> \o rq
           qk == [pk EXCEPT ![p].where = "cached"]
<1>1. PICK n \in Nat : Len(rq) = n /\ DOMAIN rq = 1 .. n
  BY LenProperties
<1>2. r \in Request /\ r.ip = pk[p].dst /\ r.pkts = <<p>>
  BY DEF Request, ArpAssumption
<1>3. \A x \in Packets : IF x = p THEN qk[x].where = "cached" /\ qk[x].dst = pk[x].dst ELSE qk[x] = pk[x]
  BY DEF Packet
<1> HIDE DEF r, qk
<1>4. sq \in Seq(Request)
  BY <1>2
<1>5. Joined(<<r>>, rq, 1, n)
  <2>1. <<r>> \in Seq(Request) /\ Len(<<r>>) = 1 /\ 1 \in Nat
    BY <1>2
  <2> QED
    BY <1>1, <2>1, Join
<1>6. DOMAIN sq = 1 .. n + 1 /\ sq[1] = r /\ \A i \in 1 .. n : sq[i + 1] = rq[i]
  BY <1>5 DEF Joined
<1> HIDE DEF sq
<1>0. sq[1].ip = pk[p].dst /\ sq[1].pkts = <<p>> /\ sq[1].pkts # <<>>
  <2>1. <<p>> # <<>>
    OBVIOUS
  <2> QED
    BY <1>2, <1>6, <2>1
<1>7. \A i \in 1 .. n + 1 : i = 1 \/ (i - 1 \in 1 .. n /\ sq[i] = rq[i - 1])
  <2> TAKE i \in 1 .. n + 1
  <2>1. i # 1 => i - 1 \in 1 .. n /\ (i - 1) + 1 = i
    OBVIOUS
  <2> QED
    BY <1>6, <2>1
<1>8. \A i, j \in DOMAIN sq : sq[i].ip = sq[j].ip => i = j
  <2> SUFFICES ASSUME NEW i \in 1 .. n + 1, NEW j \in 1 .. n + 1, sq[i].ip = sq[j].ip PROVE i = j
    BY <1>6
  <2>1. i = 1 \/ (i - 1 \in 1 .. n /\ sq[i] = rq[i - 1])
    BY <1>7
  <2>2. j = 1 \/ (j - 1 \in 1 .. n /\ sq[j] = rq[j - 1])
    BY <1>7
  <2>3. i # 1 /\ j # 1 => i - 1 = j - 1
    BY <1>1, <2>1, <2>2 DEF Listed
  <2> QED
    BY <1>0, <1>1, <2>1, <2>2, <2>3
<1>9. ToSet(<<p>>) = {p} /\ IsInjective(<<p>>)
  BY DEF ToSet, IsInjective
<1>10. \A i \in DOMAIN sq : sq[i].pkts # <<>> /\ IsInjective(sq[i].pkts)
  <2> SUFFICES ASSUME NEW i \in 1 .. n + 1 PROVE sq[i].pkts # <<>> /\ IsInjective(sq[i].pkts)
    BY <1>6
  <2>1. i = 1 \/ (i - 1 \in DOMAIN rq /\ sq[i] = rq[i - 1])
    BY <1>1, <1>7
  <2>2. CASE i = 1
    BY <1>0, <1>9, <2>2
  <2>3. CASE i # 1
    <3>1. rq[i - 1].pkts # <<>> /\ IsInjective(rq[i - 1].pkts)
      BY <2>1, <2>3 DEF Listed
    <3> QED
      BY <2>1, <2>3, <3>1
  <2> QED
    BY <2>2, <2>3
<1>11. ASSUME NEW i \in DOMAIN sq, NEW x \in ToSet(sq[i].pkts)
       PROVE  qk[x].where = "cached" /\ qk[x].dst = sq[i].ip
  <2>1. CASE i = 1
    BY <1>0, <1>3, <1>9, <1>11, <2>1
  <2>2. CASE i # 1
    <3>1. i - 1 \in DOMAIN rq /\ sq[i] = rq[i - 1] /\ x \in ToSet(rq[i - 1].pkts)
      BY <1>1, <1>6, <1>7, <2>2
    <3>2. x \in Packets
      BY <3>1, Requests
    <3>3. pk[x].where = "cached" /\ pk[x].dst = rq[i - 1].ip
      BY <3>1 DEF Listed
    <3> QED
      BY <1>3, <3>1, <3>2, <3>3
  <2> QED
    BY <2>1, <2>2
<1>12. ASSUME NEW x \in Packets, qk[x].where = "cached" PROVE \E i \in DOMAIN sq : x \in ToSet(sq[i].pkts)
  <2>1. CASE x = p
    <3>1. 1 \in DOMAIN sq /\ p \in ToSet(sq[1].pkts)
      BY <1>0, <1>6, <1>9
    <3> QED
      BY <2>1, <3>1
  <2>2. CASE x # p
    <3>1. PICK i \in 1 .. n : x \in ToSet(rq[i].pkts)
      BY <1>1, <1>3, <1>12, <2>2 DEF Listed
    <3>2. i + 1 \in DOMAIN sq /\ sq[i + 1] = rq[i]
      BY <1>6
    <3> QED
      BY <3>1, <3>2
  <2> QED
    BY <2>1, <2>2
<1>13. Listed(sq, qk)
  BY <1>8, <1>10, <1>11, <1>12 DEF Listed
<1> QED
  BY <1>4, <1>13 DEF sq, qk, r

LEMMA AppendKeeps ==
  ASSUME ArpAssumption, PacketInv, NEW t \in Threads, AppendPacket(t)
  PROVE  PacketInv'
<1>1. /\ th \in [Threads -> Work] /\ pkt \in [Packets -> Packet] /\ reqs \in Seq(Request)
      /\ Listed(reqs, pkt) /\ Handed(th, sweep.list, pkt)
  BY DEF PacketInv, TypeOK, Work, Packet, Request
<1>2. PICK p \in Packets : p = th[t].id /\ th[t] \in [pc : {"append", "request"}, id : Packets]
  BY <1>1 DEF AppendPacket, Work, Idle
<1>3. Hand(th, t, p)
  BY <1>2 DEF AppendPacket, Hand
<1>4. pkt[p].where = "held" /\ pkt[p].dst \in IPs
  BY <1>1, <1>3 DEF Handed
<1>5. pkt' = [pkt EXCEPT ![p].where = "cached"] /\ UNCHANGED <<prompt, entries, corrupt, sweep, late, asked>>
  BY <1>2 DEF AppendPacket
<1>6. reqs' \in Seq(Request) /\ Listed(reqs', pkt')
  <2>1. CASE Joins(pkt[p].dst)
    <3>1. PICK k \in DOMAIN reqs : reqs[k].ip = pkt[p].dst /\ reqs' = [reqs EXCEPT ![k].pkts = Append(@, p)]
      BY <1>2, <2>1 DEF AppendPacket, Pending
    <3> QED
      BY <1>1, <1>4, <1>5, <3>1, JoinListed
  <2>2. CASE ~ Joins(pkt[p].dst)
    <3>1. reqs' = <<[ip |-> pkt[p].dst, age |-> 0, retries |-> 1, pkts |-> <<p>>]>> \o reqs
      BY <1>2, <2>2 DEF AppendPacket
    <3>2. \A k \in DOMAIN reqs : reqs[k].ip # pkt[p].dst
      BY <2>2 DEF Joins, Pending
    <3> QED
      BY <1>1, <1>4, <1>5, <3>1, <3>2, NewListed
  <2> QED
    BY <2>1, <2>2
<1>7. PICK w \in Work : w.pc # "append" /\ th' = [th EXCEPT ![t] = w]
  <2>1. Idle \in Work /\ Idle.pc # "append"
    BY DEF Work, Idle
  <2>2. [th[t] EXCEPT !.pc = "request"] \in Work /\ [th[t] EXCEPT !.pc = "request"].pc # "append"
    BY <1>2 DEF Work
  <2>3. th' = [th EXCEPT ![t] = Idle] \/ th' = [th EXCEPT ![t] = [th[t] EXCEPT !.pc = "request"]]
    BY <1>1, <1>2 DEF AppendPacket
  <2> QED
    BY <2>1, <2>2, <2>3
<1>8. Handed(th', sweep.list, pkt')
  BY <1>1, <1>3, <1>5, <1>7, LetGoHanded
<1>9. th' \in [Threads -> Work]
  BY <1>1, <1>7
<1>10. pkt' \in [Packets -> Packet]
  BY <1>1, <1>5 DEF Packet
<1>11. TypeOK'
  BY <1>5, <1>6, <1>9, <1>10 DEF PacketInv, TypeOK, Work, Packet, Request
<1> QED
  BY <1>5, <1>6, <1>8, <1>11 DEF PacketInv

LEMMA SendRequestKeeps ==
  ASSUME PacketInv, NEW t \in Threads, SendRequest(t)
  PROVE  PacketInv'
<1>1. /\ th \in [Threads -> Work] /\ Handed(th, sweep.list, pkt)
  BY DEF PacketInv, TypeOK, Work
<1>2. th' = [th EXCEPT ![t] = Idle] /\ UNCHANGED <<prompt, entries, corrupt, reqs, pkt, sweep, late>>
  BY DEF SendRequest
<1>3. \A u \in Threads : \A p \in Packets : Hand(th', u, p) <=> Hand(th, u, p)
  BY <1>1, <1>2 DEF Hand, Idle, SendRequest
<1>4. Handed(th', sweep.list, pkt)
  BY <1>1, <1>3, AlikeHanded
<1>5. th' \in [Threads -> Work]
  BY <1>1, <1>2 DEF Work
<1>6. asked' \subseteq Alive
  BY DEF SendRequest, Requested, PacketInv, TypeOK
<1>7. TypeOK'
  BY <1>2, <1>5, <1>6 DEF PacketInv, TypeOK, Work
<1> QED
  BY <1>2, <1>4, <1>7 DEF PacketInv

Slot == [ip : IPs \cup {NoAddr}, age : 0 .. EntryTimeout + 1]

\* arpcache_insert sends the packets of one request and removes it.
LEMMA InsertPackets ==
  ASSUME ArpAssumption, PacketInv, NEW ip \in Alive, Insert(ip)
  PROVE  /\ entries' \in [Slots -> Slot] /\ corrupt' \in BOOLEAN
         /\ reqs' \in Seq(Request) /\ pkt' \in [Packets -> Packet]
         /\ Listed(reqs', pkt') /\ Handed(th, sweep.list, pkt')
         /\ \A k \in DOMAIN reqs' : reqs'[k].ip # ip /\ \E i \in DOMAIN reqs : reqs'[k] = reqs[i]
<1>1. /\ entries \in [Slots -> Slot] /\ corrupt \in BOOLEAN /\ pkt \in [Packets -> Packet] /\ reqs \in Seq(Request)
      /\ Listed(reqs, pkt) /\ Handed(th, sweep.list, pkt)
  BY DEF PacketInv, TypeOK, Slot, Packet, Request
<1>2. entries' \in [Slots -> Slot]
  <2>1. Entry(ip) \in Slot
    BY DEF Entry, Slot, IPs, ArpAssumption
  <2>2. \A e \in Stored(ip) : e \in [Slots -> Slot]
    BY <1>1, <2>1 DEF Stored
  <2> QED
    BY <2>2 DEF Insert
<1>3. corrupt' \in BOOLEAN
  BY <1>1 DEF Insert
<1>4. CASE Answered(ip) = {}
  <2>1. UNCHANGED <<reqs, pkt>>
    BY <1>4 DEF Insert
  <2>2. \A k \in DOMAIN reqs : reqs[k].ip # ip
    BY <1>4 DEF Answered, Pending
  <2> QED
    BY <1>1, <1>2, <1>3, <2>1, <2>2
<1>5. CASE Answered(ip) # {}
  <2>1. PICK n \in Nat : n = Len(reqs) /\ DOMAIN reqs = 1 .. n
    BY <1>1
  <2>2. PICK i \in 1 .. n : /\ reqs[i].ip = ip /\ reqs' = RemoveAt(reqs, i)
                            /\ pkt' = [p \in Packets |-> IF p \in ToSet(reqs[i].pkts)
                                         THEN [pkt[p] EXCEPT !.where = "sent"] ELSE pkt[p]]
    <3>1. Answered(ip) \in SUBSET (1 .. n) /\ \A k \in Answered(ip) : reqs[k].ip = ip
      BY <2>1 DEF Answered, Pending
    <3>2. \E j \in Answered(ip) : \A k \in Answered(ip) : j <= k
      BY <1>5, <3>1, LeastOf
    <3> QED
      BY <1>5, <3>1, <3>2 DEF Insert
  <2>3. /\ reqs' \in Seq(Request) /\ DOMAIN reqs' = 1 .. n - 1
        /\ \A k \in 1 .. n - 1 : reqs'[k] = IF k < i THEN reqs[k] ELSE reqs[k + 1]
    <3>1. RemoveAt(reqs, i) \in Seq(Request) /\ LeftOut(RemoveAt(reqs, i), reqs, i, n)
      <4>1. reqs \in Seq(Request) /\ n \in Nat /\ n = Len(reqs) /\ i \in 1 .. n
        BY <1>1, <2>1
      <4> QED
        BY <4>1, Removed
    <3> QED
      BY <2>2, <3>1 DEF LeftOut
  <2>4. \A p \in Packets : IF p \in ToSet(reqs[i].pkts) THEN pkt'[p] = [pkt[p] EXCEPT !.where = "sent"]
                                                        ELSE pkt'[p] = pkt[p]
    BY <2>2
  <2>5. pkt' \in [Packets -> Packet]
    BY <1>1, <2>2 DEF Packet
  <2>6. \A p \in Packets : p \in ToSet(reqs[i].pkts) => pkt[p].where = "cached" /\ pkt'[p].where = "sent"
    BY <1>1, <2>1, <2>4 DEF Listed, Packet
  <2>7. Listed(reqs', pkt')
    <3> DEFINE pos == [k \in 1 .. n - 1 |-> IF k < i THEN k ELSE k + 1]
    <3>1. \A k \in DOMAIN reqs' : /\ pos[k] \in DOMAIN reqs /\ pos[k] # i
                                  /\ reqs'[k].ip = reqs[pos[k]].ip /\ reqs'[k].pkts = reqs[pos[k]].pkts
      BY <2>1, <2>3
    <3>2. \A j, k \in DOMAIN reqs' : pos[j] = pos[k] => j = k
      BY <2>3
    <3>3. ASSUME NEW k \in 1 .. n, k # i PROVE \E j \in DOMAIN reqs' : pos[j] = k
      <4>1. CASE k < i
        <5>1. k \in 1 .. n - 1 /\ pos[k] = k
          BY <4>1
        <5> QED
          BY <2>3, <5>1
      <4>2. CASE k > i
        <5>1. k - 1 \in 1 .. n - 1 /\ pos[k - 1] = k
          BY <4>2
        <5> QED
          BY <2>3, <5>1
      <4> QED
        <5>1. k < i \/ k > i
          BY <3>3
        <5> QED
          BY <4>1, <4>2, <5>1, Zenon
    <3> HIDE DEF pos
    <3>4. Rest(reqs', reqs, pos)
      BY <3>1, <3>2 DEF Rest
    <3>5. \A p \in Packets : Freed(reqs', reqs, pos, p) <=> p \in ToSet(reqs[i].pkts)
      BY <2>1, <3>1, <3>3 DEF Freed
    <3> QED
      <4>1. \A p \in Packets : Freed(reqs', reqs, pos, p) => pkt'[p].where # "cached"
        BY <2>6, <3>5
      <4>2. \A p \in Packets : ~ Freed(reqs', reqs, pos, p) => pkt'[p] = pkt[p]
        BY <2>4, <3>5
      <4> QED
        BY <1>1, <3>4, <4>1, <4>2, RestListed
  <2>8. \A p \in Packets : /\ pkt'[p].where = "held" <=> pkt[p].where = "held"
                           /\ pkt'[p].dst = pkt[p].dst
    BY <1>1, <2>4, <2>6 DEF Packet
  <2>9. Handed(th, sweep.list, pkt')
    BY <1>1, <2>8, AlikeHanded
  <2>10. ASSUME NEW k \in DOMAIN reqs'
         PROVE  reqs'[k].ip # ip /\ \E j \in DOMAIN reqs : reqs'[k] = reqs[j]
    <3>1. PICK j \in DOMAIN reqs : j # i /\ reqs'[k] = reqs[j]
      <4>1. k \in DOMAIN reqs /\ k + 1 \in DOMAIN reqs /\ k \in 1 .. n - 1
        BY <2>1, <2>3
      <4> QED
        BY <2>3, <4>1
    <3>2. reqs[j].ip # ip
      BY <1>1, <2>1, <2>2, <3>1 DEF Listed
    <3> QED
      BY <3>1, <3>2
  <2> QED
    BY <1>2, <1>3, <2>3, <2>5, <2>7, <2>9, <2>10
<1> QED
  BY <1>4, <1>5

LEMMA HandleKeeps ==
  ASSUME ArpAssumption, PacketInv, NEW ip \in IPs, HandleReply(ip) \/ HandleRequest(ip)
  PROVE  PacketInv'
<1>1. ip \in Alive /\ Insert(ip) /\ asked' \subseteq Alive /\ UNCHANGED <<prompt, th, sweep, late>>
  BY DEF HandleReply, HandleRequest, PacketInv, TypeOK
<1>2. /\ entries' \in [Slots -> Slot] /\ corrupt' \in BOOLEAN
      /\ reqs' \in Seq(Request) /\ pkt' \in [Packets -> Packet]
      /\ Listed(reqs', pkt') /\ Handed(th, sweep.list, pkt')
  BY <1>1, InsertPackets
<1>3. TypeOK'
  BY <1>1, <1>2 DEF PacketInv, TypeOK, Slot, Packet, Request
<1> QED
  BY <1>1, <1>2, <1>3 DEF PacketInv

-----------------------------------------------------------------------------
(* The packets: the sweep.                                                  *)

\* Time changes no packet.
LEMMA OlderPackets ==
  ASSUME ArpAssumption, PacketInv, Older
  PROVE  /\ entries' \in [Slots -> Slot] /\ reqs' \in Seq(Request) /\ Listed(reqs', pkt)
         /\ DOMAIN reqs' = DOMAIN reqs
         /\ \A i \in DOMAIN reqs : reqs'[i].ip = reqs[i].ip /\ reqs'[i].retries = reqs[i].retries
<1>1. entries \in [Slots -> Slot] /\ reqs \in Seq(Request) /\ Listed(reqs, pkt)
  BY DEF PacketInv, TypeOK, Slot, Request
<1>2. PICK n \in Nat : DOMAIN reqs = 1 .. n /\ reqs \in [1 .. n -> Request]
  BY <1>1
<1>3. \A a \in 0 .. EntryTimeout + 1 : Upto(EntryTimeout + 1, a) \in 0 .. EntryTimeout + 1
  BY DEF Upto, ArpAssumption
<1>4. entries' \in [Slots -> Slot]
  BY <1>1, <1>3 DEF Older, Slot
<1>5. reqs' = [i \in 1 .. n |-> [reqs[i] EXCEPT !.age = Upto(2, @)]]
  BY <1>2 DEF Older
<1>6. ASSUME NEW i \in 1 .. n
      PROVE  /\ reqs'[i] \in Request /\ reqs'[i].ip = reqs[i].ip /\ reqs'[i].pkts = reqs[i].pkts
             /\ reqs'[i].retries = reqs[i].retries
  <2>1. reqs[i] \in Request
    BY <1>2
  <2>2. Upto(2, reqs[i].age) \in 0 .. 2
    BY <2>1 DEF Upto, Request
  <2> QED
    BY <1>5, <2>1, <2>2 DEF Request
<1>7. reqs' \in [1 .. n -> Request]
  BY <1>5, <1>6
<1>8. Listed(reqs', pkt)
  <2>1. /\ DOMAIN reqs' = DOMAIN reqs
        /\ \A i \in DOMAIN reqs : reqs'[i].ip = reqs[i].ip /\ reqs'[i].pkts = reqs[i].pkts
    BY <1>2, <1>5, <1>6
  <2> QED
    BY <1>1, <2>1, AlikeListed
<1>9. reqs' \in Seq(Request)
  BY <1>7
<1>10. DOMAIN reqs' = DOMAIN reqs
  BY <1>2, <1>5
<1> QED
  BY <1>2, <1>4, <1>6, <1>8, <1>9, <1>10

LEMMA TimeKeeps ==
  ASSUME ArpAssumption, PacketInv, Wakes \/ SecondPasses
  PROVE  PacketInv'
<1>1. Older /\ UNCHANGED <<prompt, corrupt, pkt, th, asked>> /\ late' \in {0, 1}
  BY DEF Wakes, SecondPasses, PacketInv, TypeOK
<1>2. sweep' = sweep \/ (sweep.pc = "sleep" /\ sweep' = [sweep EXCEPT !.pc = "lock"])
  BY DEF Wakes, SecondPasses
<1>3. /\ sweep' \in [pc : {"sleep", "lock", "drop"}, list : Seq(Packets)]
      /\ sweep'.list = sweep.list /\ (sweep'.pc # "drop" => sweep'.list = <<>>)
  BY <1>2 DEF PacketInv, TypeOK
<1>4. entries' \in [Slots -> Slot] /\ reqs' \in Seq(Request) /\ Listed(reqs', pkt)
  BY <1>1, OlderPackets
<1>5. TypeOK'
  BY <1>1, <1>3, <1>4 DEF PacketInv, TypeOK, Slot, Request
<1> QED
  BY <1>1, <1>3, <1>4, <1>5 DEF PacketInv

LEMMA SleepsKeeps ==
  ASSUME PacketInv, SweepSleeps
  PROVE  PacketInv'
<1>1. /\ sweep' \in [pc : {"sleep", "lock", "drop"}, list : Seq(Packets)]
      /\ sweep'.list = sweep.list /\ sweep'.list = <<>>
  BY DEF SweepSleeps, PacketInv, TypeOK
<1>2. UNCHANGED <<prompt, entries, corrupt, reqs, pkt, th, asked>> /\ late' = 0
  BY DEF SweepSleeps
<1>3. TypeOK'
  BY <1>1, <1>2 DEF PacketInv, TypeOK
<1> QED
  BY <1>1, <1>2, <1>3 DEF PacketInv

\* What the pass leaves in req_list: every request but those given up, the due ones
\* with one more retry.
Left(pos) ==
  /\ Rest(reqs', reqs, pos)
  /\ \A i \in DOMAIN reqs' : ~ GivenUp(reqs[pos[i]])
  /\ \A i \in DOMAIN reqs' : reqs'[i].retries = IF Resent(reqs[pos[i]]) THEN reqs[pos[i]].retries + 1
                                                                    ELSE reqs[pos[i]].retries
  /\ \A k \in DOMAIN reqs : ~ GivenUp(reqs[k]) => \E i \in DOMAIN reqs' : pos[i] = k

LEMMA SweepRequests ==
  ASSUME ArpAssumption, PacketInv, SweepPass
  PROVE  reqs' \in Seq(Request) /\ \E pos : Left(pos)
<1> DEFINE t == [i \in DOMAIN reqs |-> Remaining(reqs[i])]
<1>1. PICK n \in Nat : DOMAIN reqs = 1 .. n /\ reqs \in [1 .. n -> Request]
  <2>1. reqs \in Seq(Request)
    BY DEF PacketInv, TypeOK, Request
  <2> QED
    BY <2>1
<1>2. ASSUME NEW i \in 1 .. n
      PROVE  IF GivenUp(reqs[i]) THEN t[i] = <<>>
             ELSE /\ t[i] \in Seq(Request) /\ DOMAIN t[i] = {1}
                  /\ t[i][1].ip = reqs[i].ip /\ t[i][1].pkts = reqs[i].pkts
                  /\ t[i][1].retries = IF Resent(reqs[i]) THEN reqs[i].retries + 1 ELSE reqs[i].retries
  <2>1. reqs[i] \in Request /\ t[i] = Remaining(reqs[i])
    BY <1>1
  <2>2. Resent(reqs[i]) => reqs[i].retries + 1 \in 1 .. MaxRetries
    BY <2>1 DEF Resent, CanRetry, Request, ArpAssumption
  <2>3. CASE GivenUp(reqs[i])
    BY <2>1, <2>3 DEF Remaining
  <2>4. CASE ~ GivenUp(reqs[i]) /\ Resent(reqs[i])
    <3>1. PICK x \in Request : /\ x = [reqs[i] EXCEPT !.retries = @ + 1]
                               /\ x.ip = reqs[i].ip /\ x.pkts = reqs[i].pkts /\ x.retries = reqs[i].retries + 1
      <4>1. [reqs[i] EXCEPT !.retries = @ + 1] \in Request
        BY <2>1, <2>2, <2>4 DEF Request
      <4> QED
        BY <2>1, <4>1 DEF Request
    <3>2. t[i] = <<x>>
      BY <2>1, <2>4, <3>1 DEF Remaining
    <3> HIDE DEF t
    <3>3. <<x>> \in Seq(Request) /\ DOMAIN <<x>> = {1} /\ <<x>>[1] = x
      BY <3>1, Single
    <3>4. t[i] \in Seq(Request) /\ DOMAIN t[i] = {1} /\ t[i][1] = x
      BY <3>2, <3>3
    <3> QED
      BY <2>4, <3>1, <3>4
  <2>5. CASE ~ GivenUp(reqs[i]) /\ ~ Resent(reqs[i])
    <3>1. t[i] = <<reqs[i]>>
      BY <2>1, <2>5 DEF Remaining
    <3> HIDE DEF t
    <3>2. <<reqs[i]>> \in Seq(Request) /\ DOMAIN <<reqs[i]>> = {1} /\ <<reqs[i]>>[1] = reqs[i]
      BY <2>1, Single
    <3>3. t[i] \in Seq(Request) /\ DOMAIN t[i] = {1} /\ t[i][1] = reqs[i]
      BY <3>1, <3>2
    <3> QED
      BY <2>5, <3>3
  <2> QED
    BY <2>3, <2>4, <2>5
<1>3. t \in Seq(Seq(Request)) /\ DOMAIN t = 1 .. n
  <2>1. ASSUME NEW i \in 1 .. n PROVE t[i] \in Seq(Request)
    <3>1. <<>> \in Seq(Request)
      OBVIOUS
    <3> HIDE DEF t
    <3> QED
      BY <1>2, <3>1
  <2>2. DOMAIN t = 1 .. n
    BY <1>1
  <2>3. t \in [1 .. n -> Seq(Request)]
    BY <1>1, <2>1
  <2> QED
    BY <2>2, <2>3
<1>4. reqs' = FlattenSeq(t)
  BY DEF SweepPass
<1> HIDE DEF t
<1>5. reqs' \in Seq(Request)
  BY <1>3, <1>4, FlattenType
<1>6. PICK row, col : Lists(reqs', t, row, col)
  BY <1>3, <1>4, FlattenLists
<1>7. \A i \in DOMAIN reqs' : /\ row[i] \in 1 .. n /\ ~ GivenUp(reqs[row[i]])
                              /\ col[i] = 1 /\ reqs'[i] = t[row[i]][1]
  <2> TAKE i \in DOMAIN reqs'
  <2>1. row[i] \in 1 .. n /\ col[i] \in DOMAIN t[row[i]] /\ reqs'[i] = t[row[i]][col[i]]
    BY <1>3, <1>6 DEF Lists
  <2>2. ~ GivenUp(reqs[row[i]])
    BY <1>2, <2>1
  <2> QED
    BY <1>2, <2>1, <2>2
<1>8. \A i, j \in DOMAIN reqs' : row[i] = row[j] => i = j
  BY <1>6, <1>7 DEF Lists
<1>9. Rest(reqs', reqs, row)
  BY <1>1, <1>2, <1>7, <1>8 DEF Rest
<1>10. ASSUME NEW k \in DOMAIN reqs, ~ GivenUp(reqs[k]) PROVE \E i \in DOMAIN reqs' : row[i] = k
  <2>1. k \in DOMAIN t /\ 1 \in DOMAIN t[k]
    BY <1>1, <1>2, <1>3, <1>10
  <2> QED
    BY <1>6, <2>1, Zenon DEF Lists
<1>11. \A i \in DOMAIN reqs' : reqs'[i].retries = IF Resent(reqs[row[i]]) THEN reqs[row[i]].retries + 1
                                                                     ELSE reqs[row[i]].retries
  BY <1>2, <1>7
<1>12. Left(row)
  BY <1>7, <1>9, <1>10, <1>11 DEF Left
<1> QED
  BY <1>5, <1>12

\* And what it moves to pkt_list: the packets of those given up, each once.
LEMMA SweepList ==
  ASSUME ArpAssumption, PacketInv,
         NEW l, l = FlattenSeq([i \in DOMAIN reqs |-> Moved(reqs[i])])
  PROVE  /\ l \in Seq(Packets) /\ IsInjective(l)
         /\ \A p \in Packets : p \in ToSet(l) <=> \E k \in DOMAIN reqs : GivenUp(reqs[k]) /\ p \in ToSet(reqs[k].pkts)
<1> DEFINE u == [i \in DOMAIN reqs |-> Moved(reqs[i])]
<1>1. PICK n \in Nat : DOMAIN reqs = 1 .. n /\ reqs \in [1 .. n -> Request]
  <2>1. reqs \in Seq(Request)
    BY DEF PacketInv, TypeOK, Request
  <2> QED
    BY <2>1
<1>2. \A i \in 1 .. n : u[i] \in Seq(Packets) /\ u[i] = IF GivenUp(reqs[i]) THEN reqs[i].pkts ELSE <<>>
  BY <1>1 DEF Moved, Request
<1>3. u \in Seq(Seq(Packets)) /\ DOMAIN u = 1 .. n
  <2>1. DOMAIN u = 1 .. n
    BY <1>1
  <2>2. u \in [1 .. n -> Seq(Packets)]
    BY <1>1, <1>2
  <2> QED
    BY <2>1, <2>2
<1>4. l = FlattenSeq(u)
  OBVIOUS
<1> HIDE DEF u
<1>5. l \in Seq(Packets)
  BY <1>3, <1>4, FlattenType
<1>6. \A p : p \in ToSet(l) <=> \E k \in DOMAIN u : p \in ToSet(u[k])
  BY <1>3, <1>4, FlattenHas
<1>7. \A k \in 1 .. n : \A p : p \in ToSet(u[k]) <=> GivenUp(reqs[k]) /\ p \in ToSet(reqs[k].pkts)
  BY <1>2 DEF ToSet
<1>8. Listed(reqs, pkt)
  BY DEF PacketInv
<1>9. ASSUME NEW j \in DOMAIN u, NEW k \in DOMAIN u, NEW a \in DOMAIN u[j], NEW b \in DOMAIN u[k], u[j][a] = u[k][b]
      PROVE  j = k /\ a = b
  <2>1. u[j][a] \in ToSet(u[j]) /\ u[k][b] \in ToSet(u[k])
    BY DEF ToSet
  <2>2. u[j][a] \in ToSet(reqs[j].pkts) /\ u[k][b] \in ToSet(reqs[k].pkts) /\ GivenUp(reqs[j])
    BY <1>3, <1>7, <2>1
  <2>3. pkt[u[j][a]].dst = reqs[j].ip /\ pkt[u[k][b]].dst = reqs[k].ip
    BY <1>1, <1>3, <1>8, <2>2 DEF Listed
  <2>4. j = k
    BY <1>1, <1>3, <1>8, <1>9, <2>3 DEF Listed
  <2>5. u[j] = reqs[j].pkts /\ IsInjective(reqs[j].pkts)
    BY <1>1, <1>2, <1>3, <1>8, <2>2 DEF Listed
  <2> QED
    BY <1>9, <2>4, <2>5 DEF IsInjective
<1>10. IsInjective(l)
  <2>1. OnceEach(u)
    BY <1>9 DEF OnceEach
  <2> QED
    BY <1>3, <1>4, <2>1, FlattenInjective
<1> QED
  BY <1>1, <1>3, <1>5, <1>6, <1>7, <1>10

LEMMA SweepPassKeeps ==
  ASSUME ArpAssumption, PacketInv, SweepPass
  PROVE  PacketInv'
<1>1. /\ th \in [Threads -> Work] /\ pkt \in [Packets -> Packet] /\ reqs \in Seq(Request)
      /\ entries \in [Slots -> Slot] /\ Listed(reqs, pkt) /\ Handed(th, <<>>, pkt)
  BY DEF PacketInv, TypeOK, Work, Packet, Request, Slot, SweepPass
<1>2. PICK l : /\ l = FlattenSeq([i \in DOMAIN reqs |-> Moved(reqs[i])])
               /\ pkt' = [p \in Packets |-> IF p \in ToSet(l) THEN [pkt[p] EXCEPT !.where = "held"] ELSE pkt[p]]
               /\ sweep' = [pc |-> "drop", list |-> l]
  BY DEF SweepPass
<1>3. /\ l \in Seq(Packets) /\ IsInjective(l)
      /\ \A p \in Packets : p \in ToSet(l) <=> \E k \in DOMAIN reqs : GivenUp(reqs[k]) /\ p \in ToSet(reqs[k].pkts)
  BY <1>2, SweepList
<1>4. PICK pos : reqs' \in Seq(Request) /\ Left(pos)
  BY SweepRequests
<1>5. \A p \in Packets : pkt'[p] = IF p \in ToSet(l) THEN [pkt[p] EXCEPT !.where = "held"] ELSE pkt[p]
  BY <1>2
<1>6. \A p \in Packets : p \in ToSet(l) => pkt[p].where = "cached"
  BY <1>1, <1>3 DEF Listed
<1>7. Handed(th, l, pkt')
  BY <1>1, <1>3, <1>5, <1>6, ListHanded
<1>8. \A p \in Packets : Freed(reqs', reqs, pos, p) <=> p \in ToSet(l)
  <2>1. \A k \in DOMAIN reqs : GivenUp(reqs[k]) <=> \A i \in DOMAIN reqs' : pos[i] # k
    BY <1>4 DEF Left, Rest
  <2> QED
    BY <1>3, <2>1 DEF Freed
<1>9. Listed(reqs', pkt')
  <2>1. \A p \in Packets : Freed(reqs', reqs, pos, p) => pkt'[p].where # "cached"
    BY <1>1, <1>5, <1>8 DEF Packet
  <2>2. \A p \in Packets : ~ Freed(reqs', reqs, pos, p) => pkt'[p] = pkt[p]
    BY <1>5, <1>8
  <2> QED
    BY <1>1, <1>4, <2>1, <2>2, RestListed DEF Left
<1>10. pkt' \in [Packets -> Packet]
  BY <1>1, <1>2 DEF Packet
<1>11. entries' \in [Slots -> Slot]
  <2>1. [ip |-> NoAddr, age |-> 0] \in Slot
    BY DEF Slot, ArpAssumption
  <2> QED
    BY <1>1, <2>1 DEF SweepPass
<1>12. sweep' \in [pc : {"sleep", "lock", "drop"}, list : Seq(Packets)]
  BY <1>2, <1>3
<1>13. asked' \subseteq Alive /\ UNCHANGED <<prompt, corrupt, th, late>>
  BY DEF SweepPass, Requested, PacketInv, TypeOK
<1>14. TypeOK'
  BY <1>4, <1>10, <1>11, <1>12, <1>13 DEF PacketInv, TypeOK, Slot, Packet, Request
<1>15. sweep'.list = l /\ sweep'.pc = "drop"
  BY <1>2
<1> QED
  BY <1>7, <1>9, <1>13, <1>14, <1>15 DEF PacketInv

-----------------------------------------------------------------------------
(* The packets: every step.                                                 *)

LEMMA InitPackets == ASSUME ArpAssumption, Init PROVE PacketInv
<1>1. PICK f \in Traffic : pkt = [p \in Packets |-> [src |-> f[p].src, dst |-> f[p].dst, where |-> "new"]]
  BY DEF Init
<1>2. pkt \in [Packets -> Packet] /\ \A p \in Packets : pkt[p].where = "new"
  BY <1>1 DEF Packet, ArpAssumption
<1>3. /\ reqs = <<>> /\ th = [t \in Threads |-> Idle] /\ sweep = [pc |-> "sleep", list |-> <<>>]
      /\ prompt \in BOOLEAN /\ entries = [i \in Slots |-> [ip |-> NoAddr, age |-> 0]]
      /\ corrupt = FALSE /\ late = 0 /\ asked = {}
  BY DEF Init
<1>4. Listed(reqs, pkt)
  BY <1>2, <1>3 DEF Listed
<1>5. \A t \in Threads : \A p \in Packets : ~ Hand(th, t, p)
  BY <1>3 DEF Hand, Idle
<1>6. sweep.list = <<>> /\ IsInjective(<<>>) /\ \A p : p \notin ToSet(<<>>)
  BY <1>3 DEF IsInjective, ToSet
<1>7. Handed(th, sweep.list, pkt)
  BY <1>2, <1>5, <1>6 DEF Handed
<1>8. entries \in [Slots -> Slot] /\ th \in [Threads -> Work]
  BY <1>3 DEF Slot, Work, ArpAssumption
<1>9. reqs \in Seq(Request) /\ sweep \in [pc : {"sleep", "lock", "drop"}, list : Seq(Packets)]
  BY <1>3
<1>10. TypeOK
  BY <1>2, <1>3, <1>8, <1>9 DEF TypeOK, Slot, Work, Packet, Request
<1> QED
  BY <1>4, <1>6, <1>7, <1>10 DEF PacketInv

LEMMA NextPackets == ASSUME ArpAssumption, PacketInv, [Next]_vars PROVE PacketInv'
<1>1. CASE \E p \in Packets : Transmit(p)
  BY <1>1, TransmitKeeps
<1>2. CASE \E t \in Threads : SenderStep(t)
  BY <1>2, AppendKeeps, SendRequestKeeps DEF SenderStep
<1>3. CASE \E ip \in IPs : HandleReply(ip) \/ HandleRequest(ip)
  BY <1>3, HandleKeeps
<1>4. ASSUME NEW ip \in IPs, Unanswered(ip)
      PROVE  PacketInv'
  <2>1. UNCHANGED <<prompt, entries, corrupt, reqs, pkt, th, sweep, late>> /\ asked' \subseteq Alive
    BY <1>4 DEF Unanswered, PacketInv, TypeOK
  <2>2. TypeOK'
    BY <2>1 DEF PacketInv, TypeOK
  <2> QED
    BY <2>1, <2>2 DEF PacketInv
<1>5. CASE Wakes \/ SecondPasses
  BY <1>5, TimeKeeps
<1>6. CASE SweepPass
  BY <1>6, SweepPassKeeps
<1>7. CASE SendUnreachable
  BY <1>7, SendUnreachableKeeps
<1>8. CASE SweepSleeps
  BY <1>8, SleepsKeeps
<1>9. CASE UNCHANGED vars
  <2>1. UNCHANGED <<prompt, entries, corrupt, reqs, pkt, th, sweep, late, asked>>
    BY <1>9 DEF vars
  <2>2. TypeOK'
    BY <2>1 DEF PacketInv, TypeOK
  <2> QED
    BY <2>1, <2>2 DEF PacketInv
<1> QED
  BY <1>1, <1>2, <1>3, <1>4, <1>5, <1>6, <1>7, <1>8, <1>9 DEF Next, SweepStep

\* The invariant says where every packet waits.
LEMMA WaitsOnce == ASSUME PacketInv PROVE EachPacketOnce
<1>1. /\ reqs \in Seq(Request) /\ Listed(reqs, pkt) /\ Handed(th, sweep.list, pkt)
  BY DEF PacketInv, TypeOK, Request
<1>2. \A i, j \in DOMAIN reqs : reqs[i].ip = reqs[j].ip => i = j
  BY <1>1 DEF Listed
<1>3. ASSUME NEW r \in ToSet(reqs)
      PROVE  /\ r.pkts # <<>> /\ IsInjective(r.pkts)
             /\ \A p \in ToSet(r.pkts) : pkt[p].where = "cached" /\ pkt[p].dst = r.ip
  <2>1. PICK i \in DOMAIN reqs : r = reqs[i]
    BY DEF ToSet
  <2> QED
    BY <1>1, <2>1 DEF Listed
<1>4. ASSUME NEW p \in Packets, pkt[p].where = "cached" PROVE \E r \in ToSet(reqs) : Holds(r, p)
  <2>1. PICK i \in DOMAIN reqs : p \in ToSet(reqs[i].pkts)
    BY <1>1, <1>4 DEF Listed
  <2>2. reqs[i] \in ToSet(reqs)
    BY DEF ToSet
  <2> QED
    BY <2>1, <2>2 DEF Holds
<1>5. ASSUME NEW p \in Packets
      PROVE  pkt[p].where = "held" <=> {t \in Threads : th[t].pc = "append" /\ th[t].id = p} # {} \/ p \in ToSet(sweep.list)
  BY <1>1 DEF Handed, Hand
<1> QED
  BY <1>2, <1>3, <1>4, <1>5 DEF EachPacketOnce

-----------------------------------------------------------------------------
(* A packet never waits twice, nor in vain.                                 *)

\* What every variable holds, whatever packets come, whoever answers them and
\* however the three threads interleave.
THEOREM TypeCorrect == ASSUME ArpAssumption PROVE Spec => []TypeOK
<1>1. Init => PacketInv
  BY InitPackets
<1>2. PacketInv /\ [Next]_vars => PacketInv'
  BY NextPackets
<1>3. PacketInv => TypeOK
  BY DEF PacketInv
<1> QED
  BY <1>1, <1>2, <1>3, PTL DEF Spec

\* Every packet that waits is in exactly one place, although a thread looks the
\* address up and appends the packet in two steps, and the sweep takes the packets
\* of a request and reports them without the lock.
THEOREM PacketInOnePlace == ASSUME ArpAssumption PROVE Spec => []EachPacketOnce
<1>1. Init => PacketInv
  BY InitPackets
<1>2. PacketInv /\ [Next]_vars => PacketInv'
  BY NextPackets
<1>3. PacketInv => EachPacketOnce
  BY WaitsOnce
<1> QED
  BY <1>1, <1>2, <1>3, PTL DEF Spec

-----------------------------------------------------------------------------
(* Requests that are answered in time.                                      *)

\* A request of a neighbour has been sent again only if the answer is on its way.
Awaited ==
  prompt => \A i \in DOMAIN reqs : reqs[i].ip \in Alive => reqs[i].retries = 1 \/ reqs[i].ip \in asked

LEMMA AppendAwaited ==
  ASSUME PacketInv, Awaited, NEW t \in Threads, AppendPacket(t)
  PROVE  Awaited'
<1>0. reqs \in Seq(Request)
  BY DEF PacketInv, TypeOK, Request
<1>1. PICK n \in Nat : n = Len(reqs) /\ DOMAIN reqs = 1 .. n /\ reqs \in [1 .. n -> Request]
  BY <1>0
<1>2. UNCHANGED <<prompt, asked>>
  BY DEF AppendPacket
<1>3. CASE Joins(pkt[th[t].id].dst)
  <2>1. PICK k \in 1 .. n : reqs' = [reqs EXCEPT ![k].pkts = Append(@, th[t].id)]
    BY <1>1, <1>3 DEF AppendPacket, Pending
  <2>2. DOMAIN reqs' = 1 .. n /\ \A i \in 1 .. n : reqs'[i].ip = reqs[i].ip /\ reqs'[i].retries = reqs[i].retries
    BY <1>1, <2>1 DEF Request
  <2> QED
    BY <1>1, <1>2, <2>2 DEF Awaited
<1>4. CASE ~ Joins(pkt[th[t].id].dst)
  <2>1. PICK r : r.retries = 1 /\ reqs' = <<r>> \o reqs
    BY <1>4 DEF AppendPacket
  <2>2. \A i \in DOMAIN reqs' : reqs'[i].retries = 1 \/ (i - 1 \in DOMAIN reqs /\ reqs'[i] = reqs[i - 1])
    <3>1. Joined(<<r>>, reqs, 1, n)
      <4>1. <<r>> \in Seq(Request \cup {r}) /\ Len(<<r>>) = 1 /\ 1 \in Nat
        OBVIOUS
      <4>2. reqs \in Seq(Request \cup {r})
        BY <1>0
      <4> QED
        BY <1>1, <4>1, <4>2, Join
    <3>2. DOMAIN reqs' = 1 .. n + 1 /\ reqs'[1] = r /\ \A i \in 1 .. n : reqs'[i + 1] = reqs[i]
      BY <2>1, <3>1 DEF Joined
    <3> TAKE i \in DOMAIN reqs'
    <3>3. i # 1 => i - 1 \in 1 .. n /\ (i - 1) + 1 = i
      BY <3>2
    <3>4. CASE i = 1
      <4>1. reqs'[i] = r
        BY <3>2, <3>4
      <4> QED
        BY <2>1, <4>1
    <3>5. CASE i # 1
      BY <1>1, <3>2, <3>3, <3>5
    <3> QED
      BY <3>4, <3>5
  <2> QED
    BY <1>2, <2>2 DEF Awaited
<1> QED
  BY <1>3, <1>4

LEMMA SweepAwaited ==
  ASSUME ArpAssumption, PacketInv, Awaited, SweepPass
  PROVE  Awaited'
<1>1. reqs \in Seq(Request)
  BY DEF PacketInv, TypeOK, Request
<1>2. PICK pos : Left(pos)
  BY SweepRequests
<1> SUFFICES ASSUME prompt', NEW i \in DOMAIN reqs', reqs'[i].ip \in Alive
             PROVE  reqs'[i].retries = 1 \/ reqs'[i].ip \in asked'
  BY DEF Awaited
<1>3. PICK k \in DOMAIN reqs : k = pos[i]
  BY <1>2 DEF Left, Rest
<1>4. reqs'[i].ip = reqs[k].ip /\ reqs'[i].retries = IF Resent(reqs[k]) THEN reqs[k].retries + 1 ELSE reqs[k].retries
  BY <1>2, <1>3 DEF Left, Rest
<1>5. CASE Resent(reqs[k])
  <2>1. reqs[k] \in ToSet(reqs)
    BY DEF ToSet
  <2> QED
    BY <1>4, <1>5, <2>1 DEF SweepPass, Requested
<1>6. CASE ~ Resent(reqs[k])
  <2>1. prompt /\ asked = {}
    BY DEF SweepPass
  <2> QED
    BY <1>4, <1>6, <2>1 DEF Awaited
<1> QED
  BY <1>5, <1>6

LEMMA NextAwaited == ASSUME ArpAssumption, PacketInv, Awaited, [Next]_vars PROVE Awaited'
<1>1. CASE \E p \in Packets : Transmit(p)
  BY <1>1 DEF Transmit, Send, HandleLocal, Forward, Awaited
<1>2. ASSUME NEW t \in Threads, SendRequest(t)
      PROVE  Awaited'
  <2>1. UNCHANGED <<prompt, reqs>> /\ asked \subseteq asked'
    BY <1>2 DEF SendRequest, Requested
  <2> QED
    BY <2>1 DEF Awaited
<1>3. ASSUME NEW ip \in IPs, HandleReply(ip) \/ HandleRequest(ip)
      PROVE  Awaited'
  <2>1. ip \in Alive /\ Insert(ip) /\ asked \ {ip} \subseteq asked' /\ UNCHANGED prompt
    BY <1>3 DEF HandleReply, HandleRequest, PacketInv, TypeOK
  <2>2. \A k \in DOMAIN reqs' : reqs'[k].ip # ip /\ \E i \in DOMAIN reqs : reqs'[k] = reqs[i]
    BY <2>1, InsertPackets
  <2> QED
    BY <2>1, <2>2 DEF Awaited
<1>4. ASSUME NEW ip \in IPs, Unanswered(ip)
      PROVE  Awaited'
  BY <1>4 DEF Unanswered, Awaited
<1>5. CASE Wakes \/ SecondPasses
  <2>1. Older /\ UNCHANGED <<prompt, asked>>
    BY <1>5 DEF Wakes, SecondPasses
  <2>2. DOMAIN reqs' = DOMAIN reqs /\ \A i \in DOMAIN reqs : reqs'[i].ip = reqs[i].ip /\ reqs'[i].retries = reqs[i].retries
    BY <2>1, OlderPackets
  <2> QED
    BY <2>1, <2>2 DEF Awaited
<1>6. CASE SendUnreachable \/ SweepSleeps
  BY <1>6 DEF SendUnreachable, SweepSleeps, Awaited
<1>7. CASE UNCHANGED vars
  BY <1>7 DEF vars, Awaited
<1> QED
  BY <1>1, <1>2, <1>3, <1>4, <1>5, <1>6, <1>7, AppendAwaited, SweepAwaited DEF Next, SenderStep, SweepStep

\* No packet to a neighbour that answers in time is reported unreachable, for any
\* number of retries but one: a request is sent again only while no answer is on
\* its way, and its answer removes it before the next pass.
THEOREM NeverFalselyUnreachable ==
  ASSUME ArpAssumption, MaxRetries > 1
  PROVE  Spec => NoFalseUnreachable
<1>1. Init => PacketInv /\ Awaited
  <2>1. Init => Awaited
    BY DEF Init, Awaited
  <2> QED
    BY <2>1, InitPackets
<1>2. PacketInv /\ Awaited /\ [Next]_vars => PacketInv' /\ Awaited'
  BY NextPackets, NextAwaited
<1>3. PacketInv /\ Awaited /\ [Next]_vars
        => (prompt /\ SweepPass => \A r \in ToSet(reqs) : r.ip \in Alive => ~ GivenUp(r))
  <2> SUFFICES ASSUME PacketInv, Awaited, prompt, SweepPass, NEW r \in ToSet(reqs), r.ip \in Alive
               PROVE  ~ GivenUp(r)
    OBVIOUS
  <2>1. PICK i \in DOMAIN reqs : r = reqs[i]
    BY DEF ToSet
  <2>2. r.retries = 1
    BY <2>1 DEF Awaited, SweepPass
  <2> QED
    BY <2>2 DEF GivenUp, CanRetry, ArpAssumption
<1> QED
  BY <1>1, <1>2, <1>3, PTL DEF Spec, NoFalseUnreachable

=============================================================================
