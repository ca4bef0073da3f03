------------------------------ MODULE ArpCache ------------------------------
(***************************************************************************)
(* The IP layer of a host of the TCP labs (ip.c, icmp.c, arp.c) and its    *)
(* ARP cache (arpcache.c): what becomes of a packet that comes in or is    *)
(* sent, the table of mappings, the requests with the packets that wait    *)
(* for an answer, the sweep thread, and the threads that send.  Each       *)
(* operation on the cache holds arpcache.lock, so it is one step; the hard *)
(* part is between them, where a thread has looked an address up and not   *)
(* yet appended its packet, or has appended it and not yet sent the        *)
(* request.                                                                *)
(*                                                                         *)
(* A host has one interface, and the mac of an address never changes, so   *)
(* an entry is an address with its age.  "Packets" are tokens: when one is *)
(* answered by ICMP, the token becomes the answer.                         *)
(***************************************************************************)
EXTENDS Integers, SequencesExt

CONSTANTS Alive,        \* neighbours that answer ARP requests
          Dead,         \* addresses nobody answers for
          Self,         \* our own address: nobody answers for it either
          Slots,        \* indices of arpcache.entries (MAX_ARP_SIZE of them)
          Nowhere,      \* the addresses no entry of rtable matches
          Packets,      \* the packets handed to the stack
          Traffic,      \* what they may be: their source and the next hop to
                        \* their destination, [Packets -> [src, dst]]
          EntryTimeout, \* ARP_ENTRY_TIMEOUT
          MaxRetries,   \* ARP_REQUEST_MAX_RETRIES
          NoAddr        \* the address of an entry that is not valid

IPs == Alive \cup Dead \cup {Self}
Addrs == IPs \cup {Nowhere}

ASSUME ArpAssumption ==
  /\ Self \notin Alive \cup Dead /\ Alive \cap Dead = {} /\ NoAddr \notin Addrs
  /\ Nowhere \notin IPs
  /\ Traffic \subseteq [Packets -> [src : Addrs, dst : Addrs]]
  /\ \A f \in Traffic, p \in Packets : f[p].src # f[p].dst
  /\ EntryTimeout \in Nat \ {0} /\ MaxRetries \in Nat \ {0}
  /\ IsFiniteSet(Slots) /\ Slots # {} /\ IsFiniteSet(Alive)

VARIABLES prompt,   \* does every answer arrive before the sweep runs again?
          entries,  \* the table: [ip, age] per slot, age being now - added
          corrupt,  \* has entries[-1] been written?
          reqs,     \* req_list: [ip, age, retries, pkts], age being now - sent
          pkt,      \* per packet: [src, dst, where]
          th,       \* per thread: where it is in iface_send_packet_by_arp
          sweep,    \* where arpcache_sweep is, and its pkt_list
          late,     \* seconds since the sweep has read the time
          asked     \* ARP requests on the wire, of neighbours that answer

vars == <<prompt, entries, corrupt, reqs, pkt, th, sweep, late, asked>>

Threads == {"rx", "app", "sweep"}
Idle == [pc |-> "idle", id |-> <<>>]

Init ==
  /\ prompt \in BOOLEAN
  /\ entries = [i \in Slots |-> [ip |-> NoAddr, age |-> 0]]
  /\ corrupt = FALSE
  /\ reqs = <<>>
  /\ \E f \in Traffic :
       pkt = [p \in Packets |-> [src |-> f[p].src, dst |-> f[p].dst, where |-> "new"]]
  /\ th = [t \in Threads |-> Idle]
  /\ sweep = [pc |-> "sleep", list |-> <<>>]
  /\ late = 0
  /\ asked = {}

-----------------------------------------------------------------------------
(* The way of a packet out, in any thread.                                  *)

\* Does longest_prefix_match find an entry?
Routed(ip) == ip # Nowhere

Known(ip) == \E i \in Slots : entries[i].ip = ip

Becomes(p, q, where) == pkt' = [pkt EXCEPT ![p] = [q EXCEPT !.where = where]]

\* iface_send_packet_by_arp with q: it is sent, or waits to be appended.
LookUp(t, p, q) ==
  IF Known(q.dst)
  THEN /\ Becomes(p, q, "sent")
       /\ UNCHANGED th
  ELSE /\ Becomes(p, q, "held")
       /\ th' = [th EXCEPT ![t] = [pc |-> "append", id |-> p]]

\* ip_send_packet with q: without a route it is freed.
IpSend(t, p, q) ==
  IF Routed(q.dst) THEN LookUp(t, p, q) ELSE Becomes(p, q, "dropped") /\ UNCHANGED th

\* The packet of icmp_send_packet about q, to the source of q: the reply to an
\* echo request, or an error, from the interface it leaves by.
Icmp(q) == [q EXCEPT !.src = Self, !.dst = q.src]

\* The application sends.
Send(p) ==
  /\ th["app"] = Idle
  /\ pkt[p].where = "new" /\ pkt[p].src = Self
  /\ IpSend("app", p, pkt[p])
  /\ UNCHANGED <<prompt, entries, corrupt, reqs, sweep, late, asked>>

Arrives(p) == th["rx"] = Idle /\ pkt[p].where = "new" /\ pkt[p].src # Self

\* A packet for this host: an echo request is answered, anything else goes to
\* TCP or is freed.
HandleLocal(p) ==
  /\ Arrives(p) /\ pkt[p].dst = Self
  /\ \/ IpSend("rx", p, Icmp(pkt[p]))
     \/ Becomes(p, pkt[p], "taken") /\ UNCHANGED th
  /\ UNCHANGED <<prompt, entries, corrupt, reqs, sweep, late, asked>>

\* ip_forward_packet.  A packet whose ttl is used up, or that has no route, is
\* replaced by an error.
Forward(p) ==
  /\ Arrives(p) /\ pkt[p].dst # Self
  /\ \E expired \in BOOLEAN :
       IF expired \/ ~ Routed(pkt[p].dst) THEN IpSend("rx", p, Icmp(pkt[p]))
                                          ELSE LookUp("rx", p, pkt[p])
  /\ UNCHANGED <<prompt, entries, corrupt, reqs, sweep, late, asked>>

Transmit(p) == Send(p) \/ HandleLocal(p) \/ Forward(p)

\* The ARP requests of arp_send_request that somebody will answer.
Requested(ips) == asked \cup (ips \cap Alive)

-----------------------------------------------------------------------------
(* arpcache_append_packet.                                                  *)

Pending(ip) == {i \in DOMAIN reqs : reqs[i].ip = ip}

\* Mutant: an entry of req_list is never found.
Joins_Never(ip) == FALSE
\* Does arpcache_append_packet find a request for ip?
Joins(ip) == Pending(ip) # {}

\* arpcache_append_packet up to the unlock.
AppendPacket(t) ==
  /\ th[t].pc = "append"
  /\ LET p == th[t].id
         ip == pkt[p].dst
     IN  /\ IF Joins(ip)
            THEN /\ \E i \in Pending(ip) :
                      reqs' = [reqs EXCEPT ![i].pkts = Append(@, p)]
                 /\ th' = [th EXCEPT ![t] = Idle]
            ELSE /\ reqs' = <<[ip |-> ip, age |-> 0, retries |-> 1,
                               pkts |-> <<p>>]>> \o reqs
                 /\ th' = [th EXCEPT ![t].pc = "request"]
         /\ pkt' = [pkt EXCEPT ![p].where = "cached"]
  /\ UNCHANGED <<prompt, entries, corrupt, sweep, late, asked>>

\* The ARP request of a new entry of req_list, sent without the lock.
SendRequest(t) ==
  /\ th[t].pc = "request"
  /\ asked' = Requested({pkt[th[t].id].dst})
  /\ th' = [th EXCEPT ![t] = Idle]
  /\ UNCHANGED <<prompt, entries, corrupt, reqs, pkt, sweep, late>>

-----------------------------------------------------------------------------
(* handle_arp_packet and arpcache_insert, in the packet thread.             *)

Entry(ip) == [ip |-> ip, age |-> 0]

\* Mutant: a valid entry of the same address is not looked for.
Stored_Anywhere(ip) == {[entries EXCEPT ![i] = Entry(ip)] : i \in Slots}
\* The table after inserting ip: its entry renewed; or a random slot written,
\* free or not, if there is a free one; or entries[-1] written if there is none.
Stored(ip) ==
  IF Known(ip)
  THEN {[i \in Slots |-> IF entries[i].ip = ip THEN Entry(ip) ELSE entries[i]]}
  ELSE IF Known(NoAddr)
       THEN {[entries EXCEPT ![i] = Entry(ip)] : i \in Slots}
       ELSE {entries}

\* Mutant: the packet list is scanned only when the mapping is new.
Answered_IfNew(ip) == IF Known(ip) THEN {} ELSE Pending(ip)
\* The entries of req_list that the mapping answers.
Answered(ip) == Pending(ip)

\* The first of them is sent off and removed ("break").
Insert(ip) ==
  /\ entries' \in Stored(ip)
  /\ corrupt' = (corrupt \/ ~ (Known(ip) \/ Known(NoAddr)))
  /\ IF Answered(ip) = {}
     THEN UNCHANGED <<reqs, pkt>>
     ELSE LET i == CHOOSE j \in Answered(ip) : \A k \in Answered(ip) : j <= k
          IN  /\ reqs' = RemoveAt(reqs, i)
              /\ pkt' = [p \in Packets |-> IF p \in ToSet(reqs[i].pkts)
                                           THEN [pkt[p] EXCEPT !.where = "sent"]
                                           ELSE pkt[p]]

HandleReply(ip) ==
  /\ th["rx"] = Idle
  /\ ip \in asked
  /\ asked' = asked \ {ip}
  /\ Insert(ip)
  /\ UNCHANGED <<prompt, th, sweep, late>>

\* A neighbour asks for our address at any time.
HandleRequest(ip) ==
  /\ th["rx"] = Idle
  /\ ip \in Alive
  /\ Insert(ip)
  /\ UNCHANGED <<prompt, th, sweep, late, asked>>

\* A request, or an answer, that the network has lost.
Unanswered(ip) ==
  /\ ~ prompt
  /\ ip \in asked
  /\ asked' = asked \ {ip}
  /\ UNCHANGED <<prompt, entries, corrupt, reqs, pkt, th, sweep, late>>

-----------------------------------------------------------------------------
(* arpcache_sweep.                                                          *)

Upto(limit, n) == IF n < limit THEN n + 1 ELSE limit
Older == /\ entries' = [i \in Slots |->
                          IF entries[i].ip = NoAddr THEN entries[i]
                          ELSE [entries[i] EXCEPT !.age = Upto(EntryTimeout + 1, @)]]
         /\ reqs' = [i \in DOMAIN reqs |-> [reqs[i] EXCEPT !.age = Upto(2, @)]]

\* A second later the sweep wakes and reads the time, before it has the lock.
Wakes ==
  /\ sweep.pc = "sleep"
  /\ Older
  /\ sweep' = [sweep EXCEPT !.pc = "lock"]
  /\ UNCHANGED <<prompt, corrupt, pkt, th, late, asked>>

\* The time the sweep has read grows stale, by a second at most here.
SecondPasses ==
  /\ sweep.pc # "sleep"
  /\ late = 0
  /\ Older
  /\ late' = 1
  /\ UNCHANGED <<prompt, corrupt, pkt, th, sweep, asked>>

\* Mutant: one more request than ARP_REQUEST_MAX_RETRIES.
CanRetry_Extra(r) == r.retries <= MaxRetries
CanRetry(r) == r.retries < MaxRetries

Due(r) == r.age - late >= 1
GivenUp(r) == Due(r) /\ ~ CanRetry(r)
Resent(r) == Due(r) /\ CanRetry(r)

\* What the pass leaves of r in req_list, and what it moves to pkt_list.
Remaining(r) == IF GivenUp(r) THEN <<>>
                ELSE IF Resent(r) THEN <<[r EXCEPT !.retries = @ + 1]>> ELSE <<r>>
Moved(r) == IF GivenUp(r) THEN r.pkts ELSE <<>>

SweepPass ==
  /\ sweep.pc = "lock"
  /\ prompt => asked = {}
  /\ entries' = [i \in Slots |->
                   IF entries[i].ip # NoAddr /\ entries[i].age - late >= EntryTimeout
                   THEN [ip |-> NoAddr, age |-> 0] ELSE entries[i]]
  /\ reqs' = FlattenSeq([i \in DOMAIN reqs |-> Remaining(reqs[i])])
  /\ asked' = Requested({r.ip : r \in {q \in ToSet(reqs) : Resent(q)}})
  /\ LET list == FlattenSeq([i \in DOMAIN reqs |-> Moved(reqs[i])])
     IN  /\ pkt' = [p \in Packets |-> IF p \in ToSet(list)
                                      THEN [pkt[p] EXCEPT !.where = "held"] ELSE pkt[p]]
         /\ sweep' = [pc |-> "drop", list |-> list]
  /\ UNCHANGED <<prompt, corrupt, th, late>>

\* icmp_send_packet for one packet of pkt_list.
SendUnreachable ==
  /\ sweep.pc = "drop" /\ sweep.list # <<>>
  /\ th["sweep"] = Idle
  /\ LET p == Head(sweep.list)
     IN  IpSend("sweep", p, Icmp(pkt[p]))
  /\ sweep' = [sweep EXCEPT !.list = Tail(@)]
  /\ UNCHANGED <<prompt, entries, corrupt, reqs, late, asked>>

SweepSleeps ==
  /\ sweep.pc = "drop" /\ sweep.list = <<>>
  /\ th["sweep"] = Idle
  /\ sweep' = [sweep EXCEPT !.pc = "sleep"]
  /\ late' = 0
  /\ UNCHANGED <<prompt, entries, corrupt, reqs, pkt, th, asked>>

-----------------------------------------------------------------------------
SenderStep(t) == AppendPacket(t) \/ SendRequest(t)
SweepStep == Wakes \/ SweepPass \/ SendUnreachable \/ SweepSleeps

Next == \/ \E p \in Packets : Transmit(p)
        \/ \E t \in Threads : SenderStep(t)
        \/ \E ip \in IPs : HandleReply(ip) \/ HandleRequest(ip) \/ Unanswered(ip)
        \/ SweepStep
        \/ SecondPasses

\* The threads run, the packets are sent, and answers that are not lost arrive.
Fairness == /\ \A p \in Packets : WF_vars(Transmit(p))
            /\ \A t \in Threads : WF_vars(SenderStep(t))
            /\ \A ip \in IPs : WF_vars(HandleReply(ip))
            /\ WF_vars(SweepStep)

Spec == Init /\ [][Next]_vars /\ Fairness

-----------------------------------------------------------------------------
(* Properties.                                                              *)

TypeOK ==
  /\ prompt \in BOOLEAN /\ corrupt \in BOOLEAN /\ late \in {0, 1}
  /\ entries \in [Slots -> [ip : IPs \cup {NoAddr}, age : 0 .. EntryTimeout + 1]]
  /\ reqs \in Seq([ip : IPs, age : 0 .. 2, retries : 1 .. MaxRetries,
                   pkts : Seq(Packets)])
  /\ pkt \in [Packets -> [src : Addrs, dst : Addrs,
                          where : {"new", "held", "cached", "sent", "taken", "dropped"}]]
  /\ th \in [Threads -> {Idle} \cup [pc : {"append", "request"}, id : Packets]]
  /\ sweep \in [pc : {"sleep", "lock", "drop"}, list : Seq(Packets)]
  /\ asked \subseteq Alive

\* The table keeps at most one valid entry of an address; and as long as there
\* are no more neighbours than slots, arpcache_insert never finds the table
\* full, where its pos = -1 writes before the table.
TableSound ==
  /\ \A i, j \in Slots : entries[i].ip = entries[j].ip
                           => i = j \/ entries[i].ip = NoAddr
  /\ Cardinality(Alive) <= Cardinality(Slots) => ~ corrupt

Holds(r, p) == p \in ToSet(r.pkts)

\* Every packet that waits is in exactly one place: in the one request for its
\* next hop, once, or in the hands of one thread; a request is never empty.
EachPacketOnce ==
  /\ \A i, j \in DOMAIN reqs : reqs[i].ip = reqs[j].ip => i = j
  /\ \A r \in ToSet(reqs) :
       /\ r.pkts # <<>> /\ IsInjective(r.pkts)
       /\ \A p \in ToSet(r.pkts) : pkt[p].where = "cached" /\ pkt[p].dst = r.ip
  /\ \A p \in Packets :
       /\ pkt[p].where = "cached" => \E r \in ToSet(reqs) : Holds(r, p)
       /\ LET hands == {t \in Threads : th[t].pc = "append" /\ th[t].id = p}
          IN  pkt[p].where = "held" <=> hands # {} \/ p \in ToSet(sweep.list)

\* "If the arp request has been sent 5 times without receiving arp reply": when
\* answers come in time, no packet to a live neighbour is reported unreachable,
\* whatever slot the table gives away and whoever sends while the answer arrives.
NoFalseUnreachable ==
  [][prompt /\ SweepPass
       => \A r \in ToSet(reqs) : r.ip \in Alive => ~ GivenUp(r)]_vars

=============================================================================
