--------------------------- MODULE TcpConn_proofs ---------------------------
(***************************************************************************)
(* The socks of the two hosts, the queues of the listening sock and the    *)
(* accepting application, in every environment: for any sequence numbers,  *)
(* any timer, any number of duplicated packets, another peer, spurious     *)
(* wakeups and every interleaving of the application, packet and timer     *)
(* threads.                                                                *)
(*                                                                         *)
(* The first part is about socks, queues and threads whatever packets      *)
(* come.  The second counts the packets of a connection: when none is      *)
(* duplicated, each state of a sock has used up some of the packets that   *)
(* the other side has sent, and none is left for a sock that is closed.    *)
(* So no RST is ever sent, and no reference is dropped that was not taken. *)
(* The third follows a shutdown that nothing disturbs, packet by packet.   *)
(***************************************************************************)
EXTENDS TcpConn, TLAPS

-----------------------------------------------------------------------------
(* The inductive invariant.                                                 *)

\* The packet thread on its way from the accept queue to wake_up.
Announces == {"count_load", "count_store", "wake_accept"}

USE DEF RxPcs, Announces

\* The states of a sock whose connection has been established, and those in which
\* it has seen the peer's FIN.
Opened == States \ {"none", "LISTEN", "SYN_SENT", "SYN_RECV"}
FinSeen == {"CLOSE_WAIT", "LAST_ACK", "TIME_WAIT", "CLOSED"}

\* Which sock is in which state.  L leaves SYN_RECV only when the server ends.
Role(s) ==
  /\ s = "K" => sk[s].state \in {"none", "SYN_SENT"} \cup Opened
  /\ s = "L" => \/ sk[s].state \in {"none", "LISTEN", "SYN_RECV"}
                \/ sk[s].state = "ESTABLISHED" /\ ~ Running("server")
  /\ s \in {"C", "X"} => sk[s].state \in {"none", "SYN_RECV"} \cup Opened
  /\ sk[s].timer > 0 => sk[s].state = "TIME_WAIT"
  /\ sk[s].hashed \in {"no", IF s = "L" THEN "listen" ELSE "established"}
Roles == \A s \in Socks : Role(s)

\* L makes one child at most, for it listens no more after the first SYN; where
\* the child is follows from its state.
NoChild ==
  /\ sk["L"].state \in {"none", "LISTEN"}
  /\ sk["C"].state = "none" /\ sk["X"].state = "none"
  /\ listen_queue = <<>> /\ accept_queue = <<>> /\ csk = "none"
OneChild(s, t) ==
  /\ sk["L"].state \in {"SYN_RECV", "ESTABLISHED"} /\ sk[t].state = "none"
  /\ \/ sk[s].state = "SYN_RECV" /\ listen_queue = <<s>> /\ accept_queue = <<>> /\ csk = "none"
     \/ sk[s].state \in Opened /\ listen_queue = <<>> /\ accept_queue = <<s>> /\ csk = "none"
     \/ sk[s].state \in Opened /\ listen_queue = <<>> /\ accept_queue = <<>> /\ csk = s
Queues == NoChild \/ OneChild("C", "X") \/ OneChild("X", "C")

\* Where the application of the server is, and what it has been told.
Accepted == accept_queue # <<>> \/ csk # "none"
Accepting ==
  /\ app["server"] \in {"start", "accept", "sleep_on", "blocked", "dequeue"} => csk = "none"
  /\ app["server"] \in {"uncount_load", "uncount_store"} /\ Running("server") => csk # "none"
  /\ app["server"] = "sleep" /\ Running("server") => csk # "none"
  /\ app["server"] \in {"set_state", "send_fin"} => csk # "none"
  /\ app["client"] # "start" => sk["K"].state # "none"
  /\ app["client"] \notin {"accept", "dequeue"}
  /\ app["client"] = "start" => sk["K"].state = "none"
  /\ env.serverFirst /\ app["client"] # "start" => sk["L"].state # "none"
  /\ app["server"] = "start" => sk["L"].state = "none"
  /\ ~ wait_accept.dead
  /\ wait_accept.notified \/ wait_accept.signaled # {} \/ rx["server"].pc \in Announces
       => Accepted
  /\ rx["client"].pc \notin Announces
  /\ ~ env.spurious /\ app["server"] = "dequeue" => accept_queue # <<>>
  /\ ~ env.spurious => up["server"] # "wild pointer"

\* The packet thread of h.
Packet(h) ==
  \/ rx[h] = RxIdle
  \/ /\ rx[h].pc # "idle" /\ rx[h].sock \in Socks /\ Host(rx[h].sock) = h
     /\ rx[h].pc = "end" => rx[h].rst
     /\ rx[h].pc = "close_wait" => sk[rx[h].sock].state \in {"ESTABLISHED", "FIN_WAIT_1"}

\* tcp_sock_close between its two steps: all that may have come is a FIN.
Closing(h) ==
  app[h] = "set_state" =>
    \/ closeTo[h] = "FIN_WAIT_1" /\ sk[MySock(h)].state \in {"ESTABLISHED", "CLOSE_WAIT"}
    \/ closeTo[h] = "LAST_ACK" /\ sk[MySock(h)].state = "CLOSE_WAIT"

\* A FIN comes from an application that has closed, and a RST reaches only an
\* application that has, and is sent only when a packet has been duplicated.
Carries(h, f) == \E i \in DOMAIN net[h] : f \in net[h][i].flags
FinLate(h) ==
  (\E s \in Socks : Host(s) = h /\ sk[s].state \in FinSeen)
    \/ rx[h].pc = "close_wait" \/ Carries(h, "FIN") => app[Other(h)] = "done"
Late(h) == app[h] = "done" /\ env.dups # 0
RstLate(h) == rx[h].rst \/ Carries(h, "RST") => Late(h)

\* Until then references are counted.
Counted(s) ==
  /\ sk[s].ref_cnt >= References(sk[s]) /\ ~ sk[s].freed
  /\ sk[s].state # "none" => sk[s].hashed # "no"
Held(h) == ~ Late(h) => \A s \in Socks : Host(s) = h => Counted(s)

\* Without a duplication no packet comes for a sock that is closed.
ClosedIsDeaf ==
  env.dups = 0 => \A h \in Hosts, s \in Socks : ~ ArrivesIn(h, s, "CLOSED")

Inv1 == /\ TypeOK /\ Roles /\ Queues /\ Accepting
        /\ \A h \in Hosts : Packet(h) /\ Closing(h) /\ FinLate(h) /\ RstLate(h) /\ Held(h)

-----------------------------------------------------------------------------
(* The operators on socks and packets.                                      *)

\* Sequence numbers stay within their width.
LEMMA SeqNoRange ==
  ASSUME ConnAssumption
  PROVE  0 \in SeqNo /\ \A n \in SeqNo : SeqInc(n) \in SeqNo
  BY DEF ConnAssumption, SeqNo, SeqInc

\* What a sock looks like, but for its sequence numbers.
Looks(r, st, ha, bo, n, t, f) ==
  /\ r \in Sock /\ r.state = st /\ r.hashed = ha /\ r.bound = bo
  /\ r.ref_cnt = n /\ r.timer = t /\ r.freed = f

\* alloc_tcp_sock.
LEMMA Allocated ==
  ASSUME ConnAssumption, NEW iss \in SeqNo
  PROVE  Looks(alloc_tcp_sock(iss), "CLOSED", "no", FALSE, 0, -1, FALSE)
<1>1. NoSock \in Sock
  BY SeqNoRange DEF NoSock, Sock, States
<1>2. Looks(NoSock, "none", "no", FALSE, 0, -1, FALSE)
  BY <1>1 DEF NoSock, Looks
<1> HIDE DEF NoSock
<1>3. Looks([NoSock EXCEPT !.state = "CLOSED", !.snd_nxt = iss],
            "CLOSED", "no", FALSE, 0, -1, FALSE)
  BY <1>2 DEF Looks, Sock, States
<1> QED
  BY <1>3 DEF alloc_tcp_sock

\* tcp_bind_hash counts the reference of the bind table.
LEMMA Bound ==
  ASSUME NEW r, NEW st, NEW ha, NEW bo, NEW n, NEW t, NEW f,
         Looks(r, st, ha, bo, n, t, f)
  PROVE  Looks(tcp_bind_hash(r), st, ha, TRUE, n + 1, t, f)
<1> DEFINE b == [r EXCEPT !.bound = TRUE, !.ref_cnt = n + 1]
<1>1. tcp_bind_hash(r) = b
  BY DEF tcp_bind_hash, Looks
<1>2. n + 1 \in Int /\ TRUE \in BOOLEAN
  BY DEF Sock, Looks
<1>3. b \in Sock
  BY <1>2 DEF Sock, Looks
<1>4. Looks(b, st, ha, TRUE, n + 1, t, f)
  BY <1>3 DEF Sock, Looks
<1> QED
  BY <1>1, <1>4

\* tcp_hash counts the reference of the table the sock is put into.
LEMMA Hashed ==
  ASSUME NEW r, NEW st, NEW ha, NEW bo, NEW n, NEW t, NEW f,
         Looks(r, st, ha, bo, n, t, f),
         st # "CLOSED"
  PROVE  Looks(tcp_hash(r), st, IF st = "LISTEN" THEN "listen" ELSE "established", bo, n + 1, t, f)
<1> DEFINE k == IF st = "LISTEN" THEN "listen" ELSE "established"
           b == [r EXCEPT !.hashed = k, !.ref_cnt = n + 1]
<1>1. tcp_hash(r) = b
  BY DEF tcp_hash, Looks
<1>2. n + 1 \in Int /\ k \in {"no", "listen", "established"}
  BY DEF Sock, Looks
<1> HIDE DEF k
<1>3. b \in Sock
  BY <1>2 DEF Sock, Looks
<1>4. Looks(b, st, k, bo, n + 1, t, f)
  BY <1>3 DEF Sock, Looks
<1> QED
  BY <1>1, <1>4 DEF k

\* free_tcp_sock gives one reference back.
LEMMA Released ==
  ASSUME NEW r, NEW st, NEW ha, NEW bo, NEW n, NEW t, NEW f,
         Looks(r, st, ha, bo, n, t, f)
  PROVE  Looks(free_tcp_sock(r), st, ha, bo, n - 1, t, n - 1 <= 0)
<1> DEFINE k == (n - 1 <= 0)
           b == [r EXCEPT !.ref_cnt = n - 1, !.freed = k]
<1>1. free_tcp_sock(r) = b
  BY DEF free_tcp_sock, Looks
<1>2. n - 1 \in Int /\ k \in BOOLEAN
  BY DEF Sock, Looks
<1> HIDE DEF k
<1>3. b \in Sock
  BY <1>2 DEF Sock, Looks
<1>4. Looks(b, st, ha, bo, n - 1, t, k)
  BY <1>3 DEF Sock, Looks
<1> QED
  BY <1>1, <1>4 DEF k

\* Sending a control packet changes nothing but a sequence number.
LEMMA Controlled ==
  ASSUME ConnAssumption, NEW flags, NEW r, NEW st, NEW ha, NEW bo, NEW n, NEW t, NEW f,
         Looks(r, st, ha, bo, n, t, f)
  PROVE  Looks(AfterControl(r, flags), st, ha, bo, n, t, f)
<1> DEFINE k == IF Consumes(flags) THEN SeqInc(r.snd_nxt) ELSE r.snd_nxt
           b == [r EXCEPT !.snd_nxt = k]
<1>1. AfterControl(r, flags) = b
  BY DEF AfterControl
<1>2. k \in SeqNo
  BY SeqNoRange DEF Sock, Looks
<1> HIDE DEF k
<1>3. b \in Sock
  BY <1>2 DEF Sock, Looks
<1>4. Looks(b, st, ha, bo, n, t, f)
  BY <1>3 DEF Sock, Looks
<1> QED
  BY <1>1, <1>4

\* A write of the state, ...
LEMMA Moved ==
  ASSUME NEW r, NEW st, NEW ha, NEW bo, NEW n, NEW t, NEW f,
         Looks(r, st, ha, bo, n, t, f), NEW to \in States
  PROVE  Looks([r EXCEPT !.state = to], to, ha, bo, n, t, f)
  BY DEF Sock, Looks

\* ... of rcv_nxt ...
LEMMA Heard ==
  ASSUME NEW r, NEW st, NEW ha, NEW bo, NEW n, NEW t, NEW f,
         Looks(r, st, ha, bo, n, t, f), NEW k \in SeqNo
  PROVE  Looks([r EXCEPT !.rcv_nxt = k], st, ha, bo, n, t, f)
  BY DEF Sock, Looks

\* ... and of the timer.
LEMMA Timed ==
  ASSUME NEW r, NEW st, NEW ha, NEW bo, NEW n, NEW t, NEW f,
         Looks(r, st, ha, bo, n, t, f), NEW k \in Int
  PROVE  Looks([r EXCEPT !.timer = k], st, ha, bo, n, k, f)
  BY DEF Sock, Looks

Flags == {"SYN", "ACK", "FIN", "RST"}

\* What tcp_send_control_packet sends ...
LEMMA Controls ==
  ASSUME NEW s \in Socks, NEW r \in Sock, NEW flags \in SUBSET Flags
  PROVE  ControlPacket(s, r, flags) \in Segment /\ ControlPacket(s, r, flags).flags = flags
  BY DEF Sock, Segment, ControlPacket, Flags

\* ... and tcp_send_reset.
LEMMA Resets ==
  ASSUME ConnAssumption, NEW seg \in Segment
  PROVE  ResetPacket(seg) \in Segment /\ ResetPacket(seg).flags = {"RST", "ACK"}
  BY SeqNoRange DEF Segment, ResetPacket

\* A packet sent is the last one on its way, and nothing else changes.
LEMMA Emitted ==
  ASSUME NEW n \in [Hosts -> Seq(Segment)], NEW h \in Hosts, NEW seg \in Segment
  PROVE  /\ Emit(n, h, seg) \in [Hosts -> Seq(Segment)]
         /\ Emit(n, h, seg)[h] = n[h]
         /\ \A o \in Hosts : \A i \in DOMAIN Emit(n, h, seg)[o] :
              \/ i \in DOMAIN n[o] /\ Emit(n, h, seg)[o][i] = n[o][i]
              \/ o = Other(h) /\ Emit(n, h, seg)[o][i] = seg
<1>1. Other(h) \in Hosts /\ Other(h) # h
  BY DEF Hosts, Other
<1>2. n[Other(h)] \in Seq(Segment)
  BY <1>1
<1>3. Append(n[Other(h)], seg) \in Seq(Segment)
  BY <1>2
<1>4. Emit(n, h, seg) \in [Hosts -> Seq(Segment)]
  BY <1>1, <1>3 DEF Emit
<1>5. Emit(n, h, seg)[h] = n[h]
  BY <1>1 DEF Emit
<1>6. ASSUME NEW o \in Hosts, NEW i \in DOMAIN Emit(n, h, seg)[o]
      PROVE  \/ i \in DOMAIN n[o] /\ Emit(n, h, seg)[o][i] = n[o][i]
             \/ o = Other(h) /\ Emit(n, h, seg)[o][i] = seg
  <2>1. CASE Emit(n, h, seg)[o] = n[o]
    BY <1>6, <2>1
  <2>2. CASE o = Other(h) /\ Emit(n, h, seg)[o] = Append(n[o], seg)
    BY <1>2, <2>2
  <2> QED
    BY <1>1, <2>1, <2>2 DEF Emit
<1> QED
  BY <1>4, <1>5, <1>6

\* Taking the packet at the head leaves a part of what was there.
LEMMA Taken ==
  ASSUME TypeOK, NEW h \in Hosts, net[h] # <<>>
  PROVE  /\ Rest(h) \in [Hosts -> Seq(Segment)] /\ Head(net[h]) \in Segment
         /\ 1 \in DOMAIN net[h] /\ Head(net[h]) = net[h][1]
         /\ \A o \in Hosts : \A i \in DOMAIN Rest(h)[o] :
              \E j \in DOMAIN net[o] : Rest(h)[o][i] = net[o][j]
<1>1. net \in [Hosts -> Seq(Segment)] /\ net[h] \in Seq(Segment)
  BY DEF TypeOK
<1>2. /\ Tail(net[h]) \in Seq(Segment) /\ Head(net[h]) = net[h][1]
      /\ 1 \in DOMAIN net[h] /\ Head(net[h]) \in Segment
  BY <1>1
<1>3. \A i \in DOMAIN Tail(net[h]) : i + 1 \in DOMAIN net[h] /\ Tail(net[h])[i] = net[h][i + 1]
  BY <1>1
<1>4. Rest(h) \in [Hosts -> Seq(Segment)]
  BY <1>1, <1>2 DEF Rest
<1>5. ASSUME NEW o \in Hosts, NEW i \in DOMAIN Rest(h)[o]
      PROVE  \E j \in DOMAIN net[o] : Rest(h)[o][i] = net[o][j]
  BY <1>1, <1>3 DEF Rest
<1> QED
  BY <1>2, <1>4, <1>5

\* tcp_sock_lookup finds a sock of the host, in the table it looks into.
LEMMA LookedUp ==
  ASSUME NEW h \in Hosts, NEW conn \in {"k", "x"}
  PROVE  LET s == tcp_sock_lookup(h, conn) IN
         \/ s = "none"
         \/ /\ s \in Socks /\ Host(s) = h
            /\ s = "L" => sk["L"].hashed = "listen"
            /\ s # "L" => sk[s].hashed = "established"
  BY DEF tcp_sock_lookup, Hosts, Socks, Host, Child

\* What a packet that is sent, or taken, adds to what is on its way.
LEMMA Sending ==
  ASSUME TypeOK, NEW h \in Hosts, NEW seg \in Segment, NEW n,
         n = net \/ (net[h] # <<>> /\ n = Rest(h)), net' = Emit(n, h, seg)
  PROVE  /\ net' \in [Hosts -> Seq(Segment)]
         /\ \A o \in Hosts, f \in Flags :
              Carries(o, f)' => Carries(o, f) \/ (o = Other(h) /\ f \in seg.flags)
<1>1. /\ n \in [Hosts -> Seq(Segment)]
      /\ \A o \in Hosts : \A i \in DOMAIN n[o] : \E j \in DOMAIN net[o] : n[o][i] = net[o][j]
  <2>1. CASE n = net
    BY <2>1 DEF TypeOK
  <2>2. CASE net[h] # <<>> /\ n = Rest(h)
    BY <2>2, Taken
  <2> QED
    BY <2>1, <2>2
<1> DEFINE m == Emit(n, h, seg)
<1>2. /\ m \in [Hosts -> Seq(Segment)]
      /\ \A o \in Hosts : \A i \in DOMAIN m[o] :
           \/ i \in DOMAIN n[o] /\ m[o][i] = n[o][i]
           \/ o = Other(h) /\ m[o][i] = seg
  <2>1. n \in [Hosts -> Seq(Segment)]
    BY <1>1
  <2> QED
    BY <2>1, Emitted
<1>3. net' = m
  OBVIOUS
<1> HIDE DEF m
<1>4. ASSUME NEW o \in Hosts, NEW f \in Flags, Carries(o, f)'
      PROVE  Carries(o, f) \/ (o = Other(h) /\ f \in seg.flags)
  <2>1. PICK i \in DOMAIN net'[o] : f \in net'[o][i].flags
    BY <1>4 DEF Carries
  <2>2. \/ i \in DOMAIN n[o] /\ net'[o][i] = n[o][i]
        \/ o = Other(h) /\ net'[o][i] = seg
    BY <1>2, <1>3, <2>1
  <2> QED
    BY <1>1, <2>1, <2>2 DEF Carries
<1> QED
  BY <1>2, <1>3, <1>4

\* A packet taken was on its way, and what is left was on its way too.
LEMMA Taking ==
  ASSUME TypeOK, NEW h \in Hosts, net[h] # <<>>
  PROVE  /\ Head(net[h]) \in Segment
         /\ \A f \in Flags : f \in Head(net[h]).flags => Carries(h, f)
         /\ net' = Rest(h) => /\ net' \in [Hosts -> Seq(Segment)]
                             /\ \A o \in Hosts, f \in Flags : Carries(o, f)' => Carries(o, f)
  BY Taken DEF Carries

-----------------------------------------------------------------------------
(* Steps that change one sock.                                              *)

\* Only sock s changes, and no host comes back.
Only(s) == /\ \A x \in Socks \ {s} : sk'[x] = sk[x]
           /\ \A h \in Hosts : Running(h)' => Running(h)

\* Socks that do not change keep their roles, ...
LEMMA RolesKept ==
  ASSUME Roles, NEW s \in Socks, Only(s), Role(s)'
  PROVE  Roles'
<1>1. ASSUME NEW x \in Socks \ {s} PROVE Role(x)'
  BY DEF Roles, Role, Only, Hosts
<1> QED
  BY <1>1 DEF Roles

\* Once an application has closed, it has.
Lasting == UNCHANGED env /\ \A h \in Hosts : app[h] = "done" => app'[h] = "done"

\* ... their references ...
LEMMA HeldKept ==
  ASSUME NEW h \in Hosts, Held(h), NEW s \in Socks, Only(s), Lasting,
         Host(s) = h /\ ~ Late(h)' => Counted(s)'
  PROVE  Held(h)'
<1>1. ASSUME NEW x \in Socks \ {s}, Counted(x) PROVE Counted(x)'
  BY <1>1 DEF Counted, References, Only
<1> QED
  BY <1>1 DEF Held, Late, Lasting

\* ... and what is known of the FIN of the peer.
LEMMA FinKept ==
  ASSUME NEW h \in Hosts, FinLate(h), NEW s \in Socks, Only(s), Lasting,
         Host(s) = h /\ sk'[s].state \in FinSeen =>
            sk[s].state \in FinSeen \/ rx[h].pc = "close_wait"
              \/ Carries(h, "FIN") \/ app'[Other(h)] = "done",
         rx'[h].pc = "close_wait" => rx[h].pc = "close_wait" \/ Carries(h, "FIN"),
         Carries(h, "FIN")' => Carries(h, "FIN") \/ app'[Other(h)] = "done"
  PROVE  FinLate(h)'
<1>1. Other(h) \in Hosts
  BY DEF Hosts, Other
<1> QED
  BY <1>1 DEF FinLate, Only, Lasting
\* Sock s is as it was but for its state, now st, and its sequence numbers.
Became(s, st) ==
  Looks(sk'[s], st, sk[s].hashed, sk[s].bound, sk[s].ref_cnt, sk[s].timer, sk[s].freed)

\* A sock written as a whole.
LEMMA Rewritten ==
  ASSUME TypeOK, NEW s \in Socks, NEW st, NEW r, sk' = [sk EXCEPT ![s] = r],
         Looks(r, st, sk[s].hashed, sk[s].bound, sk[s].ref_cnt, sk[s].timer, sk[s].freed)
  PROVE  /\ sk' \in [Socks -> Sock] /\ Became(s, st)
         /\ \A x \in Socks \ {s} : sk'[x] = sk[x]
<1>1. r \in Sock
  BY DEF Looks
<1>2. sk' \in [Socks -> Sock] /\ sk'[s] = r /\ \A x \in Socks \ {s} : sk'[x] = sk[x]
  BY <1>1 DEF TypeOK
<1> QED
  BY <1>2 DEF Became

\* A sock of the invariant looks like itself.
LEMMA Itself ==
  ASSUME TypeOK, NEW s \in Socks
  PROVE  /\ sk[s] \in Sock
         /\ Looks(sk[s], sk[s].state, sk[s].hashed, sk[s].bound, sk[s].ref_cnt,
                  sk[s].timer, sk[s].freed)
<1>1. sk[s] \in Sock
  BY DEF TypeOK
<1> QED
  BY <1>1 DEF Looks

\* A sock that keeps its references keeps its count.
LEMMA CountedStays ==
  ASSUME NEW s \in Socks, NEW st, Counted(s), Became(s, st), sk[s].state # "none"
  PROVE  Counted(s)'
  BY DEF Counted, References, Became, Looks

\* A sock that became what it was, but for its state, has its role if the new
\* state suits it.
LEMMA RoleStays ==
  ASSUME Roles, NEW s \in Socks, NEW st, Became(s, st), Only(s),
         st = sk[s].state \/ (s # "L" /\ st \in Opened /\ sk[s].state # "TIME_WAIT"), UNCHANGED up
  PROVE  Role(s)'
<1>1. sk'[s].state = st /\ sk'[s].timer = sk[s].timer /\ sk'[s].hashed = sk[s].hashed
  BY DEF Became, Looks
<1>2. Role(s) /\ (Running("server")' <=> Running("server"))
  BY DEF Roles, Running
<1> QED
  BY <1>1, <1>2 DEF Role

-----------------------------------------------------------------------------
(* The application threads.                                                 *)

\* The client: the sock it makes is bound, hashed and counted twice.
LEMMA ConnectDoes ==
  ASSUME ConnAssumption, Inv1, Connect
  PROVE  /\ sk' \in [Socks -> Sock] /\ \A x \in Socks \ {"K"} : sk'[x] = sk[x]
         /\ Looks(sk'["K"], "SYN_SENT", "established", TRUE, 2, -1, FALSE)
         /\ \E seg \in Segment : /\ seg.conn = "k" /\ seg.flags = {"SYN"}
                               /\ net' = Emit(net, "client", seg)
<1> DEFINE a == alloc_tcp_sock(ClientISS)
           b == [tcp_bind_hash(a) EXCEPT !.state = "SYN_SENT"]
           r == tcp_hash(b)
           seg == ControlPacket("K", r, {"SYN"})
<1>0. TypeOK
  BY DEF Inv1
<1>1. Looks(a, "CLOSED", "no", FALSE, 0, -1, FALSE)
  BY Allocated DEF ConnAssumption, SeqNo
<1>2. Looks(tcp_bind_hash(a), "CLOSED", "no", TRUE, 0 + 1, -1, FALSE)
  BY <1>1, Bound, Zenon
<1>3. Looks(b, "SYN_SENT", "no", TRUE, 0 + 1, -1, FALSE)
  BY <1>2, Moved DEF States
<1>4. Looks(r, "SYN_SENT", IF "SYN_SENT" = "LISTEN" THEN "listen" ELSE "established",
            TRUE, 0 + 1 + 1, -1, FALSE)
  BY <1>3, Hashed, Zenon
<1>5. /\ sk' = [sk EXCEPT !["K"] = AfterControl(r, {"SYN"})]
      /\ net' = Emit(net, "client", seg)
  BY DEF Connect
<1> HIDE DEF r
<1>6. Looks(AfterControl(r, {"SYN"}), "SYN_SENT",
            IF "SYN_SENT" = "LISTEN" THEN "listen" ELSE "established",
            TRUE, 0 + 1 + 1, -1, FALSE)
  BY <1>4, Controlled, Zenon
<1>7. /\ sk' \in [Socks -> Sock] /\ \A x \in Socks \ {"K"} : sk'[x] = sk[x]
      /\ Looks(sk'["K"], "SYN_SENT", "established", TRUE, 2, -1, FALSE)
  <2>1. AfterControl(r, {"SYN"}) \in Sock
    BY <1>6 DEF Looks
  <2>2. sk' \in [Socks -> Sock] /\ \A x \in Socks \ {"K"} : sk'[x] = sk[x]
    BY <1>0, <1>5, <2>1 DEF TypeOK, Socks
  <2>3. sk'["K"] = AfterControl(r, {"SYN"})
    BY <1>0, <1>5 DEF TypeOK, Socks
  <2> QED
    BY <1>6, <2>2, <2>3 DEF Looks
<1>8. seg \in Segment /\ seg.flags = {"SYN"}
  <2>1. r \in Sock /\ {"SYN"} \in SUBSET Flags /\ "K" \in Socks
    BY <1>4 DEF Socks, Flags, Looks
  <2> QED
    BY <2>1, Controls
<1>9. seg.conn = "k"
  BY DEF ControlPacket
<1> HIDE DEF seg
<1> QED
  BY <1>5, <1>7, <1>8, <1>9

\* The first step of connect keeps the invariant.
LEMMA ConnectKeeps ==
  ASSUME ConnAssumption, Inv1, Connect PROVE Inv1'
<1>0. TypeOK
  BY DEF Inv1
<1>7. /\ sk' \in [Socks -> Sock] /\ \A x \in Socks \ {"K"} : sk'[x] = sk[x]
      /\ Looks(sk'["K"], "SYN_SENT", "established", TRUE, 2, -1, FALSE)
  BY ConnectDoes
<1>8. PICK seg \in Segment : seg.flags = {"SYN"} /\ net' = Emit(net, "client", seg)
  BY ConnectDoes
<1>9. /\ net' \in [Hosts -> Seq(Segment)]
      /\ \A o \in Hosts, f \in {"FIN", "RST"} : Carries(o, f)' => Carries(o, f)
  BY <1>0, <1>8, Sending DEF Hosts, Flags
<1> USE DEF Hosts, Socks
<1>10. TypeOK'
  BY <1>7, <1>9 DEF Inv1, TypeOK, Connect, Goto, queues, counter, waits
<1>11. Only("K") /\ Lasting
  BY <1>7 DEF Inv1, TypeOK, Connect, Goto, Only, Lasting, Running
<1>12. Roles' 
  <2>1. Role("K")'
    BY <1>7 DEF Role, Looks
  <2> QED
    BY <2>1, <1>11, RolesKept DEF Inv1
<1>13. Queues'
  BY <1>7 DEF Inv1, TypeOK, Queues, NoChild, OneChild, Connect, queues, counter, Looks
<1>14. Accepting'
  BY <1>7 DEF Inv1, TypeOK, Accepting, Accepted, Connect, queues, counter, waits, Goto, Running, Looks
<1>15. ASSUME NEW g \in Hosts
       PROVE  Packet(g)' /\ Closing(g)' /\ FinLate(g)' /\ RstLate(g)' /\ Held(g)'
  <2>1. Packet(g)'
    BY <1>7 DEF Inv1, TypeOK, Packet, Connect, Host, Accepting, Looks
  <2>2. Closing(g)'
    BY <1>7 DEF Inv1, TypeOK, Closing, Connect, MySock, Goto, Looks, Accepting
  <2>3. FinLate(g)'
    <3>1. sk'["K"].state \notin FinSeen /\ rx' = rx
      BY <1>7 DEF Looks, FinSeen, Connect
    <3> QED
      BY <1>9, <1>11, <3>1, FinKept DEF Inv1
  <2>4. RstLate(g)'
    BY <1>9 DEF Inv1, TypeOK, RstLate, Connect, Goto, Late
  <2>5. Held(g)'
    <3>1. Counted("K")'
      BY <1>7 DEF Counted, References, Looks
    <3> QED
      BY <1>11, <3>1, HeldKept DEF Inv1
  <2> QED
    BY <2>1, <2>2, <2>3, <2>4, <2>5
<1> QED
  BY <1>10, <1>12, <1>13, <1>14, <1>15 DEF Inv1

\* The server: the same for L.
LEMMA ListenKeeps ==
  ASSUME ConnAssumption, Inv1, Listen PROVE Inv1'
<1> DEFINE a == alloc_tcp_sock(ServerISS)
           b == [tcp_bind_hash(a) EXCEPT !.state = "LISTEN"]
           r == tcp_hash(b)
<1>0. TypeOK
  BY DEF Inv1
<1>1. Looks(a, "CLOSED", "no", FALSE, 0, -1, FALSE)
  BY Allocated DEF ConnAssumption, SeqNo
<1>2. Looks(tcp_bind_hash(a), "CLOSED", "no", TRUE, 0 + 1, -1, FALSE)
  BY <1>1, Bound, Zenon
<1>3. Looks(b, "LISTEN", "no", TRUE, 0 + 1, -1, FALSE)
  BY <1>2, Moved DEF States
<1>4. Looks(r, "LISTEN", IF "LISTEN" = "LISTEN" THEN "listen" ELSE "established",
            TRUE, 0 + 1 + 1, -1, FALSE)
  BY <1>3, Hashed, Zenon
<1>5. sk' = [sk EXCEPT !["L"] = r]
  BY DEF Listen
<1> HIDE DEF r
<1>6. /\ sk' \in [Socks -> Sock] /\ \A x \in Socks \ {"L"} : sk'[x] = sk[x]
      /\ Looks(sk'["L"], "LISTEN", "listen", TRUE, 2, -1, FALSE)
  <2>1. r \in Sock
    BY <1>4 DEF Looks
  <2>2. sk' \in [Socks -> Sock] /\ \A x \in Socks \ {"L"} : sk'[x] = sk[x]
    BY <1>0, <1>5, <2>1 DEF TypeOK, Socks
  <2>3. sk'["L"] = r
    BY <1>0, <1>5 DEF TypeOK, Socks
  <2> QED
    BY <1>4, <2>2, <2>3 DEF Looks
<1> USE DEF Hosts, Socks
<1>7. TypeOK'
  BY <1>6 DEF Inv1, TypeOK, Listen, Goto, queues, counter, waits
<1>8. Only("L") /\ Lasting
  BY <1>6 DEF Inv1, TypeOK, Listen, Goto, Only, Lasting, Running
<1>9. Roles'
  <2>1. Role("L")'
    BY <1>6 DEF Role, Looks
  <2> QED
    BY <1>8, <2>1, RolesKept DEF Inv1
<1>10. Queues'
  BY <1>6 DEF Inv1, TypeOK, Queues, NoChild, OneChild, Listen, queues, counter, Looks, Accepting
<1>11. Accepting'
  BY <1>6 DEF Inv1, TypeOK, Accepting, Accepted, Listen, queues, counter, waits, Goto, Running, Looks
<1>12. ASSUME NEW g \in Hosts
       PROVE  Packet(g)' /\ Closing(g)' /\ FinLate(g)' /\ RstLate(g)' /\ Held(g)'
  <2>1. Packet(g)'
    BY <1>6 DEF Inv1, TypeOK, Packet, Listen, Host, Accepting, Looks
  <2>2. Closing(g)'
    BY <1>6 DEF Inv1, TypeOK, Closing, Listen, MySock, Goto, Looks, Accepting
  <2>3. FinLate(g)'
    <3>1. sk'["L"].state \notin FinSeen /\ rx' = rx /\ net' = net
      BY <1>6 DEF Looks, FinSeen, Listen
    <3> QED
      BY <1>8, <3>1, FinKept DEF Inv1, Carries
  <2>4. RstLate(g)'
    BY DEF Inv1, TypeOK, RstLate, Listen, Goto, Carries, Late
  <2>5. Held(g)'
    <3>1. Counted("L")'
      BY <1>6 DEF Counted, References, Looks
    <3> QED
      BY <1>8, <3>1, HeldKept DEF Inv1
  <2> QED
    BY <2>1, <2>2, <2>3, <2>4, <2>5
<1> QED
  BY <1>7, <1>9, <1>10, <1>11, <1>12 DEF Inv1

\* Steps that leave the socks, the packets and the packet threads alone.
LEMMA AppMoves ==
  ASSUME Inv1, UNCHANGED <<sk, net, rx>>, Lasting, \A h \in Hosts : Running(h)' => Running(h),
         TypeOK', Queues', Accepting', \A h \in Hosts : Closing(h)'
  PROVE  Inv1'
<1>1. Roles'
  BY DEF Inv1, Roles, Role, Hosts
<1>2. ASSUME NEW h \in Hosts PROVE Packet(h)' /\ FinLate(h)' /\ RstLate(h)' /\ Held(h)'
  <2>1. Other(h) \in Hosts
    BY DEF Hosts, Other
  <2>2. Packet(h)'
    BY DEF Inv1, Packet
  <2>3. FinLate(h)'
    BY <2>1 DEF Inv1, FinLate, Lasting, Carries
  <2>4. RstLate(h)'
    BY DEF Inv1, RstLate, Lasting, Carries, Late
  <2>5. Held(h)'
    BY DEF Inv1, Held, Lasting, Counted, References, Late
  <2> QED
    BY <2>2, <2>3, <2>4, <2>5
<1> QED
  BY <1>1, <1>2 DEF Inv1

\* The rest of the two applications up to tcp_sock_close, step by step.
LEMMA ConnectSleepKeeps ==
  ASSUME Inv1, ConnectSleep PROVE Inv1'
<1> USE DEF Hosts
<1>1. UNCHANGED <<sk, net, rx>> /\ Lasting /\ \A g \in Hosts : Running(g)' => Running(g)
  BY DEF Inv1, TypeOK, ConnectSleep, Goto, Lasting, Running, queues, counter, waits
<1>2. TypeOK'
  BY DEF Inv1, TypeOK, ConnectSleep, Goto, queues, counter, waits, sleep_on, WaitStruct
<1>3. Queues'
  BY DEF Inv1, TypeOK, Queues, NoChild, OneChild, ConnectSleep, queues, counter
<1>4. Accepting'
  BY DEF Inv1, TypeOK, Accepting, Accepted, ConnectSleep, Goto, Running, queues, counter, waits, sleep_on, WaitStruct
<1>5. \A g \in Hosts : Closing(g)'
  BY DEF Inv1, TypeOK, Closing, ConnectSleep, Goto, MySock, Accepting
<1> QED
  BY <1>1, <1>2, <1>3, <1>4, <1>5, AppMoves

\* ... its return, ...
LEMMA ConnectWakeKeeps ==
  ASSUME Inv1, ConnectWake PROVE Inv1'
<1> USE DEF Hosts
<1>1. UNCHANGED <<sk, net, rx>> /\ Lasting /\ \A g \in Hosts : Running(g)' => Running(g)
  BY DEF Inv1, TypeOK, ConnectWake, Goto, Lasting, Running, queues, counter, waits
<1>2. TypeOK'
  BY DEF Inv1, TypeOK, ConnectWake, Goto, queues, counter, waits, resume, WaitStruct
<1>3. Queues'
  BY DEF Inv1, TypeOK, Queues, NoChild, OneChild, ConnectWake, queues, counter
<1>4. Accepting'
  BY DEF Inv1, TypeOK, Accepting, Accepted, ConnectWake, Goto, Running, queues, counter, waits, resume, WaitStruct
<1>5. \A g \in Hosts : Closing(g)'
  BY DEF Inv1, TypeOK, Closing, ConnectWake, Goto, MySock, Accepting
<1> QED
  BY <1>1, <1>2, <1>3, <1>4, <1>5, AppMoves

\* ... the test of tcp_sock_accept, ...
LEMMA AcceptTestKeeps ==
  ASSUME Inv1, AcceptTest PROVE Inv1'
<1> USE DEF Hosts
<1>1. UNCHANGED <<sk, net, rx>> /\ Lasting /\ \A g \in Hosts : Running(g)' => Running(g)
  BY DEF Inv1, TypeOK, AcceptTest, Goto, Lasting, Running, queues, counter, waits
<1>2. TypeOK'
  BY DEF Inv1, TypeOK, AcceptTest, Goto, queues, counter, waits
<1>3. Queues'
  BY DEF Inv1, TypeOK, Queues, NoChild, OneChild, AcceptTest, queues, counter
<1>4. Accepting'
  BY DEF Inv1, TypeOK, Accepting, Accepted, AcceptTest, Goto, Running, queues, counter, waits
<1>5. \A g \in Hosts : Closing(g)'
  BY DEF Inv1, TypeOK, Closing, AcceptTest, Goto, MySock, Accepting
<1> QED
  BY <1>1, <1>2, <1>3, <1>4, <1>5, AppMoves

\* ... its sleep_on, ...
LEMMA AcceptSleepKeeps ==
  ASSUME Inv1, AcceptSleep PROVE Inv1'
<1> USE DEF Hosts
<1>1. UNCHANGED <<sk, net, rx>> /\ Lasting /\ \A g \in Hosts : Running(g)' => Running(g)
  BY DEF Inv1, TypeOK, AcceptSleep, Goto, Lasting, Running, queues, counter, waits
<1>2. TypeOK'
  BY DEF Inv1, TypeOK, AcceptSleep, Goto, queues, counter, waits, sleep_on, WaitStruct
<1>3. Queues'
  BY DEF Inv1, TypeOK, Queues, NoChild, OneChild, AcceptSleep, queues, counter
<1>4. Accepting'
  BY DEF Inv1, TypeOK, Accepting, Accepted, AcceptSleep, Goto, Running, queues, counter, waits, sleep_on, WaitStruct
<1>5. \A g \in Hosts : Closing(g)'
  BY DEF Inv1, TypeOK, Closing, AcceptSleep, Goto, MySock, Accepting
<1> QED
  BY <1>1, <1>2, <1>3, <1>4, <1>5, AppMoves

\* ... and its return.
LEMMA AcceptWakeKeeps ==
  ASSUME Inv1, AcceptWake PROVE Inv1'
<1> USE DEF Hosts
<1>1. UNCHANGED <<sk, net, rx>> /\ Lasting /\ \A g \in Hosts : Running(g)' => Running(g)
  BY DEF Inv1, TypeOK, AcceptWake, Goto, Lasting, Running, queues, counter, waits
<1>2. TypeOK'
  BY DEF Inv1, TypeOK, AcceptWake, Goto, queues, counter, waits, resume, WaitStruct, CanResume
<1>3. Queues'
  BY DEF Inv1, TypeOK, Queues, NoChild, OneChild, AcceptWake, queues, counter
<1>4. Accepting'
  BY DEF Inv1, TypeOK, Accepting, Accepted, AcceptWake, Goto, Running, queues, counter, waits,
         resume, WaitStruct, CanResume
<1>5. \A g \in Hosts : Closing(g)'
  BY DEF Inv1, TypeOK, Closing, AcceptWake, Goto, MySock, Accepting
<1> QED
  BY <1>1, <1>2, <1>3, <1>4, <1>5, AppMoves

\* A sequence of one element.
LEMMA Single ==
  \A s : /\ Head(<<s>>) = s /\ Tail(<<s>>) = <<>> /\ Len(<<s>>) = 1 /\ <<s>> # <<>>
          /\ Append(<<>>, s) = <<s>> /\ Len(<<>>) = 0
  OBVIOUS

\* tcp_sock_accept_dequeue: the queue is empty only after a spurious wakeup; ...
LEMMA AcceptDequeueKeeps ==
  ASSUME Inv1, AcceptDequeue PROVE Inv1'
<1> USE DEF Hosts
<1>1. UNCHANGED <<sk, net, rx>> /\ Lasting /\ \A g \in Hosts : Running(g)' => Running(g)
  BY DEF Inv1, TypeOK, AcceptDequeue, Goto, Lasting, Running, waits
<1>5. /\ app' = [app EXCEPT !["server"] = "uncount_load"]
      /\ UNCHANGED <<env, left, listen_queue, accept_backlog, backlog_read, lost_update,
                     wait_connect, wait_accept, closeTo>>
  BY DEF AcceptDequeue, Goto, waits, counter
<1>2. CASE accept_queue = <<>>
  <2>1. up' = [up EXCEPT !["server"] = "wild pointer"] /\ UNCHANGED <<accept_queue, csk>>
    BY <1>2 DEF AcceptDequeue
  <2>2. TypeOK'
    BY <1>1, <1>5, <2>1 DEF Inv1, TypeOK
  <2>3. Queues'
    BY <2>1, <1>1, <1>5 DEF Inv1, Queues, NoChild, OneChild
  <2>4. Accepting'
    BY <1>2, <2>1, <1>1 DEF Inv1, TypeOK, Accepting, Accepted, AcceptDequeue, Goto, Running, waits
  <2>5. \A g \in Hosts : Closing(g)'
    BY <2>1 DEF Inv1, TypeOK, Closing, AcceptDequeue, Goto, MySock
  <2> QED
    BY <1>1, <2>2, <2>3, <2>4, <2>5, AppMoves
<1>3. ASSUME NEW s \in {"C", "X"}, accept_queue = <<s>> PROVE Inv1'
  <2>1. accept_queue' = <<>> /\ csk' = s /\ UNCHANGED <<up, listen_queue>>
    BY <1>3, Single DEF AcceptDequeue
  <2>2. TypeOK'
    <3>1. accept_queue' \in Seq({"C", "X"})
      BY <2>1
    <3> QED
      BY <1>1, <1>5, <2>1, <3>1 DEF Inv1, TypeOK
  <2>3. Queues'
    <3>2. s \notin {"none"} /\ <<s>> # <<>>
      BY Single
    <3>3. \/ s = "C" /\ OneChild("C", "X")
          \/ s = "X" /\ OneChild("X", "C")
      BY <1>3, <3>2 DEF Inv1, Queues, NoChild, OneChild
    <3>4. sk[s].state \in Opened /\ listen_queue = <<>>
      BY <1>3, <3>2, <3>3 DEF OneChild
    <3> QED
      BY <1>1, <1>5, <2>1, <3>3, <3>4 DEF Queues, OneChild
  <2>4. Accepting'
    BY <2>1, <1>1 DEF Inv1, TypeOK, Accepting, Accepted, AcceptDequeue, Goto, Running, waits
  <2>5. \A g \in Hosts : Closing(g)'
    BY <2>1, <1>1 DEF Inv1, TypeOK, Closing, AcceptDequeue, Goto, MySock
  <2> QED
    BY <1>1, <2>2, <2>3, <2>4, <2>5, AppMoves
<1>4. accept_queue \in {<<>>, <<"C">>, <<"X">>}
  BY DEF Inv1, Queues, NoChild, OneChild
<1> QED
  BY <1>2, <1>3, <1>4

\* The load and the store of a count keep its type, and both queues.
LEMMA Counting ==
  ASSUME TypeOK, NEW t \in {"rx", "app"}, NEW d \in Int, LoadBacklog(t) \/ StoreBacklog(t, d)
  PROVE  /\ UNCHANGED <<listen_queue, accept_queue>>
         /\ accept_backlog' \in Int /\ backlog_read' \in [rx : Int, app : Int]
         /\ lost_update' \in BOOLEAN
<1>1. accept_backlog \in Int /\ backlog_read \in [rx : Int, app : Int] /\ lost_update \in BOOLEAN
  BY DEF TypeOK
<1>2. CASE LoadBacklog(t)
  BY <1>1, <1>2 DEF LoadBacklog
<1>3. CASE StoreBacklog(t, d)
  <2>1. backlog_read[t] \in Int
    BY <1>1
  <2>2. backlog_read[t] + d \in Int
    BY <2>1
  <2>3. (lost_update \/ backlog_read[t] # accept_backlog) \in BOOLEAN
    OBVIOUS
  <2> QED
    BY <1>1, <1>3, <2>2, <2>3 DEF StoreBacklog
<1> QED
  BY <1>2, <1>3

\* ... and the count that follows changes nothing but itself.
LEMMA AcceptUncountKeeps ==
  ASSUME Inv1, AcceptUncount PROVE Inv1'
<1> USE DEF Hosts
<1>1. /\ UNCHANGED <<env, left, up, sk, net, rx, wait_connect, wait_accept, csk, closeTo>>
      /\ Running("server") /\ TypeOK
      /\ \/ app["server"] = "uncount_load" /\ app' = [app EXCEPT !["server"] = "uncount_store"]
         \/ app["server"] = "uncount_store" /\ app' = [app EXCEPT !["server"] = "sleep"]
  BY DEF AcceptUncount, Goto, waits, Inv1
<1>2. /\ UNCHANGED <<listen_queue, accept_queue>>
      /\ accept_backlog' \in Int /\ backlog_read' \in [rx : Int, app : Int]
      /\ lost_update' \in BOOLEAN
  <2>1. LoadBacklog("app") \/ StoreBacklog("app", -1)
    BY DEF AcceptUncount
  <2>2. -1 \in Int
    OBVIOUS
  <2> QED
    BY <1>1, <2>1, <2>2, Counting
<1>3. Lasting /\ \A g \in Hosts : Running(g)' => Running(g)
  BY <1>1 DEF Lasting, Running, TypeOK
<1>4. TypeOK'
  <2> DEFINE Pcs == {"start", "sleep_on", "blocked", "accept", "dequeue", "uncount_load",
                     "uncount_store", "sleep", "set_state", "send_fin", "done"}
  <2>1. app \in [Hosts -> Pcs] /\ "uncount_store" \in Pcs /\ "sleep" \in Pcs
    BY <1>1 DEF TypeOK
  <2> HIDE DEF Pcs
  <2>2. app' \in [Hosts -> Pcs]
    BY <1>1, <2>1
  <2> USE DEF Pcs
  <2> QED
    BY <1>1, <1>2, <2>2 DEF TypeOK
<1>5. Queues'
  BY <1>1, <1>2 DEF Inv1, Queues, NoChild, OneChild
<1>6. Accepting'
  BY <1>1, <1>2 DEF Inv1, TypeOK, Accepting, Accepted, Running
<1>7. \A g \in Hosts : Closing(g)'
  BY <1>1 DEF Inv1, TypeOK, Closing, MySock
<1> QED
  BY <1>1, <1>3, <1>4, <1>5, <1>6, <1>7, AppMoves

\* The switch of tcp_sock_close.
LEMMA Branches ==
  \A st : \/ st = "ESTABLISHED" /\ CloseBranch(st) = "FIN_WAIT_1"
          \/ st = "CLOSE_WAIT" /\ CloseBranch(st) = "LAST_ACK"
          \/ st \notin {"ESTABLISHED", "CLOSE_WAIT"} /\ CloseBranch(st) = "none"
<1> TAKE st
<1>1. st = "ESTABLISHED" => CloseBranch(st) = "FIN_WAIT_1"
  BY DEF CloseBranch
<1>2. st = "CLOSE_WAIT" => CloseBranch(st) = "LAST_ACK"
  BY DEF CloseBranch
<1>3. st \notin {"ESTABLISHED", "CLOSE_WAIT"} => CloseBranch(st) = "none"
  BY DEF CloseBranch
<1> QED
  BY <1>1, <1>2, <1>3

\* The branch chosen suits the state read.
LEMMA CloseSwitchKeeps ==
  ASSUME Inv1, NEW h \in Hosts, CloseSwitch(h) PROVE Inv1'
<1> DEFINE st == sk[MySock(h)].state
           to == CloseBranch(st)
<1> USE DEF Hosts
<1>1. UNCHANGED <<sk, net, rx>> /\ Lasting /\ \A g \in Hosts : Running(g)' => Running(g)
  BY DEF Inv1, TypeOK, CloseSwitch, Goto, Lasting, Running, queues, counter, waits
<1>2. /\ closeTo' = [closeTo EXCEPT ![h] = to] /\ Running(h)
      /\ app[h] = "sleep" /\ app' = [app EXCEPT ![h] = IF to = "none" THEN "done" ELSE "set_state"]
      /\ UNCHANGED <<env, left, up, sk, queues, waits, csk, rx, net>>
  BY DEF CloseSwitch, Goto
<1>3. \/ st = "ESTABLISHED" /\ to = "FIN_WAIT_1"
      \/ st = "CLOSE_WAIT" /\ to = "LAST_ACK"
      \/ to = "none"
  BY Branches
<1>4. /\ app \in [Hosts -> {"start", "sleep_on", "blocked", "accept", "dequeue",
                            "uncount_load", "uncount_store", "sleep", "set_state", "send_fin", "done"}]
      /\ closeTo \in [Hosts -> {"none", "FIN_WAIT_1", "LAST_ACK"}]
  BY DEF Inv1, TypeOK
<1> HIDE DEF to
<1>5. TypeOK'
  BY <1>2, <1>3, <1>4 DEF Inv1, TypeOK, queues, counter, waits
<1>6. Queues'
  BY <1>2 DEF Inv1, Queues, NoChild, OneChild, queues, counter
<1>7. Accepting'
  BY <1>2, <1>4 DEF Inv1, TypeOK, Accepting, Accepted, Running, queues, counter, waits
<1>8. ASSUME NEW g \in Hosts PROVE Closing(g)'
  <2>1. CASE g = h
    BY <1>2, <1>3, <1>4, <2>1 DEF Closing, MySock
  <2>2. CASE g # h
    BY <1>2, <1>4, <2>2 DEF Inv1, Closing, MySock
  <2> QED
    BY <2>1, <2>2
<1> QED
  BY <1>1, <1>5, <1>6, <1>7, <1>8, AppMoves

\* The sock that the application closes is one of its host's, and not L.
LEMMA Mine ==
  ASSUME Inv1, NEW h \in Hosts,
         app[h] \in {"set_state", "send_fin"} \/ (app[h] = "sleep" /\ Running(h))
  PROVE  /\ MySock(h) \in Socks \ {"L"} /\ Host(MySock(h)) = h
         /\ h = "server" => sk[MySock(h)].state \in Opened /\ csk = MySock(h)
         /\ sk[MySock(h)].state # "none"
  BY DEF Inv1, TypeOK, Accepting, MySock, Hosts, Socks, Host, Queues, NoChild, OneChild, Opened

\* The state written is one after the connection, whatever has come since.
LEMMA CloseSetStateKeeps ==
  ASSUME Inv1, NEW h \in Hosts, CloseSetState(h) PROVE Inv1'
<1>0. PICK s \in Socks : s = MySock(h)
  BY Mine DEF CloseSetState
<1> DEFINE to == closeTo[h]
<1>1. /\ Running(h) /\ app[h] = "set_state" /\ app' = [app EXCEPT ![h] = "send_fin"]
      /\ sk' = [sk EXCEPT ![s].state = to]
      /\ UNCHANGED <<env, left, up, queues, waits, csk, closeTo, rx, net>>
  BY <1>0 DEF CloseSetState, Goto
<1>2. TypeOK /\ Closing(h)
  BY DEF Inv1
<1>3. \/ to = "FIN_WAIT_1" /\ sk[s].state \in {"ESTABLISHED", "CLOSE_WAIT"}
      \/ to = "LAST_ACK" /\ sk[s].state = "CLOSE_WAIT"
  BY <1>0, <1>1, <1>2 DEF Closing
<1>4. /\ s # "L" /\ Host(s) = h
      /\ h = "server" => csk = s
  BY <1>0, <1>1, Mine
<1> HIDE DEF to
<1>5. Looks([sk[s] EXCEPT !.state = to], to, sk[s].hashed, sk[s].bound, sk[s].ref_cnt,
            sk[s].timer, sk[s].freed)
  <2>1. Looks(sk[s], sk[s].state, sk[s].hashed, sk[s].bound, sk[s].ref_cnt,
              sk[s].timer, sk[s].freed)
    BY <1>2, <1>4, Itself
  <2>2. to \in States
    BY <1>3 DEF States
  <2> QED
    BY <2>1, <2>2, Moved
<1>6. /\ sk' \in [Socks -> Sock] /\ Became(s, to)
      /\ \A x \in Socks \ {s} : sk'[x] = sk[x]
  BY <1>1, <1>2, <1>4, <1>5, Rewritten
<1>7. app \in [Hosts -> {"start", "sleep_on", "blocked", "accept", "dequeue",
                         "uncount_load", "uncount_store", "sleep", "set_state", "send_fin", "done"}]
  BY <1>2 DEF TypeOK
<1>8. TypeOK'
  BY <1>1, <1>2, <1>6, <1>7 DEF TypeOK, queues, counter, waits
<1>9. Only(s) /\ Lasting
  BY <1>1, <1>6, <1>7 DEF Only, Lasting, Running
<1>10. Roles'
  <2>1. Role(s)'
    <3>1. sk[s].state # "TIME_WAIT" /\ to \in Opened
      BY <1>3 DEF Opened, States
    <3> QED
      BY <1>1, <1>4, <1>6, <1>9, <3>1, RoleStays DEF Inv1
  <2> QED
    BY <1>4, <1>9, <2>1, RolesKept DEF Inv1
<1>11. sk[s].state \in Opened /\ sk'[s].state \in Opened
  BY <1>3, <1>6 DEF Became, Looks, Opened, States
<1>12. Queues'
  BY <1>1, <1>4, <1>6, <1>11 DEF Inv1, Queues, NoChild, OneChild, queues, counter, Opened, Socks, Host
<1>13. Accepting'
  BY <1>1, <1>4, <1>6, <1>7, <1>11 DEF Inv1, Accepting, Accepted, queues, counter, waits, Running, Opened,
         Socks, Hosts
<1>14. ASSUME NEW g \in Hosts
       PROVE  Packet(g)' /\ Closing(g)' /\ FinLate(g)' /\ RstLate(g)' /\ Held(g)'
  <2>1. Packet(g)'
    BY <1>1, <1>3, <1>4, <1>6 DEF Inv1, Packet, Became, Looks
  <2>2. Closing(g)'
    BY <1>1, <1>4, <1>6, <1>7 DEF Inv1, Closing, MySock, Hosts, Socks, Host, TypeOK, Accepting
  <2>3. FinLate(g)'
    <3>1. sk'[s].state \in FinSeen => sk[s].state \in FinSeen
      BY <1>3, <1>6 DEF Became, Looks, FinSeen
    <3> QED
      BY <1>1, <1>4, <1>9, <3>1, FinKept DEF Inv1, Carries
  <2>4. RstLate(g)'
    BY <1>1, <1>9 DEF Inv1, RstLate, Carries, Lasting, Late
  <2>5. Held(g)'
    <3>1. Counted(s) => Counted(s)'
      BY <1>4, <1>6, <1>11, CountedStays DEF Opened
    <3> QED
      BY <1>1, <1>4, <1>7, <1>9, <3>1, HeldKept DEF Inv1, Held, Late
  <2> QED
    BY <2>1, <2>2, <2>3, <2>4, <2>5
<1> QED
  BY <1>8, <1>10, <1>12, <1>13, <1>14 DEF Inv1

\* The FIN sent is that of an application that has closed.
LEMMA CloseSendFinKeeps ==
  ASSUME ConnAssumption, Inv1, NEW h \in Hosts, CloseSendFin(h) PROVE Inv1'
<1>0. PICK s \in Socks : s = MySock(h)
  BY Mine DEF CloseSendFin
<1> DEFINE fin == {"FIN", "ACK"}
           seg == ControlPacket(s, sk[s], fin)
<1>1. /\ Running(h) /\ app[h] = "send_fin" /\ app' = [app EXCEPT ![h] = "done"]
      /\ sk' = [sk EXCEPT ![s] = AfterControl(sk[s], fin)]
      /\ net' = Emit(net, h, seg)
      /\ UNCHANGED <<env, left, up, queues, waits, csk, closeTo, rx>>
  BY <1>0 DEF CloseSendFin, Goto
<1>2. TypeOK
  BY DEF Inv1
<1>3. /\ s # "L" /\ Host(s) = h
      /\ h = "server" => csk = s
      /\ sk[s].state # "none" /\ (h = "server" => sk[s].state \in Opened)
  BY <1>0, <1>1, Mine
<1>4. /\ sk[s] \in Sock
      /\ Looks(AfterControl(sk[s], fin), sk[s].state, sk[s].hashed, sk[s].bound, sk[s].ref_cnt,
               sk[s].timer, sk[s].freed)
  <2>1. /\ Looks(sk[s], sk[s].state, sk[s].hashed, sk[s].bound, sk[s].ref_cnt,
              sk[s].timer, sk[s].freed)
        /\ sk[s] \in Sock
    BY <1>2, Itself
  <2> QED
    BY <2>1, Controlled
<1>5. /\ sk' \in [Socks -> Sock] /\ Became(s, sk[s].state)
      /\ \A x \in Socks \ {s} : sk'[x] = sk[x]
  BY <1>1, <1>2, <1>4, Rewritten
<1>6. seg \in Segment /\ seg.flags = fin
  <2>1. fin \in SUBSET Flags
    BY DEF Flags
  <2> QED
    BY <1>4, <2>1, Controls
<1>7. /\ net' \in [Hosts -> Seq(Segment)]
      /\ \A o \in Hosts, f \in {"FIN", "RST"} :
           Carries(o, f)' => Carries(o, f) \/ (o = Other(h) /\ f = "FIN")
  <2> HIDE DEF seg
  <2> QED
    BY <1>1, <1>2, <1>6, Sending DEF Flags
<1>8. app \in [Hosts -> {"start", "sleep_on", "blocked", "accept", "dequeue",
                         "uncount_load", "uncount_store", "sleep", "set_state", "send_fin", "done"}]
  BY <1>2 DEF TypeOK
<1>9. TypeOK'
  BY <1>1, <1>2, <1>5, <1>7, <1>8 DEF TypeOK, queues, counter, waits
<1>10. Only(s) /\ Lasting
  BY <1>1, <1>5, <1>8 DEF Only, Lasting, Running
<1>11. sk'[s].state = sk[s].state /\ sk'[s].timer = sk[s].timer
  BY <1>5 DEF Became, Looks
<1>12. Roles'
  <2>1. Role(s)'
    BY <1>1, <1>3, <1>5, <1>10, RoleStays DEF Inv1
  <2> QED
    BY <1>10, <2>1, RolesKept DEF Inv1
<1>13. Queues'
  BY <1>1, <1>3, <1>5, <1>11 DEF Inv1, Queues, NoChild, OneChild, queues, counter, Socks
<1>14. Accepting'
  BY <1>1, <1>3, <1>5, <1>8, <1>11 DEF Inv1, Accepting, Accepted, queues, counter, waits, Running, Socks, Hosts
<1>15. ASSUME NEW g \in Hosts
       PROVE  Packet(g)' /\ Closing(g)' /\ FinLate(g)' /\ RstLate(g)' /\ Held(g)'
  <2>0. g = Other(h) => app'[Other(g)] = "done"
    BY <1>1, <1>8 DEF Other, Hosts
  <2>1. Packet(g)'
    BY <1>1, <1>5, <1>11 DEF Inv1, Packet
  <2>2. Closing(g)'
    BY <1>1, <1>3, <1>5, <1>8 DEF Inv1, Closing, MySock, Hosts, Socks, Host, TypeOK, Accepting
  <2>3. FinLate(g)'
    BY <1>1, <1>7, <1>10, <1>11, <2>0, FinKept DEF Inv1
  <2>4. RstLate(g)'
    BY <1>1, <1>7, <1>10 DEF Inv1, RstLate, Lasting, Late
  <2>5. Held(g)'
    <3>1. Counted(s) => Counted(s)'
      BY <1>3, <1>5, CountedStays
    <3>2. Host(s) = g /\ ~ Late(g)' => Counted(s)
      BY <1>10 DEF Inv1, Held, Late, Lasting
    <3> QED
      BY <1>10, <3>1, <3>2, HeldKept DEF Inv1
  <2> QED
    BY <2>1, <2>2, <2>3, <2>4, <2>5
<1> QED
  BY <1>9, <1>12, <1>13, <1>14, <1>15 DEF Inv1

-----------------------------------------------------------------------------
(* The network.                                                             *)

\* A packet that is appended to those on their way to h.
LEMMA Appended ==
  ASSUME TypeOK, NEW h \in Hosts, NEW seg \in Segment,
         net' = [net EXCEPT ![h] = Append(net[h], seg)]
  PROVE  /\ net' \in [Hosts -> Seq(Segment)]
         /\ \A o \in Hosts, f \in Flags :
              Carries(o, f)' => Carries(o, f) \/ (o = h /\ f \in seg.flags)
<1>1. net \in [Hosts -> Seq(Segment)] /\ net[h] \in Seq(Segment)
  BY DEF TypeOK
<1>2. /\ Append(net[h], seg) \in Seq(Segment)
      /\ \A i \in DOMAIN Append(net[h], seg) :
           \/ i \in DOMAIN net[h] /\ Append(net[h], seg)[i] = net[h][i]
           \/ Append(net[h], seg)[i] = seg
  BY <1>1
<1>3. \A o \in Hosts : net'[o] = IF o = h THEN Append(net[h], seg) ELSE net[o]
  BY <1>1
<1>4. net' \in [Hosts -> Seq(Segment)]
  BY <1>1, <1>2
<1>5. ASSUME NEW o \in Hosts, NEW f \in Flags, Carries(o, f)'
      PROVE  Carries(o, f) \/ (o = h /\ f \in seg.flags)
  BY <1>2, <1>3, <1>5 DEF Carries
<1> QED
  BY <1>4, <1>5

\* Steps of the network add no FIN and no RST that was not there.
LEMMA NetMoves ==
  ASSUME Inv1, UNCHANGED <<env, up, sk, queues, waits, appVars, rx>>,
         left' \in [foreign : BOOLEAN, dups : Nat], net' \in [Hosts -> Seq(Segment)],
         \A o \in Hosts, f \in {"FIN", "RST"} : Carries(o, f)' => Carries(o, f)
  PROVE  Inv1'
<1>1. TypeOK'
  BY DEF Inv1, TypeOK, queues, counter, waits, appVars
<1>2. Roles' /\ Queues' /\ Accepting'
  BY DEF Inv1, Roles, Role, Running, Queues, NoChild, OneChild, Accepting, Accepted,
         queues, counter, waits, appVars
<1>3. ASSUME NEW h \in Hosts
      PROVE  Packet(h)' /\ Closing(h)' /\ FinLate(h)' /\ RstLate(h)' /\ Held(h)'
  <2>1. Packet(h)' /\ Closing(h)' /\ Held(h)'
    BY DEF Inv1, Packet, Closing, MySock, Held, Counted, References, appVars, Late
  <2>2. FinLate(h)' /\ RstLate(h)'
    BY DEF Inv1, FinLate, RstLate, appVars, Late
  <2> QED
    BY <2>1, <2>2
<1> QED
  BY <1>1, <1>2, <1>3 DEF Inv1

\* The SYN of the other peer.
LEMMA ForeignSynKeeps ==
  ASSUME ConnAssumption, Inv1, ForeignSyn PROVE Inv1'
<1> DEFINE seg == [conn |-> "x", flags |-> {"SYN"}, seq |-> 0, ack |-> 0]
<1>1. seg \in Segment /\ seg.flags = {"SYN"}
  BY SeqNoRange DEF Segment
<1>2. /\ net' = [net EXCEPT !["server"] = Append(net["server"], seg)]
      /\ left' = [left EXCEPT !.foreign = FALSE]
      /\ UNCHANGED <<env, up, sk, queues, waits, appVars, rx>>
  BY DEF ForeignSyn
<1> HIDE DEF seg
<1>3. /\ net' \in [Hosts -> Seq(Segment)]
      /\ \A o \in Hosts, f \in {"FIN", "RST"} : Carries(o, f)' => Carries(o, f)
  BY <1>1, <1>2, Appended DEF Inv1, Hosts, Flags
<1>4. left' \in [foreign : BOOLEAN, dups : Nat]
  BY <1>2 DEF Inv1, TypeOK
<1> QED
  BY <1>2, <1>3, <1>4, NetMoves

\* A duplicate is a copy of what was on its way.
LEMMA DuplicateKeeps ==
  ASSUME Inv1, NEW h \in Hosts, Duplicate(h) PROVE Inv1'
<1>1. /\ net[h] # <<>> /\ net' = [net EXCEPT ![h] = Append(net[h], Head(net[h]))]
      /\ left.dups > 0 /\ left' = [left EXCEPT !.dups = left.dups - 1]
      /\ UNCHANGED <<env, up, sk, queues, waits, appVars, rx>>
  BY DEF Duplicate
<1>2. TypeOK
  BY DEF Inv1
<1>3. /\ Head(net[h]) \in Segment
      /\ \A f \in Flags : f \in Head(net[h]).flags => Carries(h, f)
  BY <1>1, <1>2, Taking
<1>4. /\ net' \in [Hosts -> Seq(Segment)]
      /\ \A o \in Hosts, f \in {"FIN", "RST"} : Carries(o, f)' => Carries(o, f)
  BY <1>1, <1>2, <1>3, Appended DEF Flags
<1>5. left' \in [foreign : BOOLEAN, dups : Nat]
  <2>1. left \in [foreign : BOOLEAN, dups : Nat]
    BY <1>2 DEF TypeOK
  <2>2. left.dups \in Nat
    BY <2>1
  <2>3. left.dups - 1 \in Nat
    BY <1>1, <2>2
  <2> QED
    BY <1>1, <2>1, <2>3
<1> QED
  BY <1>1, <1>4, <1>5, NetMoves

-----------------------------------------------------------------------------
(* The packet threads.                                                      *)

\* What a handler finds when a packet has arrived.
LEMMA Arrival ==
  ASSUME TypeOK, NEW h \in Hosts, NEW s, NEW st, ArrivesIn(h, s, st)
  PROVE  /\ Running(h) /\ rx[h] = RxIdle /\ net[h] # <<>> /\ Head(net[h]) \in Segment
         /\ s \in Socks /\ Host(s) = h /\ sk[s].state = st
         /\ \A f \in Flags : f \in Head(net[h]).flags => Carries(h, f)
<1>1. /\ Running(h) /\ rx[h] = RxIdle /\ net[h] # <<>>
      /\ s = tcp_sock_lookup(h, Head(net[h]).conn) /\ s # "none" /\ sk[s].state = st
  BY DEF ArrivesIn, Arrives
<1>2. Head(net[h]) \in Segment /\ \A f \in Flags : f \in Head(net[h]).flags => Carries(h, f)
  BY <1>1, Taking
<1>3. Head(net[h]).conn \in {"k", "x"}
  BY <1>2 DEF Segment
<1> QED
  BY <1>1, <1>2, <1>3, LookedUp

\* How a handler may change a state: not into, out of or within the handshake of
\* the server.
Mild(s) == \/ sk'[s].state = sk[s].state
           \/ s = "K" /\ sk[s].state # "none" /\ sk'[s].state # "none"
           \/ s # "L" /\ sk[s].state \in Opened /\ sk'[s].state \in Opened

\* Such a change leaves the queues what they are, ...
LEMMA QueuesMild ==
  ASSUME Queues, UNCHANGED <<up, queues, csk>>, NEW s \in Socks, Mild(s),
         \A x \in Socks \ {s} : sk'[x] = sk[x]
  PROVE  Queues'
<1>1. /\ sk'["L"].state = sk["L"].state
      /\ \A x \in {"C", "X"} : \/ sk'[x].state = sk[x].state
                               \/ sk[x].state \in Opened /\ sk'[x].state \in Opened
  BY DEF Mild, Socks
<1>2. UNCHANGED <<up, listen_queue, accept_queue, csk>>
  BY DEF queues, counter
<1>3. NoChild => NoChild'
  BY <1>1, <1>2 DEF NoChild, Opened
<1>4. ASSUME NEW x \in {"C", "X"}, NEW y \in {"C", "X"}, OneChild(x, y) PROVE OneChild(x, y)'
  BY <1>1, <1>2, <1>4 DEF OneChild, Opened
<1> QED
  BY <1>2, <1>3, <1>4 DEF Queues

\* ... and the application of the server where it is, ...
LEMMA AcceptingMild ==
  ASSUME Accepting, UNCHANGED <<env, up, queues, wait_accept, appVars>>,
         NEW s \in Socks, Mild(s),
         \A x \in Socks \ {s} : sk'[x] = sk[x],
         rx'["client"].pc \notin Announces,
         rx'["server"].pc \in Announces => rx["server"].pc \in Announces
  PROVE  Accepting'
<1>1. /\ sk'["L"].state = sk["L"].state
      /\ sk["K"].state = "none" <=> sk'["K"].state = "none"
  BY DEF Mild, Socks, Opened
<1>2. UNCHANGED <<env, up, accept_queue, wait_accept, app, csk>>
  BY DEF queues, counter, appVars
<1> QED
  BY <1>1, <1>2 DEF Accepting, Accepted, Running

\* ... and a tcp_sock_close between its steps sees at most a FIN.
LEMMA ClosingMild ==
  ASSUME Inv1, NEW h \in Hosts, UNCHANGED appVars, NEW s \in Socks,
         \A x \in Socks \ {s} : sk'[x] = sk[x],
         Host(s) = h /\ sk[s].state \in {"ESTABLISHED", "CLOSE_WAIT"} /\ app[h] # "done"
           => sk'[s].state \in {sk[s].state, "CLOSE_WAIT"}
  PROVE  Closing(h)'
<1>1. SUFFICES ASSUME app'[h] = "set_state"
               PROVE  \/ closeTo'[h] = "FIN_WAIT_1"
                         /\ sk'[MySock(h)'].state \in {"ESTABLISHED", "CLOSE_WAIT"}
                      \/ closeTo'[h] = "LAST_ACK" /\ sk'[MySock(h)'].state = "CLOSE_WAIT"
  BY DEF Closing
<1>2. app[h] = "set_state" /\ closeTo'[h] = closeTo[h] /\ csk' = csk
  BY <1>1 DEF appVars
<1>3. PICK m \in Socks : m = MySock(h) /\ Host(m) = h
  BY <1>2, Mine
<1>4. MySock(h)' = m
  BY <1>2, <1>3 DEF MySock
<1>5. \/ closeTo[h] = "FIN_WAIT_1" /\ sk[m].state \in {"ESTABLISHED", "CLOSE_WAIT"}
      \/ closeTo[h] = "LAST_ACK" /\ sk[m].state = "CLOSE_WAIT"
  BY <1>2, <1>3 DEF Inv1, Closing
<1>6. \/ closeTo[h] = "FIN_WAIT_1" /\ sk'[m].state \in {"ESTABLISHED", "CLOSE_WAIT"}
      \/ closeTo[h] = "LAST_ACK" /\ sk'[m].state = "CLOSE_WAIT"
  <2>1. CASE m = s
    BY <1>2, <1>3, <1>5, <2>1
  <2>2. CASE m # s
    BY <1>5, <2>2
  <2> QED
    BY <2>1, <2>2
<1> QED
  BY <1>2, <1>4, <1>6

\* Each host is the other of the other one.
LEMMA TwoHosts ==
  \A g, h \in Hosts : Other(g) \in Hosts /\ Other(g) # g /\ (g = h \/ g = Other(h))
  BY DEF Hosts, Other

\* What a step of the packet thread of h that is done with sock s may change.
Handles(h, s) ==
  /\ s \in Socks /\ Host(s) = h
  /\ UNCHANGED <<env, left, up, queues, wait_accept, appVars>>
  /\ wait_connect' \in WaitStruct({"client"})
  /\ sk' \in [Socks -> Sock] /\ \A x \in Socks \ {s} : sk'[x] = sk[x]
  /\ rx' \in [Hosts -> [pc : RxPcs, sock : Socks \cup {"none"}, rst : BOOLEAN]]
  /\ rx'[Other(h)] = rx[Other(h)]
  /\ net' \in [Hosts -> Seq(Segment)]

\* Such a step keeps the invariant when what it does to the state of s, to its
\* references and to the packets is what these assumptions allow.
LEMMA RxMoves ==
  ASSUME Inv1, NEW h \in Hosts, NEW s \in Socks, Handles(h, s), Mild(s), Role(s)',
         Late(h) \/ (Counted(s) => Counted(s)'),
         sk'[s].state \in FinSeen =>
            \/ sk[s].state \in FinSeen \/ rx[h].pc = "close_wait"
            \/ Carries(h, "FIN") \/ app[Other(h)] = "done",
         sk[s].state \in {"ESTABLISHED", "CLOSE_WAIT"} /\ app[h] # "done" =>
            sk'[s].state \in {sk[s].state, "CLOSE_WAIT"},
         Packet(h)', rx'[h].pc \notin Announces,
         rx'[h].rst => rx[h].rst \/ Carries(h, "RST"),
         rx'[h].pc = "close_wait" => Carries(h, "FIN"),
         \A o \in Hosts : /\ Carries(o, "FIN")' => Carries(o, "FIN") \/ app[Other(o)] = "done"
                          /\ Carries(o, "RST")' => Carries(o, "RST") \/ Late(o)
  PROVE  Inv1'
<1>1. TypeOK'
  BY DEF Inv1, TypeOK, queues, counter, appVars, Handles
<1>2. Only(s) /\ Lasting /\ UNCHANGED appVars
  BY DEF Only, Lasting, Running, appVars, Handles
<1>3. Roles'
  BY <1>2, RolesKept DEF Inv1
<1>4. Queues'
  BY QueuesMild DEF Inv1, Handles, appVars
<1>5. Accepting'
  <2>1. \A g \in Hosts : rx'[g].pc \in Announces => g # h /\ rx[g].pc \in Announces
    BY TwoHosts DEF Handles
  <2>2. rx["client"].pc \notin Announces
    BY DEF Inv1, Accepting
  <2>3. /\ rx'["client"].pc \notin Announces
        /\ rx'["server"].pc \in Announces => rx["server"].pc \in Announces
    BY <2>1, <2>2 DEF Hosts
  <2> QED
    BY <2>3, AcceptingMild DEF Inv1, Handles
<1>6. ASSUME NEW g \in Hosts
      PROVE  Packet(g)' /\ Closing(g)' /\ FinLate(g)' /\ RstLate(g)' /\ Held(g)'
  <2>1. g # h => rx'[g] = rx[g]
    BY TwoHosts DEF Handles
  <2>2. Packet(g)'
    <3>1. CASE g # h
      <4>1. rx'[g] = rx[g] /\ Packet(g)
        BY <2>1, <3>1 DEF Inv1
      <4>2. Host(rx[g].sock) = g /\ rx[g].sock \in Socks => sk'[rx[g].sock] = sk[rx[g].sock]
        BY <3>1 DEF Handles
      <4> QED
        BY <4>1, <4>2 DEF Packet
    <3> QED
      BY <3>1
  <2>3. Closing(g)'
    BY <1>2, ClosingMild DEF Handles
  <2>4. FinLate(g)'
    <3>1. g = h => Other(g) = Other(h)
      OBVIOUS
    <3>2. FinLate(g) /\ app'[Other(g)] = app[Other(g)]
      BY <1>2 DEF Inv1, appVars
    <3> HIDE DEF FinSeen
    <3>3. rx'[g].pc = "close_wait" => rx[g].pc = "close_wait" \/ Carries(g, "FIN")
      BY <2>1
    <3>4. Host(s) = g /\ sk'[s].state \in FinSeen =>
            sk[s].state \in FinSeen \/ rx[g].pc = "close_wait"
              \/ Carries(g, "FIN") \/ app'[Other(g)] = "done"
      BY <3>2 DEF Handles
    <3> QED
      BY <1>2, <3>2, <3>3, <3>4, FinKept
  <2>5. RstLate(g)'
    <3>1. RstLate(g) /\ (Late(g) <=> Late(g)')
      BY <1>2 DEF Inv1, Late, appVars, Lasting
    <3> QED
      BY <2>1, <3>1 DEF RstLate
  <2>6. Held(g)'
    <3>1. Held(g) /\ app'[g] = app[g]
      BY <1>2 DEF Inv1, appVars
    <3>2. ~ Late(g) /\ Host(s) = g => Counted(s)
      BY <3>1 DEF Held
    <3>3. Host(s) = g /\ ~ Late(g)' => Counted(s)'
      BY <3>1, <3>2 DEF Handles, Late
    <3> QED
      BY <1>2, <3>1, <3>3, HeldKept
  <2> QED
    BY <2>2, <2>3, <2>4, <2>5, <2>6
<1> QED
  BY <1>1, <1>3, <1>4, <1>5, <1>6 DEF Inv1

\* Where the packet thread goes on.
LEMMA Continues ==
  ASSUME TypeOK, NEW h \in Hosts, NEW s \in Socks, Host(s) = h,
         NEW p \in RxPcs \ {"idle"}, NEW rst \in BOOLEAN,
         Then(h, s, p, rst),
         p = "close_wait" => sk'[s].state \in {"ESTABLISHED", "FIN_WAIT_1"}
  PROVE  /\ rx' \in [Hosts -> [pc : RxPcs, sock : Socks \cup {"none"}, rst : BOOLEAN]]
         /\ rx'[Other(h)] = rx[Other(h)] /\ Packet(h)'
         /\ rx'[h].rst => rst
         /\ rx'[h].pc = p \/ rx'[h].pc = "idle"
<1>1. rx \in [Hosts -> [pc : RxPcs, sock : Socks \cup {"none"}, rst : BOOLEAN]]
  BY DEF TypeOK
<1>2. Other(h) \in Hosts /\ Other(h) # h
  BY TwoHosts
<1> DEFINE r == [pc |-> p, sock |-> s, rst |-> rst]
<1>3. CASE p = "end" /\ ~ rst
  <2>1. rx' = [rx EXCEPT ![h] = RxIdle]
    BY <1>3 DEF Then
  <2>2. RxIdle.rst = FALSE /\ RxIdle.pc = "idle" /\ RxIdle \in
          [pc : RxPcs, sock : Socks \cup {"none"}, rst : BOOLEAN]
    BY DEF RxIdle
  <2> HIDE DEF RxIdle
  <2>3. rx'[h] = RxIdle /\ rx'[Other(h)] = rx[Other(h)]
    BY <1>1, <1>2, <2>1
  <2> QED
    BY <1>1, <2>1, <2>2, <2>3 DEF Packet
<1>4. CASE ~ (p = "end" /\ ~ rst)
  <2>1. rx' = [rx EXCEPT ![h] = r]
    BY <1>4 DEF Then
  <2>2. rx'[h] = r /\ rx'[Other(h)] = rx[Other(h)]
    BY <1>1, <1>2, <2>1
  <2>3. Packet(h)'
    BY <1>4, <2>2 DEF Packet
  <2>4. r \in [pc : RxPcs, sock : Socks \cup {"none"}, rst : BOOLEAN]
    OBVIOUS
  <2> QED
    BY <1>1, <2>1, <2>2, <2>3, <2>4
<1> QED
  BY <1>3, <1>4

\* A handler that changes at most the state and the sequence numbers of s.
LEMMA Handler ==
  ASSUME Inv1, NEW h \in Hosts, NEW s, NEW st, ArrivesIn(h, s, st),
         UNCHANGED <<env, left, up, queues, waits, appVars>>,
         NEW to \in States, Became(s, to),
         sk' \in [Socks -> Sock], \A x \in Socks \ {s} : sk'[x] = sk[x],
         \/ to = st
         \/ s = "K" /\ st \notin {"none", "TIME_WAIT"} /\ to \in Opened
         \/ s # "L" /\ st \in Opened /\ st # "TIME_WAIT" /\ to \in Opened,
         to \in FinSeen => st \in FinSeen,
         st \in {"ESTABLISHED", "CLOSE_WAIT"} => to = st,
         NEW p \in {"end", "wake_connect", "close_wait"}, NEW rst \in BOOLEAN, Then(h, s, p, rst),
         rst => HasRst(h),
         p = "close_wait" => to = "ESTABLISHED" /\ "FIN" \in Head(net[h]).flags,
         net' \in [Hosts -> Seq(Segment)],
         \A o \in Hosts : /\ Carries(o, "FIN")' => Carries(o, "FIN") \/ app[Other(o)] = "done"
                          /\ Carries(o, "RST")' => Carries(o, "RST") \/ Late(o)
  PROVE  Inv1'
<1>1. TypeOK
  BY DEF Inv1
<1>2. /\ Running(h) /\ s \in Socks /\ Host(s) = h /\ sk[s].state = st
      /\ \A f \in Flags : f \in Head(net[h]).flags => Carries(h, f)
  BY <1>1, Arrival
<1>3. sk'[s].state = to
  BY DEF Became, Looks
<1>4. /\ rx' \in [Hosts -> [pc : RxPcs, sock : Socks \cup {"none"}, rst : BOOLEAN]]
      /\ rx'[Other(h)] = rx[Other(h)] /\ Packet(h)'
      /\ rx'[h].rst => rst
      /\ rx'[h].pc = p \/ rx'[h].pc = "idle"
  BY <1>1, <1>2, <1>3, Continues
<1>5. Handles(h, s)
  BY <1>1, <1>2, <1>4 DEF Handles, TypeOK, waits
<1>6. Mild(s)
  BY <1>2, <1>3 DEF Mild, Opened
<1>7. Role(s)'
  <2>1. Only(s)
    BY DEF Only, Running
  <2>2. CASE to = st \/ s # "L"
    BY <1>2, <2>1, <2>2, RoleStays DEF Inv1
  <2> QED
    BY <2>2
<1>8. Late(h) \/ (Counted(s) => Counted(s)')
  <2>1. st # "none" \/ to = st
    BY DEF Opened
  <2>2. CASE st # "none"
    BY <1>2, <2>2, CountedStays
  <2>3. CASE st = "none" /\ to = st
    BY <1>2, <1>3, <2>3 DEF Counted, References, Became, Looks
  <2> QED
    BY <2>1, <2>2, <2>3
<1>9. /\ rx'[h].pc \notin Announces
      /\ rx'[h].rst => Carries(h, "RST")
      /\ rx'[h].pc = "close_wait" => Carries(h, "FIN")
  BY <1>2, <1>4 DEF HasRst, Flags
<1>10. /\ sk'[s].state \in FinSeen => sk[s].state \in FinSeen
       /\ sk[s].state \in {"ESTABLISHED", "CLOSE_WAIT"} => sk'[s].state = sk[s].state
  BY <1>2, <1>3
<1> QED
  BY <1>2, <1>4, <1>5, <1>6, <1>7, <1>8, <1>9, <1>10, RxMoves

\* A packet that changes no sock and is not answered.
LEMMA Quiet ==
  ASSUME Inv1, NEW h \in Hosts, NEW s, NEW st, ArrivesIn(h, s, st),
         UNCHANGED <<env, left, up, sk, queues, waits, appVars>>,
         net' = Rest(h), Then(h, s, "end", HasRst(h))
  PROVE  Inv1'
<1>1. TypeOK /\ net[h] # <<>>
  BY DEF Inv1, ArrivesIn, Arrives
<1>2. s \in Socks /\ sk[s].state = st
  BY <1>1, Arrival
<1>3. sk \in [Socks -> Sock] /\ Became(s, st) /\ st \in States
  <2>1. sk[s] \in Sock /\ Became(s, st)
    BY <1>1, <1>2, Itself DEF Became
  <2> QED
    BY <1>1, <1>2, <2>1 DEF TypeOK, Sock
<1>4. /\ net' \in [Hosts -> Seq(Segment)]
      /\ \A o \in Hosts, f \in Flags : Carries(o, f)' => Carries(o, f)
  BY <1>1, Taking
<1>5. HasRst(h) \in BOOLEAN
  BY DEF HasRst
<1> QED
  BY <1>3, <1>4, <1>5, Handler DEF Flags

\* CLOSE_WAIT and TIME_WAIT.
LEMMA RxIgnoredKeeps ==
  ASSUME Inv1, NEW h \in Hosts, NEW s \in Socks, RxIgnored(h, s) PROVE Inv1'
  BY Quiet DEF RxIgnored

\* What is sent in answer to the packet taken.
LEMMA Answering ==
  ASSUME TypeOK, NEW h \in Hosts, net[h] # <<>>, NEW seg \in Segment,
         net' = Emit(Rest(h), h, seg),
         "FIN" \notin seg.flags,
         "RST" \in seg.flags => Late(Other(h))
  PROVE  /\ net' \in [Hosts -> Seq(Segment)]
         /\ \A o \in Hosts : /\ Carries(o, "FIN")' => Carries(o, "FIN")
                             /\ Carries(o, "RST")' => Carries(o, "RST") \/ Late(o)
<1> DEFINE n == Rest(h)
<1>1. net' = Emit(n, h, seg) /\ n = Rest(h)
  OBVIOUS
<1> HIDE DEF n
<1>2. /\ net' \in [Hosts -> Seq(Segment)]
      /\ \A o \in Hosts, f \in Flags :
           Carries(o, f)' => Carries(o, f) \/ (o = Other(h) /\ f \in seg.flags)
  BY <1>1, Sending
<1> QED
  BY <1>2 DEF Flags

\* CLOSED: the RST goes to a host whose application has closed.  That such a packet
\* comes only after a duplication is left to the counts of the packets.
LEMMA RxClosedKeeps ==
  ASSUME ConnAssumption, Inv1, env.dups # 0, NEW h \in Hosts, NEW s \in Socks, RxClosed(h, s) PROVE Inv1'
<1>1. TypeOK /\ net[h] # <<>> /\ ArrivesIn(h, s, "CLOSED")
  BY DEF Inv1, RxClosed, ArrivesIn, Arrives
<1>2. s \in Socks /\ Host(s) = h /\ sk[s].state = "CLOSED" /\ Head(net[h]) \in Segment
  BY <1>1, Arrival
<1>3. sk \in [Socks -> Sock] /\ Became(s, "CLOSED") /\ "CLOSED" \in States
  <2>1. sk[s] \in Sock /\ Became(s, "CLOSED")
    BY <1>1, <1>2, Itself DEF Became, RxClosed
  <2> QED
    BY <1>1, <1>2, <2>1 DEF TypeOK, Sock
<1>4. Late(Other(h))
  BY <1>2 DEF Inv1, FinLate, FinSeen, Late
<1> DEFINE seg == ResetPacket(Head(net[h]))
<1>5. seg \in Segment /\ "FIN" \notin seg.flags
  BY <1>2, Resets
<1>6. /\ net' \in [Hosts -> Seq(Segment)]
      /\ \A o \in Hosts : /\ Carries(o, "FIN")' => Carries(o, "FIN")
                          /\ Carries(o, "RST")' => Carries(o, "RST") \/ Late(o)
  <2>1. net' = Emit(Rest(h), h, seg)
    BY DEF RxClosed
  <2> HIDE DEF seg
  <2> QED
    BY <1>1, <1>4, <1>5, <2>1, Answering
<1>7. HasRst(h) \in BOOLEAN /\ Then(h, s, "end", HasRst(h))
  BY DEF HasRst, RxClosed
<1>8. UNCHANGED <<env, left, up, sk, queues, waits, appVars>>
  BY DEF RxClosed
<1> QED
  BY <1>1, <1>3, <1>6, <1>7, <1>8, Handler

\* SYN_SENT.
LEMMA RxSynSentKeeps ==
  ASSUME ConnAssumption, Inv1, NEW h \in Hosts, NEW s \in Socks, RxSynSent(h, s) PROVE Inv1'
<1> DEFINE seg == Head(net[h])
           r == [sk[s] EXCEPT !.rcv_nxt = SeqInc(seg.seq)]
           e == [r EXCEPT !.state = "ESTABLISHED"]
<1>1. CASE seg.flags # {"SYN", "ACK"}
  BY <1>1, Quiet DEF RxSynSent
<1>2. CASE seg.flags = {"SYN", "ACK"}
  <2>1. TypeOK /\ net[h] # <<>> /\ ArrivesIn(h, s, "SYN_SENT")
    BY DEF Inv1, RxSynSent, ArrivesIn, Arrives
  <2>2. /\ sk' = [sk EXCEPT ![s] = e] /\ net' = Emit(Rest(h), h, ControlPacket(s, r, {"ACK"}))
        /\ Then(h, s, "wake_connect", FALSE)
        /\ UNCHANGED <<env, left, up, queues, waits, appVars>>
    BY <1>2 DEF RxSynSent
  <2>3. s \in Socks /\ Host(s) = h /\ sk[s].state = "SYN_SENT" /\ seg \in Segment
    BY <2>1, Arrival
  <2>4. s = "K"
    BY <2>3 DEF Inv1, Roles, Role, Socks, Opened
  <2>5. /\ sk[s] \in Sock
        /\ Looks(r, "SYN_SENT", sk[s].hashed, sk[s].bound, sk[s].ref_cnt, sk[s].timer, sk[s].freed)
    <3>1. SeqInc(seg.seq) \in SeqNo
      BY <2>3, SeqNoRange DEF Segment
    <3> QED
      BY <2>1, <2>3, <3>1, Itself, Heard
  <2> HIDE DEF r
  <2>6. /\ "ESTABLISHED" \in States /\ r \in Sock
        /\ Looks(e, "ESTABLISHED", sk[s].hashed, sk[s].bound, sk[s].ref_cnt,
                 sk[s].timer, sk[s].freed)
    <3>1. "ESTABLISHED" \in States /\ r \in Sock
      BY <2>5 DEF States, Looks
    <3> QED
      BY <2>5, <3>1, Moved
  <2> HIDE DEF e
  <2>7. /\ sk' \in [Socks -> Sock] /\ Became(s, "ESTABLISHED")
        /\ \A x \in Socks \ {s} : sk'[x] = sk[x]
    BY <2>1, <2>2, <2>6, Rewritten
  <2>8. /\ ControlPacket(s, r, {"ACK"}) \in Segment
        /\ ControlPacket(s, r, {"ACK"}).flags = {"ACK"}
    <3>1. {"ACK"} \in SUBSET Flags
      BY DEF Flags
    <3> QED
      BY <2>6, <3>1, Controls
  <2>9. /\ net' \in [Hosts -> Seq(Segment)]
        /\ \A o \in Hosts : /\ Carries(o, "FIN")' => Carries(o, "FIN")
                            /\ Carries(o, "RST")' => Carries(o, "RST") \/ Late(o)
    BY <2>1, <2>2, <2>8, Answering
  <2>10. "ESTABLISHED" \in Opened \ FinSeen
    BY DEF Opened, FinSeen, States
  <2>11. /\ "SYN_SENT" \notin {"none", "TIME_WAIT"} /\ FALSE \in BOOLEAN
         /\ "wake_connect" \in {"end", "wake_connect", "close_wait"}
         /\ "wake_connect" # "close_wait" /\ "SYN_SENT" \notin {"ESTABLISHED", "CLOSE_WAIT"}
    OBVIOUS
  <2> QED
    BY <2>1, <2>2, <2>4, <2>6, <2>7, <2>9, <2>10, <2>11, Handler, Zenon
<1> QED
  BY <1>1, <1>2

\* ESTABLISHED: the FIN is remembered until CLOSE_WAIT is written.
LEMMA RxEstablishedKeeps ==
  ASSUME ConnAssumption, Inv1, NEW h \in Hosts, NEW s \in Socks, RxEstablished(h, s) PROVE Inv1'
<1> DEFINE seg == Head(net[h])
           r == [sk[s] EXCEPT !.rcv_nxt = SeqInc(seg.seq)]
<1>1. CASE "FIN" \notin seg.flags
  BY <1>1, Quiet DEF RxEstablished
<1>2. CASE "FIN" \in seg.flags
  <2>1. TypeOK /\ net[h] # <<>> /\ ArrivesIn(h, s, "ESTABLISHED")
    BY DEF Inv1, RxEstablished, ArrivesIn, Arrives
  <2>2. /\ sk' = [sk EXCEPT ![s] = r] /\ net' = Emit(Rest(h), h, ControlPacket(s, r, {"ACK"}))
        /\ Then(h, s, "close_wait", HasRst(h))
        /\ UNCHANGED <<env, left, up, queues, waits, appVars>>
    BY <1>2 DEF RxEstablished
  <2>3. s \in Socks /\ Host(s) = h /\ sk[s].state = "ESTABLISHED" /\ seg \in Segment
    BY <2>1, Arrival
  <2>4. /\ r \in Sock /\ "ESTABLISHED" \in States
        /\ Looks(r, "ESTABLISHED", sk[s].hashed, sk[s].bound, sk[s].ref_cnt,
                 sk[s].timer, sk[s].freed)
    <3>1. SeqInc(seg.seq) \in SeqNo
      BY <2>3, SeqNoRange DEF Segment
    <3>2. Looks(r, "ESTABLISHED", sk[s].hashed, sk[s].bound, sk[s].ref_cnt,
                sk[s].timer, sk[s].freed)
      BY <2>1, <2>3, <3>1, Itself, Heard
    <3> QED
      BY <3>2 DEF Looks, States
  <2> HIDE DEF r
  <2>5. /\ sk' \in [Socks -> Sock] /\ Became(s, "ESTABLISHED")
        /\ \A x \in Socks \ {s} : sk'[x] = sk[x]
    BY <2>1, <2>2, <2>4, Rewritten
  <2>6. /\ ControlPacket(s, r, {"ACK"}) \in Segment
        /\ ControlPacket(s, r, {"ACK"}).flags = {"ACK"}
    <3>1. {"ACK"} \in SUBSET Flags
      BY DEF Flags
    <3> QED
      BY <2>4, <3>1, Controls
  <2>7. /\ net' \in [Hosts -> Seq(Segment)]
        /\ \A o \in Hosts : /\ Carries(o, "FIN")' => Carries(o, "FIN")
                            /\ Carries(o, "RST")' => Carries(o, "RST") \/ Late(o)
    BY <2>1, <2>2, <2>6, Answering
  <2>8. /\ "ESTABLISHED" \notin FinSeen /\ HasRst(h) \in BOOLEAN
        /\ "close_wait" \in {"end", "wake_connect", "close_wait"}
    BY DEF FinSeen, HasRst
  <2> QED
    BY <1>2, <2>1, <2>2, <2>4, <2>5, <2>7, <2>8, Handler, Zenon
<1> QED
  BY <1>1, <1>2

\* A packet that moves the sock to another state and is not answered.
LEMMA Moving ==
  ASSUME Inv1, NEW h \in Hosts, NEW s, NEW st, ArrivesIn(h, s, st),
         UNCHANGED <<env, left, up, queues, waits, appVars>>,
         NEW to \in Opened, sk' = [sk EXCEPT ![s].state = to],
         st \in {"FIN_WAIT_1", "LAST_ACK"}, to \in FinSeen => st \in FinSeen,
         net' = Rest(h), Then(h, s, "end", HasRst(h))
  PROVE  Inv1'
<1>1. TypeOK /\ net[h] # <<>>
  BY DEF Inv1, ArrivesIn, Arrives
<1>2. s \in Socks /\ sk[s].state = st
  BY <1>1, Arrival
<1>3. s # "L"
  BY <1>2 DEF Inv1, Roles, Role
<1> DEFINE e == [sk[s] EXCEPT !.state = to]
<1>4. to \in States /\ Looks(e, to, sk[s].hashed, sk[s].bound, sk[s].ref_cnt,
                             sk[s].timer, sk[s].freed)
  <2>1. to \in States
    BY DEF Opened
  <2> QED
    BY <1>1, <1>2, <2>1, Itself, Moved
<1>5. sk' = [sk EXCEPT ![s] = e]
  BY <1>2
<1> HIDE DEF e
<1>6. /\ sk' \in [Socks -> Sock] /\ Became(s, to)
      /\ \A x \in Socks \ {s} : sk'[x] = sk[x]
  BY <1>1, <1>2, <1>4, <1>5, Rewritten
<1>7. /\ net' \in [Hosts -> Seq(Segment)]
      /\ \A o \in Hosts, f \in Flags : Carries(o, f)' => Carries(o, f)
  BY <1>1, Taking
<1>8. /\ net' \in [Hosts -> Seq(Segment)]
      /\ \A o \in Hosts : /\ Carries(o, "FIN")' => Carries(o, "FIN")
                          /\ Carries(o, "RST")' => Carries(o, "RST")
  BY <1>7 DEF Flags
<1>9. /\ HasRst(h) \in BOOLEAN /\ st \in Opened /\ st # "TIME_WAIT"
      /\ st \notin {"ESTABLISHED", "CLOSE_WAIT"}
      /\ "end" \in {"end", "wake_connect", "close_wait"} /\ "end" # "close_wait"
  BY DEF HasRst, Opened, States
<1> QED
  BY <1>3, <1>4, <1>6, <1>8, <1>9, Handler, Zenon

\* FIN_WAIT_1, ...
LEMMA RxFinWait1Keeps ==
  ASSUME Inv1, NEW h \in Hosts, NEW s \in Socks, RxFinWait1(h, s) PROVE Inv1'
<1>1. CASE "ACK" \notin Head(net[h]).flags
  BY <1>1, Quiet DEF RxFinWait1
<1>2. CASE "ACK" \in Head(net[h]).flags
  <2>1. "FIN_WAIT_2" \in Opened \ FinSeen
    BY DEF Opened, FinSeen, States
  <2> QED
    BY <1>2, <2>1, Moving DEF RxFinWait1
<1> QED
  BY <1>1, <1>2

\* ... LAST_ACK ...
LEMMA RxLastAckKeeps ==
  ASSUME Inv1, NEW h \in Hosts, NEW s \in Socks, RxLastAck(h, s) PROVE Inv1'
<1>1. CASE "ACK" \notin Head(net[h]).flags
  BY <1>1, Quiet DEF RxLastAck
<1>2. CASE "ACK" \in Head(net[h]).flags
  <2>1. "CLOSED" \in Opened /\ "LAST_ACK" \in FinSeen
    BY DEF Opened, FinSeen, States
  <2> QED
    BY <1>2, <2>1, Moving DEF RxLastAck
<1> QED
  BY <1>1, <1>2

\* ... and FIN_WAIT_2, where the timer takes a reference that is counted.
LEMMA RxFinWait2Keeps ==
  ASSUME ConnAssumption, Inv1, NEW h \in Hosts, NEW s \in Socks, RxFinWait2(h, s) PROVE Inv1'
<1> DEFINE seg == Head(net[h])
           r == [sk[s] EXCEPT !.rcv_nxt = SeqInc(seg.seq)]
           e == [r EXCEPT !.state = "TIME_WAIT", !.timer = TimeWaitScans, !.ref_cnt = @ + 1]
<1>1. CASE "FIN" \notin seg.flags
  BY <1>1, Quiet DEF RxFinWait2
<1>2. CASE "FIN" \in seg.flags
  <2>1. TypeOK /\ net[h] # <<>> /\ ArrivesIn(h, s, "FIN_WAIT_2")
    BY DEF Inv1, RxFinWait2, ArrivesIn, Arrives
  <2>2. /\ sk' = [sk EXCEPT ![s] = e] /\ net' = Emit(Rest(h), h, ControlPacket(s, r, {"ACK"}))
        /\ Then(h, s, "end", HasRst(h))
        /\ UNCHANGED <<env, left, up, queues, waits, appVars>>
    BY <1>2 DEF RxFinWait2
  <2>3. /\ s \in Socks /\ Host(s) = h /\ sk[s].state = "FIN_WAIT_2" /\ seg \in Segment
        /\ Carries(h, "FIN") /\ ("RST" \in seg.flags => Carries(h, "RST"))
    BY <1>2, <2>1, Arrival DEF Flags
  <2>4. /\ r \in Sock
        /\ Looks(r, "FIN_WAIT_2", sk[s].hashed, sk[s].bound, sk[s].ref_cnt,
                 sk[s].timer, sk[s].freed)
    <3>1. SeqInc(seg.seq) \in SeqNo
      BY <2>3, SeqNoRange DEF Segment
    <3>2. Looks(r, "FIN_WAIT_2", sk[s].hashed, sk[s].bound, sk[s].ref_cnt,
                sk[s].timer, sk[s].freed)
      BY <2>1, <2>3, <3>1, Itself, Heard
    <3> QED
      BY <3>2 DEF Looks
  <2> HIDE DEF r
  <2>5. /\ e \in Sock /\ e.state = "TIME_WAIT" /\ e.hashed = sk[s].hashed /\ e.bound = sk[s].bound
        /\ e.ref_cnt = sk[s].ref_cnt + 1 /\ e.freed = sk[s].freed
    <3>1. sk[s].ref_cnt \in Int /\ TimeWaitScans \in Int
      BY <2>4 DEF Looks, Sock, ConnAssumption
    <3>2. e = [r EXCEPT !.state = "TIME_WAIT", !.timer = TimeWaitScans,
                        !.ref_cnt = sk[s].ref_cnt + 1]
      BY <2>4 DEF Looks
    <3> HIDE DEF e
    <3>3. sk[s].ref_cnt + 1 \in Int /\ "TIME_WAIT" \in States
      BY <3>1 DEF States
    <3> QED
      BY <2>4, <3>1, <3>2, <3>3 DEF Looks, Sock
  <2> HIDE DEF e
  <2>6. /\ sk' \in [Socks -> Sock] /\ sk'[s] = e
        /\ \A x \in Socks \ {s} : sk'[x] = sk[x]
    BY <2>1, <2>2, <2>5 DEF TypeOK
  <2>7. /\ ControlPacket(s, r, {"ACK"}) \in Segment
        /\ ControlPacket(s, r, {"ACK"}).flags = {"ACK"}
    <3>1. {"ACK"} \in SUBSET Flags
      BY DEF Flags
    <3> QED
      BY <2>4, <3>1, Controls
  <2>8. /\ net' \in [Hosts -> Seq(Segment)]
        /\ \A o \in Hosts : /\ Carries(o, "FIN")' => Carries(o, "FIN")
                            /\ Carries(o, "RST")' => Carries(o, "RST") \/ Late(o)
    BY <2>1, <2>2, <2>7, Answering
  <2>9. HasRst(h) \in BOOLEAN
    BY DEF HasRst
  <2>10. /\ rx' \in [Hosts -> [pc : RxPcs, sock : Socks \cup {"none"}, rst : BOOLEAN]]
         /\ rx'[Other(h)] = rx[Other(h)] /\ Packet(h)'
         /\ rx'[h].rst => HasRst(h)
         /\ rx'[h].pc = "end" \/ rx'[h].pc = "idle"
    BY <2>1, <2>2, <2>3, <2>9, Continues
  <2>11. Handles(h, s)
    BY <2>1, <2>2, <2>3, <2>6, <2>8, <2>10 DEF Handles, TypeOK, waits
  <2>12. s # "L"
    BY <2>3 DEF Inv1, Roles, Role
  <2>13. Mild(s)
    BY <2>3, <2>5, <2>6, <2>12 DEF Mild, Opened, States
  <2>14. Role(s)'
    BY <2>3, <2>5, <2>6, <2>12 DEF Inv1, Roles, Role, Opened, States
  <2>15. Counted(s) => Counted(s)'
    <3>1. sk[s].ref_cnt \in Int
      BY <2>1, <2>3, Itself DEF Sock
    <3>2. ~ (sk[s].timer > 0)
      BY <2>3 DEF Inv1, Roles, Role
    <3> QED
      BY <2>3, <2>5, <2>6, <3>1, <3>2 DEF Counted, References
  <2>16. sk[s].state \notin {"ESTABLISHED", "CLOSE_WAIT"} /\ (rx'[h].rst => Carries(h, "RST"))
         /\ rx'[h].pc # "close_wait" /\ rx'[h].pc \notin Announces
    BY <2>3, <2>10 DEF HasRst
  <2> QED
    BY <2>3, <2>8, <2>10, <2>11, <2>13, <2>14, <2>15, <2>16, RxMoves
<1> QED
  BY <1>1, <1>2

\* The end of a process: nothing runs there any more.
LEMMA Dies ==
  ASSUME Inv1, NEW h \in Hosts, Running(h), NEW e \in {"exit(-1)", "use after free"},
         up' = [up EXCEPT ![h] = e],
         UNCHANGED <<env, left, sk, queues, waits, appVars>>,
         rx' = rx \/ rx' = [rx EXCEPT ![h] = RxIdle],
         net' = net \/ (net[h] # <<>> /\ net' = Rest(h))
  PROVE  Inv1'
<1>1. TypeOK
  BY DEF Inv1
<1>2. /\ net' \in [Hosts -> Seq(Segment)]
      /\ \A o \in Hosts : /\ Carries(o, "FIN")' => Carries(o, "FIN")
                          /\ Carries(o, "RST")' => Carries(o, "RST")
  <2>1. CASE net' = net
    BY <1>1, <2>1 DEF TypeOK, Carries
  <2>2. CASE net[h] # <<>> /\ net' = Rest(h)
    BY <1>1, <2>2, Taking DEF Flags
  <2> QED
    BY <2>1, <2>2
<1>3. /\ rx' \in [Hosts -> [pc : RxPcs, sock : Socks \cup {"none"}, rst : BOOLEAN]]
      /\ \A g \in Hosts : rx'[g] = rx[g] \/ rx'[g] = RxIdle
      /\ RxIdle.pc = "idle" /\ RxIdle.rst = FALSE
  <2>1. RxIdle \in [pc : RxPcs, sock : Socks \cup {"none"}, rst : BOOLEAN]
    BY DEF RxIdle
  <2>2. RxIdle.pc = "idle" /\ RxIdle.rst = FALSE
    BY DEF RxIdle
  <2>3. rx \in [Hosts -> [pc : RxPcs, sock : Socks \cup {"none"}, rst : BOOLEAN]]
    BY <1>1 DEF TypeOK
  <2> HIDE DEF RxIdle
  <2> QED
    BY <2>1, <2>2, <2>3
<1> HIDE DEF RxIdle
<1>4. /\ up' \in [Hosts -> {"running", "exit(-1)", "null pointer", "wild pointer",
                            "use after free"}]
      /\ \A g \in Hosts : up'[g] = up[g] \/ (g = h /\ up'[g] = e)
      /\ up[h] = "running"
  BY <1>1 DEF TypeOK, Running
<1>5. TypeOK'
  BY <1>1, <1>2, <1>3, <1>4 DEF TypeOK, queues, counter, waits, appVars
<1>6. \A g \in Hosts : Running(g)' => Running(g)
  BY <1>4 DEF Running
<1>7. Roles'
  BY <1>6 DEF Inv1, Roles, Role, Hosts
<1>8. Queues'
  BY DEF Inv1, Queues, NoChild, OneChild, queues, appVars
<1>9. Accepting'
  <2>1. up'["server"] = "wild pointer" => up["server"] = "wild pointer"
    BY <1>4 DEF Hosts
  <2>2. \A g \in Hosts : rx'[g].pc \in Announces => rx[g].pc \in Announces
    BY <1>3
  <2>3. /\ UNCHANGED <<env, sk, accept_queue, wait_accept, app, csk>>
        /\ "client" \in Hosts /\ "server" \in Hosts
    BY DEF queues, counter, waits, appVars, Hosts
  <2> QED
    BY <1>6, <2>1, <2>2, <2>3 DEF Inv1, Accepting, Accepted
<1>10. ASSUME NEW g \in Hosts
       PROVE  Packet(g)' /\ Closing(g)' /\ FinLate(g)' /\ RstLate(g)' /\ Held(g)'
  <2>1. Packet(g)'
    BY <1>3 DEF Inv1, Packet
  <2>2. Closing(g)' /\ Held(g)'
    BY DEF Inv1, Closing, MySock, Held, Counted, References, appVars, Late
  <2>3. FinLate(g)'
    BY <1>2, <1>3 DEF Inv1, FinLate, appVars
  <2>4. RstLate(g)'
    BY <1>2, <1>3 DEF Inv1, RstLate, appVars, Late
  <2> QED
    BY <2>1, <2>2, <2>3, <2>4
<1> QED
  BY <1>5, <1>7, <1>8, <1>9, <1>10 DEF Inv1

\* exit(-1), ...
LEMMA RxNoSockKeeps ==
  ASSUME Inv1, NEW h \in Hosts, RxNoSock(h) PROVE Inv1'
  BY Dies DEF RxNoSock, Arrives

\* ... or a lookup that ends at released memory.
LEMMA RxUsesFreedKeeps ==
  ASSUME Inv1, NEW h \in Hosts, RxUsesFreed(h) PROVE Inv1'
  BY Dies DEF RxUsesFreed, Arrives

\* What wake_up does to a wait structure.
LEMMA Woken ==
  ASSUME NEW T, NEW w \in WaitStruct(T), NEW v \in wake_up(w)
  PROVE  v \in WaitStruct(T) /\ v.dead = w.dead
<1> DEFINE n == [w EXCEPT !.notified = TRUE]
<1>1. n \in WaitStruct(T) /\ n.dead = w.dead
  BY DEF WaitStruct
<1>2. v = w \/ v = n \/ v \in Signal(n)
  BY DEF wake_up
<1> HIDE DEF n
<1>3. ASSUME v \in Signal(n) PROVE v \in WaitStruct(T) /\ v.dead = n.dead
  <2>1. CASE v = n
    BY <1>1, <2>1
  <2>2. ASSUME NEW t \in T, v = [n EXCEPT !.signaled = n.signaled \cup {t}]
        PROVE  v \in WaitStruct(T) /\ v.dead = n.dead
    BY <1>1, <2>2 DEF WaitStruct
  <2>3. n.waiting \subseteq T
    BY <1>1 DEF WaitStruct
  <2> QED
    BY <1>3, <2>1, <2>2, <2>3 DEF Signal
<1> QED
  BY <1>1, <1>2, <1>3

\* The thread is between two steps of a handler.
LEMMA Between ==
  ASSUME Inv1, NEW h \in Hosts, rx[h].pc # "idle"
  PROVE  /\ rx[h].sock \in Socks /\ Host(rx[h].sock) = h /\ rx[h].rst \in BOOLEAN
         /\ rx[h].pc = "end" => Late(h)
         /\ rx[h].pc = "close_wait" => /\ app[Other(h)] = "done"
                                      /\ sk[rx[h].sock].state \in {"ESTABLISHED", "FIN_WAIT_1"}
<1>1. Packet(h) /\ RstLate(h) /\ FinLate(h) /\ TypeOK
  BY DEF Inv1
<1>2. rx[h].rst \in BOOLEAN
  BY <1>1 DEF TypeOK
<1>3. rx[h] # RxIdle
  BY DEF RxIdle
<1> QED
  BY <1>1, <1>2, <1>3 DEF Packet, RstLate, FinLate, Late

\* The second steps of the handlers: the client is woken, ...
LEMMA RxWakeConnectKeeps ==
  ASSUME Inv1, NEW h \in Hosts, RxWakeConnect(h) PROVE Inv1'
<1>1. rx[h].pc = "wake_connect" /\ TypeOK
  BY DEF RxWakeConnect, Inv1
<1>2. PICK s \in Socks : s = rx[h].sock /\ Host(s) = h
  BY <1>1, Between
<1>3. Then(h, s, "end", rx[h].rst) /\ rx[h].rst \in BOOLEAN
  BY <1>1, <1>2, Between DEF RxWakeConnect
<1>4. UNCHANGED <<env, left, up, sk, queues, wait_accept, appVars, net>>
  BY DEF RxWakeConnect
<1>5. wait_connect' \in WaitStruct({"client"})
  BY <1>1, Woken DEF RxWakeConnect, TypeOK
<1>6. /\ rx' \in [Hosts -> [pc : RxPcs, sock : Socks \cup {"none"}, rst : BOOLEAN]]
      /\ rx'[Other(h)] = rx[Other(h)] /\ Packet(h)'
      /\ rx'[h].rst => rx[h].rst
      /\ rx'[h].pc = "end" \/ rx'[h].pc = "idle"
  BY <1>1, <1>2, <1>3, Continues
<1>7. Handles(h, s)
  BY <1>1, <1>2, <1>4, <1>5, <1>6 DEF Handles, TypeOK
<1>8. Mild(s) /\ Role(s)' /\ (Counted(s) => Counted(s)')
  BY <1>4 DEF Mild, Inv1, Roles, Role, Running, Counted, References
<1>9. \A o \in Hosts, f \in Flags : Carries(o, f)' => Carries(o, f)
  BY <1>4 DEF Carries
<1>10. \A o \in Hosts : /\ Carries(o, "FIN")' => Carries(o, "FIN")
                        /\ Carries(o, "RST")' => Carries(o, "RST")
  BY <1>9 DEF Flags
<1>11. sk'[s].state = sk[s].state /\ rx'[h].pc # "close_wait" /\ rx'[h].pc \notin Announces
  BY <1>4, <1>6
<1> QED
  BY <1>2, <1>6, <1>7, <1>8, <1>10, <1>11, RxMoves

\* ... the new connection is counted, ...
LEMMA RxCountKeeps ==
  ASSUME Inv1, NEW h \in Hosts, RxCount(h) PROVE Inv1'
<1>1. rx[h].pc \in {"count_load", "count_store"} /\ TypeOK
  BY DEF RxCount, Inv1
<1>2. PICK s \in Socks : s = rx[h].sock /\ Host(s) = h
  BY <1>1, Between
<1>3. rx[h].rst \in BOOLEAN
  BY <1>1, Between
<1>4. UNCHANGED <<env, left, up, sk, wait_connect, wait_accept, appVars, net>>
  BY DEF RxCount, waits
<1>5. /\ UNCHANGED <<listen_queue, accept_queue>>
      /\ accept_backlog' \in Int /\ backlog_read' \in [rx : Int, app : Int]
      /\ lost_update' \in BOOLEAN
  <2>1. (LoadBacklog("rx") \/ StoreBacklog("rx", 1)) /\ 1 \in Int
    BY DEF RxCount
  <2> QED
    BY <1>1, <2>1, Counting
<1>6. /\ rx' \in [Hosts -> [pc : RxPcs, sock : Socks \cup {"none"}, rst : BOOLEAN]]
      /\ rx'[Other(h)] = rx[Other(h)] /\ Packet(h)'
      /\ rx'[h].rst => rx[h].rst
      /\ rx'[h].pc \in {"count_store", "wake_accept", "idle"}
  <2>1. PICK p \in {"count_store", "wake_accept"} : Then(h, s, p, rx[h].rst)
    BY <1>2 DEF RxCount
  <2>2. p \in RxPcs \ {"idle"} /\ p # "close_wait"
    BY <2>1
  <2> QED
    BY <1>1, <1>2, <1>3, <2>1, <2>2, Continues
<1>7. h = "server"
  BY <1>1 DEF Inv1, Accepting, Hosts
<1>8. TypeOK'
  BY <1>1, <1>4, <1>5, <1>6 DEF TypeOK, appVars
<1>9. Roles' /\ Queues'
  BY <1>4, <1>5 DEF Inv1, Roles, Role, Running, Queues, NoChild, OneChild, appVars
<1>10. Accepting'
  <2>1. Accepted /\ (Accepted <=> Accepted')
    BY <1>1, <1>4, <1>5, <1>7 DEF Inv1, Accepting, Accepted, appVars
  <2>2. rx'["client"].pc \notin Announces
    BY <1>6, <1>7 DEF Inv1, Accepting, Other
  <2>3. UNCHANGED <<env, up, sk, app, csk, accept_queue, wait_accept>>
    BY <1>4, <1>5 DEF appVars
  <2> QED
    BY <2>1, <2>2, <2>3 DEF Inv1, Accepting, Running
<1>11. ASSUME NEW g \in Hosts
       PROVE  Packet(g)' /\ Closing(g)' /\ FinLate(g)' /\ RstLate(g)' /\ Held(g)'
  <2>1. g # h => rx'[g] = rx[g]
    BY <1>6, TwoHosts
  <2>2. Packet(g)'
    BY <1>4, <1>6, <2>1 DEF Inv1, Packet
  <2>3. Closing(g)' /\ Held(g)'
    BY <1>4 DEF Inv1, Closing, MySock, Held, Counted, References, appVars, Late
  <2>4. FinLate(g)' /\ RstLate(g)'
    BY <1>4, <1>6, <2>1 DEF Inv1, FinLate, RstLate, Carries, appVars, Late
  <2> QED
    BY <2>2, <2>3, <2>4
<1> QED
  BY <1>8, <1>9, <1>10, <1>11 DEF Inv1

\* ... the server is woken, and there is something to accept, ...
LEMMA RxWakeAcceptKeeps ==
  ASSUME Inv1, NEW h \in Hosts, RxWakeAccept(h) PROVE Inv1'
<1>1. rx[h].pc = "wake_accept" /\ TypeOK
  BY DEF RxWakeAccept, Inv1
<1>2. PICK s \in Socks : s = rx[h].sock /\ Host(s) = h
  BY <1>1, Between
<1>3. Then(h, s, "end", rx[h].rst) /\ rx[h].rst \in BOOLEAN
  BY <1>1, <1>2, Between DEF RxWakeAccept
<1>4. UNCHANGED <<env, left, up, sk, queues, wait_connect, appVars, net>>
  BY DEF RxWakeAccept
<1>5. wait_accept' \in WaitStruct({"server"}) /\ wait_accept'.dead = wait_accept.dead
  <2>1. wait_accept \in WaitStruct({"server"}) /\ wait_accept' \in wake_up(wait_accept)
    BY <1>1 DEF RxWakeAccept, TypeOK
  <2> QED
    BY <2>1, Woken, Zenon
<1>6. /\ rx' \in [Hosts -> [pc : RxPcs, sock : Socks \cup {"none"}, rst : BOOLEAN]]
      /\ rx'[Other(h)] = rx[Other(h)] /\ Packet(h)'
      /\ rx'[h].rst => rx[h].rst
      /\ rx'[h].pc = "end" \/ rx'[h].pc = "idle"
  BY <1>1, <1>2, <1>3, Continues
<1>7. h = "server"
  BY <1>1 DEF Inv1, Accepting, Hosts
<1>8. TypeOK'
  BY <1>1, <1>4, <1>5, <1>6 DEF TypeOK, queues, counter, appVars
<1>9. Roles' /\ Queues'
  BY <1>4 DEF Inv1, Roles, Role, Running, Queues, NoChild, OneChild, queues, counter, appVars
<1>10. Accepting'
  <2>1. Accepted /\ (Accepted <=> Accepted')
    BY <1>1, <1>4, <1>7 DEF Inv1, Accepting, Accepted, queues, counter, appVars
  <2>2. rx'["client"].pc \notin Announces
    BY <1>6, <1>7 DEF Inv1, Accepting, Other
  <2>3. UNCHANGED <<env, up, sk, app, csk, accept_queue>>
    BY <1>4 DEF queues, counter, appVars
  <2> QED
    BY <1>5, <2>1, <2>2, <2>3 DEF Inv1, Accepting, Running
<1>11. ASSUME NEW g \in Hosts
       PROVE  Packet(g)' /\ Closing(g)' /\ FinLate(g)' /\ RstLate(g)' /\ Held(g)'
  <2>1. g # h => rx'[g] = rx[g]
    BY <1>6, TwoHosts
  <2>2. Packet(g)'
    BY <1>4, <1>6, <2>1 DEF Inv1, Packet
  <2>3. Closing(g)' /\ Held(g)'
    BY <1>4 DEF Inv1, Closing, MySock, Held, Counted, References, appVars, Late
  <2>4. FinLate(g)' /\ RstLate(g)'
    BY <1>4, <1>6, <2>1 DEF Inv1, FinLate, RstLate, Carries, appVars, Late
  <2> QED
    BY <2>2, <2>3, <2>4
<1> QED
  BY <1>8, <1>9, <1>10, <1>11 DEF Inv1

\* ... and CLOSE_WAIT is written, maybe over a FIN_WAIT_1.
LEMMA RxCloseWaitKeeps ==
  ASSUME Inv1, NEW h \in Hosts, RxCloseWait(h) PROVE Inv1'
<1>1. Running(h) /\ rx[h].pc = "close_wait" /\ TypeOK
  BY DEF RxCloseWait, Inv1
<1>2. PICK s \in Socks : /\ s = rx[h].sock /\ Host(s) = h
                         /\ sk[s].state \in {"ESTABLISHED", "FIN_WAIT_1"}
  BY <1>1, Between
<1>3. Then(h, s, "end", rx[h].rst) /\ rx[h].rst \in BOOLEAN
  BY <1>1, <1>2, Between DEF RxCloseWait
<1> DEFINE e == [sk[s] EXCEPT !.state = "CLOSE_WAIT"]
<1>4. /\ UNCHANGED <<env, left, up, queues, wait_connect, wait_accept, appVars, net>>
      /\ sk' = [sk EXCEPT ![s] = e]
  BY <1>2 DEF RxCloseWait, waits
<1>5. "CLOSE_WAIT" \in States /\ Looks(e, "CLOSE_WAIT", sk[s].hashed, sk[s].bound, sk[s].ref_cnt,
                                       sk[s].timer, sk[s].freed)
  <2>1. "CLOSE_WAIT" \in States
    BY DEF States
  <2> QED
    BY <1>1, <2>1, Itself, Moved
<1> HIDE DEF e
<1>6. /\ sk' \in [Socks -> Sock] /\ Became(s, "CLOSE_WAIT")
      /\ \A x \in Socks \ {s} : sk'[x] = sk[x]
  BY <1>1, <1>4, <1>5, Rewritten
<1>7. sk'[s].state = "CLOSE_WAIT"
  BY <1>6 DEF Became, Looks
<1>8. /\ rx' \in [Hosts -> [pc : RxPcs, sock : Socks \cup {"none"}, rst : BOOLEAN]]
      /\ rx'[Other(h)] = rx[Other(h)] /\ Packet(h)'
      /\ rx'[h].rst => rx[h].rst
      /\ rx'[h].pc = "end" \/ rx'[h].pc = "idle"
  BY <1>1, <1>2, <1>3, Continues
<1>9. Handles(h, s)
  BY <1>1, <1>2, <1>4, <1>6, <1>8 DEF Handles, TypeOK
<1>10. s # "L"
  BY <1>1, <1>2 DEF Inv1, Roles, Role, Host
<1>11. Mild(s)
  BY <1>2, <1>7, <1>10 DEF Mild, Opened, States
<1>12. Role(s)'
  <2>1. Only(s) /\ UNCHANGED up /\ "CLOSE_WAIT" \in Opened
    BY <1>4, <1>6 DEF Only, Running, Opened, States
  <2> QED
    BY <1>2, <1>6, <1>10, <2>1, RoleStays DEF Inv1
<1>13. Counted(s) => Counted(s)'
  BY <1>2, <1>6, CountedStays
<1>14. \A o \in Hosts : /\ Carries(o, "FIN")' => Carries(o, "FIN")
                        /\ Carries(o, "RST")' => Carries(o, "RST")
  BY <1>4 DEF Carries
<1>15. rx'[h].pc # "close_wait" /\ rx'[h].pc \notin Announces
  BY <1>8
<1> QED
  BY <1>1, <1>2, <1>7, <1>8, <1>9, <1>11, <1>12, <1>13, <1>14, <1>15, RxMoves

\* A RST drops a reference, but only after the application has closed.
LEMMA RxResetKeeps ==
  ASSUME ConnAssumption, Inv1, NEW h \in Hosts, RxReset(h) PROVE Inv1'
<1>1. Running(h) /\ rx[h].pc = "end" /\ TypeOK /\ rx' = [rx EXCEPT ![h] = RxIdle]
  BY DEF RxReset, Inv1
<1>2. PICK s \in Socks : s = rx[h].sock /\ Host(s) = h /\ Late(h) /\ app[h] = "done"
  BY <1>1, Between DEF Late
<1> DEFINE r == sk[s]
           to == CloseBranch(r.state)
           c == IF to # "none" THEN [r EXCEPT !.state = to] ELSE r
           fin == {"FIN", "ACK"}
           a == IF to # "none" THEN AfterControl(c, fin) ELSE c
<1>3. CASE sk[s].freed
  BY <1>1, <1>2, <1>3, Dies DEF RxReset, waits
<1>4. CASE ~ sk[s].freed
  <2>1. /\ sk' = [sk EXCEPT ![s] = free_tcp_sock(a)]
        /\ net' = IF to # "none" THEN Emit(net, h, ControlPacket(s, c, fin)) ELSE net
        /\ UNCHANGED <<env, left, up, queues, wait_connect, wait_accept, appVars>>
    <3>1. c = IF to # "none" THEN [r EXCEPT !.state = CloseBranch(@)] ELSE r
      OBVIOUS
    <3> QED
      BY <1>2, <1>4, <3>1 DEF RxReset, waits
  <2>2. \/ r.state = "ESTABLISHED" /\ to = "FIN_WAIT_1"
        \/ r.state = "CLOSE_WAIT" /\ to = "LAST_ACK"
        \/ to = "none"
    BY Branches
  <2> DEFINE st == IF to = "none" THEN r.state ELSE to
  <2> HIDE DEF to
  <2>3. /\ Looks(r, r.state, r.hashed, r.bound, r.ref_cnt, r.timer, r.freed)
        /\ r \in Sock
    BY <1>1, Itself
  <2>4. Looks(c, st, r.hashed, r.bound, r.ref_cnt, r.timer, r.freed) /\ c \in Sock
    <3>1. CASE to = "none"
      BY <2>3, <3>1
    <3>2. CASE to # "none"
      <4>1. to \in States
        BY <2>2, <3>2 DEF States
      <4>2. Looks([r EXCEPT !.state = to], to, r.hashed, r.bound, r.ref_cnt, r.timer, r.freed)
        BY <2>3, <4>1, Moved
      <4> QED
        BY <3>2, <4>2 DEF Looks
    <3> QED
      BY <3>1, <3>2
  <2> HIDE DEF c
  <2>5. Looks(a, st, r.hashed, r.bound, r.ref_cnt, r.timer, r.freed)
    BY <2>4, Controlled
  <2> HIDE DEF a
  <2>6. Looks(free_tcp_sock(a), st, r.hashed, r.bound, r.ref_cnt - 1, r.timer, r.ref_cnt - 1 <= 0)
    BY <2>5, Released, Zenon
  <2>7. /\ sk' \in [Socks -> Sock] /\ \A x \in Socks \ {s} : sk'[x] = sk[x]
        /\ sk'[s].state = st /\ sk'[s].timer = r.timer /\ sk'[s].hashed = r.hashed
    <3>1. /\ free_tcp_sock(a) \in Sock /\ free_tcp_sock(a).state = st
          /\ free_tcp_sock(a).timer = r.timer /\ free_tcp_sock(a).hashed = r.hashed
      BY <2>6 DEF Looks
    <3>2. sk' \in [Socks -> Sock] /\ sk'[s] = free_tcp_sock(a)
          /\ \A x \in Socks \ {s} : sk'[x] = sk[x]
      BY <1>1, <2>1, <3>1 DEF TypeOK
    <3> QED
      BY <3>1, <3>2
  <2>8. /\ net' \in [Hosts -> Seq(Segment)]
        /\ \A o \in Hosts : /\ Carries(o, "FIN")' => Carries(o, "FIN") \/ app[Other(o)] = "done"
                            /\ Carries(o, "RST")' => Carries(o, "RST") \/ Late(o)
    <3>1. CASE to = "none"
      BY <1>1, <2>1, <3>1 DEF TypeOK, Carries
    <3>2. CASE to # "none"
      <4> DEFINE seg == ControlPacket(s, c, fin)
      <4>1. seg \in Segment /\ seg.flags = fin
        <5>1. fin \in SUBSET Flags
          BY DEF Flags
        <5> QED
          BY <2>4, <5>1, Controls
      <4>2. net' = Emit(net, h, seg)
        BY <2>1, <3>2
      <4> HIDE DEF seg
      <4>3. /\ net' \in [Hosts -> Seq(Segment)]
            /\ \A o \in Hosts, f \in Flags :
                 Carries(o, f)' => Carries(o, f) \/ (o = Other(h) /\ f \in seg.flags)
        BY <1>1, <4>1, <4>2, Sending
      <4>4. \A o \in Hosts : o = Other(h) => Other(o) = h
        BY DEF Hosts, Other
      <4> QED
        BY <1>2, <4>1, <4>3, <4>4 DEF Flags
    <3> QED
      BY <3>1, <3>2
  <2>9. /\ rx' \in [Hosts -> [pc : RxPcs, sock : Socks \cup {"none"}, rst : BOOLEAN]]
        /\ rx'[Other(h)] = rx[Other(h)] /\ rx'[h] = RxIdle
    <3>1. RxIdle \in [pc : RxPcs, sock : Socks \cup {"none"}, rst : BOOLEAN]
      BY DEF RxIdle
    <3>2. rx \in [Hosts -> [pc : RxPcs, sock : Socks \cup {"none"}, rst : BOOLEAN]]
      BY <1>1 DEF TypeOK
    <3> HIDE DEF RxIdle
    <3> QED
      BY <1>1, <3>1, <3>2, TwoHosts
  <2>10. Handles(h, s)
    BY <1>1, <1>2, <2>1, <2>7, <2>8, <2>9 DEF Handles, TypeOK
  <2>11. to # "none" => s # "L"
    BY <1>1, <1>2, <2>2 DEF Inv1, Roles, Role, Host
  <2>12. Mild(s)
    BY <2>2, <2>7, <2>11 DEF Mild, Opened, States
  <2>13. Role(s)'
    <3>1. Role(s) /\ (Running("server")' <=> Running("server"))
      BY <2>1 DEF Inv1, Roles, Running
    <3>2. to # "none" => st \in Opened /\ r.state # "TIME_WAIT"
      BY <2>2 DEF Opened, States
    <3> QED
      BY <2>7, <2>11, <3>1, <3>2 DEF Role
  <2>14. sk'[s].state \in FinSeen => sk[s].state \in FinSeen
    BY <2>2, <2>7 DEF FinSeen
  <2>15. Packet(h)' /\ rx'[h].pc = "idle" /\ ~ rx'[h].rst
    BY <2>9 DEF Packet, RxIdle
  <2> QED
    BY <1>2, <2>8, <2>10, <2>12, <2>13, <2>14, <2>15, RxMoves
<1> QED
  BY <1>3, <1>4

\* Deleting the only entry of a list leaves it empty.
LEMMA LastRemoved ==
  \A s : RemoveFirst(<<s>>, s) = <<>>
<1> TAKE s
<1>1. Len(<<s>>) = 1 /\ <<s>>[1] = s
  OBVIOUS
<1> DEFINE I == {i \in 1 .. Len(<<s>>) : <<s>>[i] = s}
<1>2. I = {1}
  BY <1>1
<1>3. Min(I) = 1
  <2>1. Min({1}) = CHOOSE x \in {1} : \A y \in {1} : x <= y
    BY DEF Min
  <2> QED
    BY <1>2, <2>1
<1>4. SelectInSeq(<<s>>, LAMBDA v : v = s) = 1
  BY <1>2, <1>3 DEF SelectInSeq
<1>5. RemoveAt(<<s>>, 1) = <<>>
  BY <1>1 DEF RemoveAt
<1> QED
  BY <1>1, <1>4, <1>5 DEF RemoveFirst

\* A scan of the timer list: one sock.
LEMMA Scanned ==
  ASSUME TypeOK, NEW s \in Socks, sk[s].timer > 0, sk[s].state = "TIME_WAIT"
  PROVE  /\ Scan(s) \in Sock /\ Scan(s).state \in {"TIME_WAIT", "CLOSED"}
         /\ Scan(s).timer > 0 => Scan(s).state = "TIME_WAIT"
         /\ Scan(s).hashed = sk[s].hashed
         /\ Counted(s) => Scan(s).ref_cnt >= References(Scan(s)) /\ ~ Scan(s).freed
<1> DEFINE q == sk[s]
           t == q.timer - 1
           r == [q EXCEPT !.timer = t]
           u == IF HasParent(s) THEN r ELSE tcp_bind_unhash(r)
           e == [u EXCEPT !.timer = -1, !.state = "CLOSED"]
<1>1. /\ Looks(q, "TIME_WAIT", q.hashed, q.bound, q.ref_cnt, q.timer, q.freed) /\ q \in Sock
      /\ q.timer \in Int /\ q.ref_cnt \in Int /\ q.bound \in BOOLEAN /\ t \in Int
      /\ q.hashed \in {"no", "listen", "established"}
  <2>1. q \in Sock
    BY Itself
  <2>2. q.timer \in Int /\ q.ref_cnt \in Int /\ q.bound \in BOOLEAN
        /\ q.hashed \in {"no", "listen", "established"}
    BY <2>1 DEF Sock
  <2> QED
    BY <2>1, <2>2, Itself
<1> HIDE DEF q
<1>2. Looks(r, "TIME_WAIT", q.hashed, q.bound, q.ref_cnt, t, q.freed)
  BY <1>1, Timed
<1>3. Scan(s) = IF r.timer > 0 THEN r ELSE free_tcp_sock(e)
  BY DEF Scan, q
<1>4. r.timer = t /\ r.bound = q.bound
  BY <1>2 DEF Looks
<1> HIDE DEF r
<1>6. CASE t > 0
  BY <1>1, <1>2, <1>3, <1>4, <1>6 DEF Looks, Counted, References, q
<1>7. CASE ~ (t > 0)
  <2>1. PICK bo, n, f : /\ Looks(u, "TIME_WAIT", q.hashed, bo, n, t, f) /\ n \in Int
                        /\ \/ bo = q.bound /\ n = q.ref_cnt
                           \/ q.bound /\ bo = FALSE /\ n = q.ref_cnt - 1
    <3>1. CASE HasParent(s) \/ ~ q.bound
      BY <1>1, <1>2, <1>4, <3>1 DEF tcp_bind_unhash
    <3>2. CASE ~ HasParent(s) /\ q.bound
      <4> DEFINE b == [r EXCEPT !.bound = FALSE]
      <4>1. Looks(b, "TIME_WAIT", q.hashed, FALSE, q.ref_cnt, t, q.freed)
        BY <1>2 DEF Looks, Sock
      <4>2. u = free_tcp_sock(b)
        BY <1>4, <3>2 DEF tcp_bind_unhash
      <4> HIDE DEF b
      <4>3. Looks(u, "TIME_WAIT", q.hashed, FALSE, q.ref_cnt - 1, t, q.ref_cnt - 1 <= 0)
        BY <4>1, <4>2, Released, Zenon
      <4>4. q.ref_cnt - 1 \in Int
        BY <1>1
      <4> QED
        BY <3>2, <4>3, <4>4
    <3> QED
      BY <3>1, <3>2
  <2> HIDE DEF u
  <2>2. Looks(e, "CLOSED", q.hashed, bo, n, -1, f)
    <3> DEFINE v == [u EXCEPT !.timer = -1]
    <3>1. Looks(v, "TIME_WAIT", q.hashed, bo, n, -1, f)
      BY <2>1, Timed
    <3>2. "CLOSED" \in States /\ u \in Sock
      BY <2>1 DEF States, Looks
    <3>3. Looks([v EXCEPT !.state = "CLOSED"], "CLOSED", q.hashed, bo, n, -1, f)
      <4> HIDE DEF v
      <4> QED
        BY <3>1, <3>2, Moved
    <3>4. e = [v EXCEPT !.state = "CLOSED"]
      BY <3>2 DEF Sock
    <3> QED
      BY <3>3, <3>4
  <2> HIDE DEF e
  <2>3. Looks(free_tcp_sock(e), "CLOSED", q.hashed, bo, n - 1, -1, n - 1 <= 0)
    BY <2>2, Released, Zenon
  <2>4. Scan(s) = free_tcp_sock(e)
    BY <1>3, <1>4, <1>7
  <2>5. ASSUME Counted(s) PROVE n - 1 >= References(Scan(s)) /\ ~ (n - 1 <= 0)
    <3>1. /\ q.ref_cnt >= (IF q.hashed = "no" THEN 0 ELSE 1) + (IF q.bound THEN 1 ELSE 0) + 1
          /\ q.hashed # "no"
      BY <2>5 DEF Counted, References, q
    <3>2. References(Scan(s)) = 1 + (IF bo THEN 1 ELSE 0) + 0
      BY <2>3, <2>4, <3>1 DEF References, Looks
    <3> QED
      BY <1>1, <2>1, <3>1, <3>2
  <2>6. /\ Scan(s) \in Sock /\ Scan(s).state = "CLOSED" /\ Scan(s).timer = -1
        /\ Scan(s).hashed = q.hashed /\ Scan(s).ref_cnt = n - 1
        /\ Scan(s).freed = (n - 1 <= 0)
    BY <2>3, <2>4 DEF Looks
  <2>7. ~ (-1 > 0)
    OBVIOUS
  <2> QED
    BY <2>5, <2>6, <2>7 DEF q
<1> QED
  BY <1>1, <1>6, <1>7

\* The timer: the references given back had been counted.
LEMMA TimerScanKeeps ==
  ASSUME Inv1, NEW h \in Hosts, TimerScan(h) PROVE Inv1'
<1>1. /\ TypeOK /\ Running(h)
      /\ UNCHANGED <<env, left, queues, waits, appVars, rx, net>>
  BY DEF Inv1, TimerScan
<1>2. CASE \E s \in OnTimer(h) : ScanUsesFreed(s)
  <2>1. up' = [up EXCEPT ![h] = "use after free"] /\ sk' = sk
    BY <1>2 DEF TimerScan
  <2> QED
    BY <1>1, <2>1, Dies
<1>3. CASE ~ \E s \in OnTimer(h) : ScanUsesFreed(s)
  <2>1. /\ sk' = [s \in Socks |-> IF s \in OnTimer(h) THEN Scan(s) ELSE sk[s]]
        /\ UNCHANGED up
    BY <1>3 DEF TimerScan
  <2>2. ASSUME NEW s \in Socks
        PROVE  /\ sk'[s] \in Sock /\ Role(s)'
               /\ Host(s) = h /\ Counted(s) => Counted(s)'
               /\ \/ sk'[s] = sk[s]
                  \/ /\ Host(s) = h /\ s # "L" /\ sk[s].state = "TIME_WAIT"
                     /\ sk'[s].state \in {"TIME_WAIT", "CLOSED"}
    <3>1. CASE s \in OnTimer(h)
      <4>1. sk[s].timer > 0 /\ Host(s) = h /\ sk'[s] = Scan(s)
        BY <2>1, <3>1 DEF OnTimer
      <4>2. sk[s].state = "TIME_WAIT" /\ s # "L"
        BY <4>1 DEF Inv1, Roles, Role
      <4>3. /\ Scan(s) \in Sock /\ Scan(s).state \in {"TIME_WAIT", "CLOSED"}
            /\ Scan(s).timer > 0 => Scan(s).state = "TIME_WAIT"
            /\ Scan(s).hashed = sk[s].hashed
            /\ Counted(s) => Scan(s).ref_cnt >= References(Scan(s)) /\ ~ Scan(s).freed
        BY <1>1, <4>1, <4>2, Scanned
      <4> HIDE DEF Scan
      <4>4. Role(s)'
        BY <4>1, <4>2, <4>3 DEF Inv1, Roles, Role, Opened, States
      <4>5. Counted(s) => Counted(s)'
        BY <4>1, <4>2, <4>3 DEF Counted
      <4> QED
        BY <4>1, <4>2, <4>3, <4>4, <4>5
    <3>2. CASE s \notin OnTimer(h)
      <4>1. sk'[s] = sk[s]
        BY <2>1, <3>2
      <4> QED
        BY <1>1, <2>1, <4>1 DEF Inv1, TypeOK, Roles, Role, Running, Counted, References
    <3> QED
      BY <3>1, <3>2
  <2>3. sk' \in [Socks -> Sock]
    BY <2>1, <2>2
  <2>4. TypeOK'
    BY <1>1, <2>1, <2>3 DEF TypeOK, queues, counter, waits, appVars
  <2>5. Roles'
    BY <2>2 DEF Roles
  <2>6. \A s \in Socks : \/ sk'[s].state = sk[s].state
                         \/ s # "L" /\ sk[s].state \in Opened /\ sk'[s].state \in Opened
    BY <2>2 DEF Opened, States
  <2>7. Queues'
    <3>1. UNCHANGED <<up, listen_queue, accept_queue, csk>>
      BY <1>1, <2>1 DEF queues, counter, appVars
    <3>2. NoChild => NoChild'
      BY <2>6, <3>1 DEF NoChild, Opened, Socks
    <3>3. ASSUME NEW x \in {"C", "X"}, NEW y \in {"C", "X"}, OneChild(x, y) PROVE OneChild(x, y)'
      BY <2>6, <3>1, <3>3 DEF OneChild, Opened, Socks
    <3> QED
      BY <3>1, <3>2, <3>3 DEF Inv1, Queues
  <2>8. Accepting'
    <3>1. UNCHANGED <<env, up, accept_queue, wait_accept, app, csk, rx>>
      BY <1>1, <2>1 DEF queues, counter, waits, appVars
    <3>2. /\ sk'["L"].state = sk["L"].state
          /\ sk["K"].state = "none" <=> sk'["K"].state = "none"
      BY <2>6 DEF Socks, Opened
    <3> QED
      BY <3>1, <3>2 DEF Inv1, Accepting, Accepted, Running
  <2>9. ASSUME NEW g \in Hosts
        PROVE  Packet(g)' /\ Closing(g)' /\ FinLate(g)' /\ RstLate(g)' /\ Held(g)'
    <3>1. UNCHANGED <<app, csk, closeTo, rx, net>>
      BY <1>1 DEF appVars
    <3>2. Packet(g)'
      BY <2>2, <3>1 DEF Inv1, Packet
    <3>3. Closing(g)'
      <4>1. SUFFICES ASSUME app[g] = "set_state" PROVE Closing(g)'
        BY <3>1 DEF Closing
      <4>2. PICK m \in Socks : m = MySock(g)
        BY <4>1, Mine
      <4>3. sk[m].state \in {"ESTABLISHED", "CLOSE_WAIT"} => sk'[m] = sk[m]
        BY <2>2
      <4>4. \/ closeTo[g] = "FIN_WAIT_1" /\ sk[m].state \in {"ESTABLISHED", "CLOSE_WAIT"}
            \/ closeTo[g] = "LAST_ACK" /\ sk[m].state = "CLOSE_WAIT"
        BY <4>1, <4>2 DEF Inv1, Closing
      <4>5. MySock(g)' = m
        BY <3>1, <4>2 DEF MySock
      <4> QED
        BY <3>1, <4>3, <4>4, <4>5 DEF Closing
    <3>4. FinLate(g)'
      <4>1. \A s \in Socks : sk'[s].state \in FinSeen => sk[s].state \in FinSeen
        BY <2>2 DEF FinSeen
      <4> QED
        BY <3>1, <4>1 DEF Inv1, FinLate, Carries
    <3>7. Late(g) <=> Late(g)'
      BY <1>1, <3>1 DEF Late
    <3>5. RstLate(g)'
      BY <3>1, <3>7 DEF Inv1, RstLate, Carries
    <3>6. Held(g)'
      <4>1. ASSUME NEW s \in Socks, Counted(s) PROVE Counted(s)'
        BY <2>2, <4>1 DEF Counted, References
      <4> QED
        BY <3>7, <4>1 DEF Inv1, Held
    <3> QED
      BY <3>2, <3>3, <3>4, <3>5, <3>6
  <2> QED
    BY <2>4, <2>5, <2>7, <2>8, <2>9 DEF Inv1
<1> QED
  BY <1>2, <1>3

\* SYN_RECV: the child moves from one queue to the other; L itself ends the server.
LEMMA RxSynRecvKeeps ==
  ASSUME Inv1, NEW h \in Hosts, NEW s \in Socks, RxSynRecv(h, s) PROVE Inv1'
<1>1. /\ TypeOK /\ net[h] # <<>> /\ ArrivesIn(h, s, "SYN_RECV") /\ net' = Rest(h)
      /\ UNCHANGED <<env, left, wait_connect, wait_accept, app, csk, closeTo>>
  BY DEF Inv1, RxSynRecv, ArrivesIn, Arrives, waits, appVars
<1>2. /\ Running(h) /\ Host(s) = h /\ sk[s].state = "SYN_RECV"
      /\ \A f \in Flags : f \in Head(net[h]).flags => Carries(h, f)
  BY <1>1, Arrival
<1>3. s # "K" /\ h = "server" /\ ~ (sk[s].timer > 0)
  BY <1>2 DEF Inv1, Roles, Role, Opened, Host
<1> DEFINE e == [sk[s] EXCEPT !.state = "ESTABLISHED"]
<1>4. sk' = [sk EXCEPT ![s] = e]
  BY DEF RxSynRecv
<1>5. "ESTABLISHED" \in States /\ Looks(e, "ESTABLISHED", sk[s].hashed, sk[s].bound, sk[s].ref_cnt,
                                        sk[s].timer, sk[s].freed)
  <2>1. "ESTABLISHED" \in States
    BY DEF States
  <2> QED
    BY <1>1, <1>2, <2>1, Itself, Moved
<1> HIDE DEF e
<1>6. /\ sk' \in [Socks -> Sock] /\ Became(s, "ESTABLISHED")
      /\ \A x \in Socks \ {s} : sk'[x] = sk[x]
  BY <1>1, <1>4, <1>5, Rewritten
<1>7. /\ sk'[s].state = "ESTABLISHED" /\ sk'[s].timer = sk[s].timer
      /\ sk'[s].hashed = sk[s].hashed
  BY <1>6 DEF Became, Looks
<1>8. /\ net' \in [Hosts -> Seq(Segment)]
      /\ \A o \in Hosts, f \in Flags : Carries(o, f)' => Carries(o, f)
  BY <1>1, Taking
<1>9. \A o \in Hosts : /\ Carries(o, "FIN")' => Carries(o, "FIN")
                       /\ Carries(o, "RST")' => Carries(o, "RST")
  BY <1>8 DEF Flags
<1>10. UNCHANGED <<env, left, wait_connect, wait_accept, app, csk, closeTo>> /\ Lasting
  BY <1>1 DEF Lasting
<1>11. Only(s)
  <2>1. \A g \in Hosts : up'[g] = "running" => up[g] = "running"
    BY <1>1 DEF RxSynRecv, TypeOK
  <2> QED
    BY <1>6, <2>1 DEF Only, Running
<1>12. TypeOK' /\ Role(s)' /\ Queues' /\ Accepting'
       /\ \A g \in Hosts : /\ Packet(g)'
                           /\ rx'[g].rst => rx[g].rst \/ Carries(g, "RST")
                           /\ rx'[g].pc = "close_wait" => rx[g].pc = "close_wait"
  <2>1. CASE s = "L"
    <3>1. /\ up' = [up EXCEPT !["server"] = "null pointer"]
          /\ UNCHANGED <<listen_queue, accept_queue, counter, rx>>
      BY <1>3, <2>1 DEF RxSynRecv, HasParent, queues, counter
    <3>2. up' \in [Hosts -> {"running", "exit(-1)", "null pointer", "wild pointer",
                             "use after free"}] /\ up'["server"] = "null pointer"
      BY <1>1, <3>1 DEF TypeOK, Hosts
    <3>3. TypeOK'
      BY <1>1, <1>6, <1>8, <3>1, <3>2 DEF TypeOK, counter
    <3>4. Role(s)'
      BY <1>3, <1>7, <2>1, <3>2 DEF Inv1, Roles, Role, Running
    <3>5. Queues'
      BY <1>2, <1>3, <1>6, <1>7, <1>10, <2>1, <3>1 DEF Inv1, Queues, NoChild, OneChild, Running, Socks
    <3>6. Accepting'
      BY <1>2, <1>3, <1>6, <1>7, <1>10, <2>1, <3>1, <3>2
         DEF Inv1, Accepting, Accepted, Running, Socks
    <3>7. \A g \in Hosts : Packet(g)'
      BY <1>2, <1>6, <3>1 DEF Inv1, Packet
    <3> QED
      BY <3>1, <3>3, <3>4, <3>5, <3>6, <3>7
  <2>2. CASE s # "L"
    <3>1. /\ listen_queue' = RemoveFirst(listen_queue, s) /\ accept_queue' = Append(accept_queue, s)
          /\ Then(h, s, "count_load", HasRst(h))
          /\ UNCHANGED <<up, counter>> /\ s \in {"C", "X"}
      BY <1>3, <2>2 DEF RxSynRecv, HasParent, Socks
    <3>2. HasRst(h) \in BOOLEAN /\ "count_load" # "close_wait"
          /\ "count_load" \in RxPcs \ {"idle"}
      BY DEF HasRst
    <3>3. /\ rx' \in [Hosts -> [pc : RxPcs, sock : Socks \cup {"none"}, rst : BOOLEAN]]
          /\ rx'[Other(h)] = rx[Other(h)] /\ Packet(h)'
          /\ rx'[h].rst => HasRst(h)
          /\ rx'[h].pc = "count_load" \/ rx'[h].pc = "idle"
      BY <1>1, <1>2, <3>1, <3>2, Continues
    <3>4. PICK t \in {"C", "X"} : OneChild(s, t) /\ t # s
      BY <1>2, <3>1 DEF Inv1, Queues, NoChild, OneChild
    <3>5. /\ listen_queue = <<s>> /\ accept_queue = <<>> /\ csk = "none"
          /\ sk["L"].state \in {"SYN_RECV", "ESTABLISHED"} /\ sk[t].state = "none"
      BY <1>2, <3>4 DEF OneChild, Opened
    <3>6. listen_queue' = <<>> /\ accept_queue' = <<s>>
      BY <3>1, <3>5, LastRemoved, Single
    <3>7. accept_queue' \in Seq({"C", "X"}) /\ listen_queue' \in Seq({"C", "X"})
      BY <3>1, <3>6
    <3>9. TypeOK'
      BY <1>1, <1>6, <1>8, <3>1, <3>3, <3>7 DEF TypeOK, counter
    <3>10. "ESTABLISHED" \in Opened
      BY DEF Opened, States
    <3>11. Role(s)'
      BY <1>3, <1>7, <2>2, <3>10 DEF Inv1, Roles, Role
    <3>12. Queues'
      <4>1. OneChild(s, t)'
        BY <1>6, <1>7, <1>10, <2>2, <3>4, <3>5, <3>6, <3>10 DEF OneChild, Socks
      <4> QED
        BY <3>1, <3>4, <4>1 DEF Queues, OneChild
    <3>13. Accepting'
      <4>1. Accepted'
        BY <3>6, Single DEF Accepted
      <4>2. rx'["client"].pc \notin Announces
        BY <1>3, <3>3 DEF Inv1, Accepting, Other
      <4>3. accept_queue' # <<>>
        BY <3>6, Single
      <4> QED
        BY <1>3, <1>6, <1>7, <1>10, <2>2, <3>1, <4>1, <4>2, <4>3
           DEF Inv1, Accepting, Running, Socks
    <3>14. ASSUME NEW g \in Hosts
           PROVE  /\ Packet(g)'
                  /\ rx'[g].rst => rx[g].rst \/ Carries(g, "RST")
                  /\ rx'[g].pc = "close_wait" => rx[g].pc = "close_wait"
      <4>1. CASE g = h
        BY <1>2, <3>3, <4>1 DEF HasRst, Flags
      <4>2. CASE g # h
        <5>1. rx'[g] = rx[g] /\ Packet(g)
          BY <3>3, <4>2, TwoHosts DEF Inv1
        <5>2. Host(rx[g].sock) = g /\ rx[g].sock \in Socks => sk'[rx[g].sock] = sk[rx[g].sock]
          BY <1>2, <1>6, <4>2
        <5> QED
          BY <5>1, <5>2 DEF Packet
      <4> QED
        BY <4>1, <4>2
    <3> QED
      BY <3>9, <3>11, <3>12, <3>13, <3>14
  <2> QED
    BY <2>1, <2>2
<1>13. Roles'
  BY <1>11, <1>12, RolesKept DEF Inv1
<1>14. ASSUME NEW g \in Hosts
       PROVE  Closing(g)' /\ FinLate(g)' /\ RstLate(g)' /\ Held(g)'
  <2>1. Closing(g)'
    BY <1>2, <1>6, <1>10, ClosingMild DEF appVars
  <2>2. FinLate(g)'
    <3>1. sk'[s].state \notin FinSeen
      BY <1>7 DEF FinSeen
    <3> QED
      BY <1>9, <1>10, <1>11, <1>12, <3>1, FinKept DEF Inv1
  <2>3. RstLate(g)'
    BY <1>9, <1>10, <1>12 DEF Inv1, RstLate, Late
  <2>4. Held(g)'
    <3>1. Counted(s) => Counted(s)'
      BY <1>2, <1>6, CountedStays
    <3> QED
      BY <1>10, <1>11, <3>1, HeldKept DEF Inv1, Held, Late
  <2> QED
    BY <2>1, <2>2, <2>3, <2>4
<1> QED
  BY <1>12, <1>13, <1>14 DEF Inv1

\* What the handler of LISTEN does: L is in SYN_RECV, its child a copy that holds one
\* reference more.
MakesChild(h) ==
  \E n \in {"C", "X"}, l \in Sock, a \in Sock, c \in Sock :
         /\ n = Child(Head(net[h]).conn) /\ sk["L"].ref_cnt \in Int
         /\ sk'["L"] = l /\ sk'[n] = a /\ \A x \in Socks \ {"L", n} : sk'[x] = sk[x]
         /\ l.state = "SYN_RECV" /\ l.timer = sk["L"].timer /\ l.hashed = sk["L"].hashed
         /\ l.bound = sk["L"].bound /\ l.ref_cnt = sk["L"].ref_cnt /\ l.freed = sk["L"].freed
         /\ a.state = "SYN_RECV" /\ a.timer = sk["L"].timer /\ a.hashed = "established"
         /\ a.bound = FALSE /\ a.ref_cnt = sk["L"].ref_cnt + 1 /\ a.freed = sk["L"].freed
         /\ listen_queue' = Append(listen_queue, n)
         /\ net' = Emit(Rest(h), h, ControlPacket(n, c, {"SYN", "ACK"}))

\* LISTEN: L makes its only child, and listens no more.
LEMMA RxListenDoes ==
  ASSUME ConnAssumption, Inv1, NEW h \in Hosts, NEW s \in Socks, RxListen(h, s)
  PROVE  /\ s = "L" /\ h = "server" /\ NoChild /\ sk["L"].state = "LISTEN" /\ ~ (sk["L"].timer > 0)
         /\ sk' \in [Socks -> Sock] /\ Then(h, "L", "end", HasRst(h))
         /\ MakesChild(h)
<1>1. /\ TypeOK /\ net[h] # <<>> /\ ArrivesIn(h, s, "LISTEN") /\ ~ sk[s].freed
      /\ UNCHANGED <<env, left, up, accept_queue, counter, wait_connect, wait_accept,
                     app, csk, closeTo>>
  BY DEF Inv1, RxListen, ArrivesIn, Arrives, waits, appVars
<1>2. /\ Running(h) /\ Host(s) = h /\ sk[s].state = "LISTEN" /\ Head(net[h]) \in Segment
      /\ \A f \in Flags : f \in Head(net[h]).flags => Carries(h, f)
  BY <1>1, Arrival
<1>3. s = "L" /\ h = "server" /\ ~ (sk["L"].timer > 0)
  BY <1>2 DEF Inv1, Roles, Role, Opened, Host, Socks, States
<1>4. NoChild
  BY <1>2, <1>3 DEF Inv1, Queues, OneChild
<1> DEFINE seg == Head(net[h])
           q == sk["L"]
           l == [q EXCEPT !.state = "SYN_RECV"]
           k == SeqInc(seg.seq)
           b == [l EXCEPT !.rcv_nxt = k, !.bound = FALSE]
           c == tcp_hash(b)
           a == AfterControl(c, {"SYN", "ACK"})
<1>5. PICK n \in {"C", "X"} : n = Child(seg.conn) /\ k \in SeqNo
  BY <1>2, SeqNoRange DEF Child, Segment
<1>6. /\ sk' = [sk EXCEPT !["L"] = l, ![n] = a] /\ listen_queue' = Append(listen_queue, n)
      /\ net' = Emit(Rest(h), h, ControlPacket(n, c, {"SYN", "ACK"}))
      /\ Then(h, "L", "end", HasRst(h))
  BY <1>3, <1>5 DEF RxListen
<1> HIDE DEF k
<1>7. /\ Looks(q, "LISTEN", q.hashed, q.bound, q.ref_cnt, q.timer, q.freed)
      /\ q \in Sock /\ q.ref_cnt \in Int
  <2>1. q \in Sock /\ Looks(q, "LISTEN", q.hashed, q.bound, q.ref_cnt, q.timer, q.freed)
    BY <1>1, <1>2, <1>3, Itself DEF Socks
  <2> QED
    BY <2>1 DEF Sock
<1> HIDE DEF q
<1>8. Looks(l, "SYN_RECV", q.hashed, q.bound, q.ref_cnt, q.timer, q.freed)
  BY <1>7, Moved DEF States
<1> HIDE DEF l
<1>9. Looks(b, "SYN_RECV", q.hashed, FALSE, q.ref_cnt, q.timer, q.freed)
  <2>1. Looks([l EXCEPT !.rcv_nxt = k], "SYN_RECV", q.hashed, q.bound, q.ref_cnt, q.timer, q.freed)
    BY <1>5, <1>8, Heard
  <2> DEFINE d == [l EXCEPT !.rcv_nxt = k]
  <2>2. b = [d EXCEPT !.bound = FALSE]
    BY <1>8 DEF Looks, Sock
  <2> HIDE DEF b, d
  <2>3. Looks(d, "SYN_RECV", q.hashed, q.bound, q.ref_cnt, q.timer, q.freed)
    BY <2>1 DEF d
  <2> QED
    BY <2>2, <2>3 DEF Looks, Sock
<1> HIDE DEF b
<1>10. Looks(c, "SYN_RECV", IF "SYN_RECV" = "LISTEN" THEN "listen" ELSE "established",
             FALSE, q.ref_cnt + 1, q.timer, q.freed)
  <2>1. "SYN_RECV" # "CLOSED"
    OBVIOUS
  <2> QED
    BY <1>9, <2>1, Hashed, Zenon
<1> HIDE DEF c
<1>11. Looks(a, "SYN_RECV", IF "SYN_RECV" = "LISTEN" THEN "listen" ELSE "established",
             FALSE, q.ref_cnt + 1, q.timer, q.freed)
  BY <1>10, Controlled, Zenon
<1> HIDE DEF a
<1>12. /\ sk' \in [Socks -> Sock] /\ sk'["L"] = l /\ sk'[n] = a
       /\ \A x \in Socks \ {"L", n} : sk'[x] = sk[x]
  <2>1. l \in Sock /\ a \in Sock
    BY <1>8, <1>11 DEF Looks
  <2> QED
    BY <1>1, <1>6, <1>5, <2>1 DEF TypeOK, Socks
<1>13. /\ l.state = "SYN_RECV" /\ l.timer = q.timer /\ l.hashed = q.hashed /\ l.bound = q.bound
       /\ l.ref_cnt = q.ref_cnt /\ l.freed = q.freed
       /\ a.state = "SYN_RECV" /\ a.timer = q.timer /\ a.hashed = "established" /\ a.bound = FALSE
       /\ a.ref_cnt = q.ref_cnt + 1 /\ a.freed = q.freed
       /\ c \in Sock
  BY <1>8, <1>10, <1>11 DEF Looks
<1>14. l \in Sock /\ a \in Sock
  BY <1>8, <1>11 DEF Looks
<1>15. /\ s = "L" /\ h = "server" /\ NoChild /\ sk["L"].state = "LISTEN" /\ ~ (sk["L"].timer > 0)
       /\ sk' \in [Socks -> Sock] /\ Then(h, "L", "end", HasRst(h))
  BY <1>2, <1>3, <1>4, <1>6, <1>12
<1>16. /\ n = Child(Head(net[h]).conn) /\ sk["L"].ref_cnt \in Int
       /\ sk'["L"] = l /\ sk'[n] = a /\ \A x \in Socks \ {"L", n} : sk'[x] = sk[x]
       /\ l.state = "SYN_RECV" /\ l.timer = sk["L"].timer /\ l.hashed = sk["L"].hashed
       /\ l.bound = sk["L"].bound /\ l.ref_cnt = sk["L"].ref_cnt /\ l.freed = sk["L"].freed
       /\ a.state = "SYN_RECV" /\ a.timer = sk["L"].timer /\ a.hashed = "established"
       /\ a.bound = FALSE /\ a.ref_cnt = sk["L"].ref_cnt + 1 /\ a.freed = sk["L"].freed
       /\ listen_queue' = Append(listen_queue, n)
       /\ net' = Emit(Rest(h), h, ControlPacket(n, c, {"SYN", "ACK"}))
       /\ n \in {"C", "X"} /\ l \in Sock /\ a \in Sock /\ c \in Sock
  BY <1>5, <1>6, <1>7, <1>12, <1>13, <1>14 DEF q
<1>17. MakesChild(h)
  BY <1>16, Zenon DEF MakesChild
<1> QED
  BY <1>15, <1>17

\* The handler of LISTEN keeps the invariant.
LEMMA RxListenKeeps ==
  ASSUME ConnAssumption, Inv1, NEW h \in Hosts, NEW s \in Socks, RxListen(h, s) PROVE Inv1'
<1>1. /\ TypeOK /\ net[h] # <<>> /\ ArrivesIn(h, s, "LISTEN") /\ ~ sk[s].freed
      /\ UNCHANGED <<env, left, up, accept_queue, counter, wait_connect, wait_accept,
                     app, csk, closeTo>>
  BY DEF Inv1, RxListen, ArrivesIn, Arrives, waits, appVars
<1>2. /\ Running(h) /\ Host(s) = h /\ sk[s].state = "LISTEN" /\ Head(net[h]) \in Segment
      /\ \A f \in Flags : f \in Head(net[h]).flags => Carries(h, f)
  BY <1>1, Arrival
<1>3. s = "L" /\ h = "server" /\ ~ (sk["L"].timer > 0)
  BY RxListenDoes
<1>4. NoChild
  BY RxListenDoes
<1> DEFINE q == sk["L"]
<1>5. PICK n \in {"C", "X"}, l \in Sock, a \in Sock, c \in Sock :
              /\ n = Child(Head(net[h]).conn) /\ sk["L"].ref_cnt \in Int
              /\ sk'["L"] = l /\ sk'[n] = a /\ \A x \in Socks \ {"L", n} : sk'[x] = sk[x]
              /\ l.state = "SYN_RECV" /\ l.timer = sk["L"].timer /\ l.hashed = sk["L"].hashed
              /\ l.bound = sk["L"].bound /\ l.ref_cnt = sk["L"].ref_cnt /\ l.freed = sk["L"].freed
              /\ a.state = "SYN_RECV" /\ a.timer = sk["L"].timer /\ a.hashed = "established"
              /\ a.bound = FALSE /\ a.ref_cnt = sk["L"].ref_cnt + 1 /\ a.freed = sk["L"].freed
              /\ listen_queue' = Append(listen_queue, n)
              /\ net' = Emit(Rest(h), h, ControlPacket(n, c, {"SYN", "ACK"}))
  <2>1. MakesChild(h)
    BY RxListenDoes
  <2> QED
    BY <2>1, Zenon DEF MakesChild
<1>6. /\ listen_queue' = Append(listen_queue, n)
      /\ net' = Emit(Rest(h), h, ControlPacket(n, c, {"SYN", "ACK"}))
      /\ Then(h, "L", "end", HasRst(h))
  BY <1>5, RxListenDoes
<1>7. q.ref_cnt \in Int
  BY <1>5
<1> HIDE DEF q
<1>12. /\ sk' \in [Socks -> Sock] /\ sk'["L"] = l /\ sk'[n] = a
       /\ \A x \in Socks \ {"L", n} : sk'[x] = sk[x]
  BY <1>5, RxListenDoes
<1>13. /\ l.state = "SYN_RECV" /\ l.timer = q.timer /\ l.hashed = q.hashed /\ l.bound = q.bound
       /\ l.ref_cnt = q.ref_cnt /\ l.freed = q.freed
       /\ a.state = "SYN_RECV" /\ a.timer = q.timer /\ a.hashed = "established" /\ a.bound = FALSE
       /\ a.ref_cnt = q.ref_cnt + 1 /\ a.freed = q.freed
       /\ c \in Sock
  BY <1>5 DEF q
<1>14. /\ net' \in [Hosts -> Seq(Segment)]
       /\ \A o \in Hosts : /\ Carries(o, "FIN")' => Carries(o, "FIN")
                           /\ Carries(o, "RST")' => Carries(o, "RST") \/ Late(o)
  <2> DEFINE p == ControlPacket(n, c, {"SYN", "ACK"})
  <2>1. p \in Segment /\ p.flags = {"SYN", "ACK"}
    <3>1. {"SYN", "ACK"} \in SUBSET Flags /\ n \in Socks
      BY <1>5 DEF Flags, Socks
    <3> QED
      BY <1>13, <3>1, Controls
  <2>2. net' = Emit(Rest(h), h, p)
    BY <1>6
  <2> HIDE DEF p
  <2> QED
    BY <1>1, <2>1, <2>2, Answering
<1>15. /\ rx' \in [Hosts -> [pc : RxPcs, sock : Socks \cup {"none"}, rst : BOOLEAN]]
       /\ rx'[Other(h)] = rx[Other(h)] /\ Packet(h)'
       /\ rx'[h].rst => HasRst(h)
       /\ rx'[h].pc = "end" \/ rx'[h].pc = "idle"
  <2>1. HasRst(h) \in BOOLEAN /\ "end" \in RxPcs \ {"idle"}
        /\ "end" # "close_wait" /\ "L" \in Socks /\ Host("L") = h
    BY <1>2, <1>3 DEF HasRst, Socks
  <2> QED
    BY <1>1, <1>6, <2>1, Continues
<1>16. /\ listen_queue = <<>> /\ accept_queue = <<>> /\ csk = "none"
       /\ sk["C"].state = "none" /\ sk["X"].state = "none"
       /\ listen_queue' = <<n>>
  BY <1>4, <1>6, Single DEF NoChild
<1>17. TypeOK'
  <2>1. listen_queue' \in Seq({"C", "X"})
    BY <1>5, <1>16
  <2> QED
    BY <1>1, <1>12, <1>14, <1>15, <2>1 DEF TypeOK, counter
<1>18. Roles'
  <2>1. ASSUME NEW x \in Socks PROVE Role(x)'
    <3>1. CASE x \in {"L", n}
      BY <1>3, <1>5, <1>12, <1>13, <3>1 DEF Inv1, Roles, Role, q
    <3>2. CASE x \notin {"L", n}
      BY <1>1, <1>3, <1>12, <3>2 DEF Inv1, Roles, Role, Running
    <3> QED
      BY <3>1, <3>2
  <2> QED
    BY <2>1 DEF Roles
<1>19. Queues'
  <2>1. PICK t \in {"C", "X"} : t # n
    BY <1>5
  <2>2. OneChild(n, t)'
    BY <1>1, <1>5, <1>12, <1>13, <1>16, <2>1 DEF OneChild, Socks
  <2> QED
    BY <1>5, <2>1, <2>2 DEF Queues, OneChild
<1>20. Accepting'
  <2>1. \A g \in Hosts : rx'[g].pc \in Announces => g # h /\ rx[g].pc \in Announces
    BY <1>15, TwoHosts
  <2>2. sk'["K"] = sk["K"] /\ sk'["L"].state # "none" /\ sk["L"].state # "none"
    BY <1>2, <1>3, <1>5, <1>12, <1>13 DEF Socks
  <2>3. "client" \in Hosts /\ "server" \in Hosts
    BY DEF Hosts
  <2> QED
    BY <1>1, <1>16, <2>1, <2>2, <2>3 DEF Inv1, Accepting, Accepted, Running
<1>21. ASSUME NEW g \in Hosts
       PROVE  Packet(g)' /\ Closing(g)' /\ FinLate(g)' /\ RstLate(g)' /\ Held(g)'
  <2>0. \A x \in Socks : Host(x) = "client" => sk'[x] = sk[x]
    BY <1>5, <1>12 DEF Host
  <2>1. g # h => rx'[g] = rx[g] /\ g = "client"
    BY <1>3, <1>15, TwoHosts DEF Hosts
  <2>2. Packet(g)'
    BY <1>15, <2>0, <2>1 DEF Inv1, Packet
  <2>3. Closing(g)'
    <3>1. SUFFICES ASSUME app[g] = "set_state" PROVE Closing(g)'
      BY <1>1 DEF Closing
    <3>2. g = "client"
      <4>1. g = "server" => csk # "none"
        BY <3>1, Mine DEF Socks
      <4> QED
        BY <1>16, <4>1 DEF Hosts
    <3>3. sk'["K"] = sk["K"] /\ MySock(g) = "K" /\ MySock(g)' = "K"
      BY <1>5, <1>12, <3>2 DEF MySock, Socks
    <3> QED
      BY <1>1, <3>1, <3>2, <3>3 DEF Inv1, Closing
  <2>4. FinLate(g)'
    <3>1. \A x \in Socks : sk'[x].state \in FinSeen => sk[x].state \in FinSeen
      BY <1>12, <1>13 DEF FinSeen
    <3>2. rx'[g].pc = "close_wait" => rx[g].pc = "close_wait"
      BY <1>15, <2>1
    <3> QED
      BY <1>1, <1>14, <3>1, <3>2 DEF Inv1, FinLate
  <2>5. RstLate(g)'
    BY <1>1, <1>2, <1>14, <1>15, <2>1 DEF Inv1, RstLate, HasRst, Flags, Late
  <2>6. Held(g)'
    <3>1. SUFFICES ASSUME ~ Late(g), NEW x \in Socks, Host(x) = g PROVE Counted(x)'
      BY <1>1 DEF Held, Late
    <3>2. \A y \in Socks : Host(y) = g => Counted(y)
      BY <3>1 DEF Inv1, Held, Late
    <3>3. CASE x \notin {"L", n}
      BY <1>12, <3>1, <3>2, <3>3 DEF Counted, References
    <3>4. CASE x \in {"L", n}
      <4>1. Counted("L")
        BY <1>3, <1>5, <3>1, <3>2, <3>4 DEF Socks, Host
      <4>2. /\ q.ref_cnt >= References(q) /\ ~ q.freed /\ q.hashed # "no"
        BY <1>2, <1>3, <4>1 DEF Counted, q
      <4>3. ~ (q.timer > 0)
        BY <1>3 DEF q
      <4>4. CASE x = "L"
        BY <1>7, <1>12, <1>13, <4>2, <4>3, <4>4 DEF Counted, References
      <4>5. CASE x = n
        BY <1>7, <1>12, <1>13, <4>2, <4>3, <4>5 DEF Counted, References
      <4> QED
        BY <3>4, <4>4, <4>5
    <3> QED
      BY <3>3, <3>4
  <2> QED
    BY <2>2, <2>3, <2>4, <2>5, <2>6
<1> QED
  BY <1>17, <1>18, <1>19, <1>20, <1>21 DEF Inv1

-----------------------------------------------------------------------------
(* The invariant holds in every state of every behaviour.                   *)

\* It holds at first, ...
LEMMA Inv1Starts ==
  ASSUME ConnAssumption, Init PROVE Inv1
<1>1. NoSock \in Sock /\ NoSock.state = "none" /\ NoSock.timer = -1 /\ NoSock.hashed = "no"
      /\ NoSock.bound = FALSE /\ NoSock.ref_cnt = 0 /\ NoSock.freed = FALSE
  BY SeqNoRange DEF NoSock, Sock, States
<1>2. \A s \in Socks : sk[s] = NoSock
  BY DEF Init
<1>3. /\ RxIdle \in [pc : RxPcs, sock : Socks \cup {"none"}, rst : BOOLEAN]
      /\ RxIdle.pc = "idle" /\ RxIdle.rst = FALSE
  BY DEF RxIdle
<1> HIDE DEF NoSock, RxIdle
<1>4. TypeOK
  <2>1. /\ env \in EnvType /\ left = [foreign |-> env.foreign, dups |-> env.dups]
    BY DEF Init, ConnAssumption
  <2>2. left \in [foreign : BOOLEAN, dups : Nat]
    BY <2>1 DEF EnvType
  <2>3. /\ wait_connect \in WaitStruct({"client"}) /\ wait_accept \in WaitStruct({"server"})
    BY DEF Init, wait_init, WaitStruct
  <2>4. /\ sk \in [Socks -> Sock] /\ rx \in
             [Hosts -> [pc : RxPcs, sock : Socks \cup {"none"}, rst : BOOLEAN]]
    BY <1>1, <1>3 DEF Init
  <2>5. /\ listen_queue \in Seq({"C", "X"}) /\ accept_queue \in Seq({"C", "X"})
        /\ net \in [Hosts -> Seq(Segment)]
    BY DEF Init
  <2>6. accept_backlog \in Int /\ backlog_read \in [rx : Int, app : Int] /\ lost_update \in BOOLEAN
    <3>1. accept_backlog = 0 /\ backlog_read = [rx |-> 0, app |-> 0] /\ lost_update = FALSE
      BY DEF Init
    <3>2. [rx |-> 0, app |-> 0] \in [rx : Int, app : Int]
      OBVIOUS
    <3> QED
      BY <3>1, <3>2
  <2> QED
    BY <2>1, <2>2, <2>3, <2>4, <2>5, <2>6 DEF Init, TypeOK
<1>5. Roles
  BY <1>1, <1>2 DEF Roles, Role
<1>6. Queues
  BY <1>1, <1>2, Single DEF Init, Queues, NoChild, Socks
<1>7. Accepting
  <2>1. wait_accept.dead = FALSE /\ wait_accept.notified = FALSE /\ wait_accept.signaled = {}
    BY DEF Init, wait_init
  <2>2. \A h \in Hosts : rx[h].pc = "idle" /\ app[h] = "start" /\ up[h] = "running"
    BY <1>3 DEF Init
  <2> QED
    BY <1>1, <1>2, <2>1, <2>2 DEF Accepting, Init, Hosts, Socks
<1>8. ASSUME NEW h \in Hosts
      PROVE  Packet(h) /\ Closing(h) /\ FinLate(h) /\ RstLate(h) /\ Held(h)
  <2>1. rx[h] = RxIdle /\ net[h] = <<>> /\ app[h] = "start"
    BY DEF Init
  <2>2. ~ Carries(h, "FIN") /\ ~ Carries(h, "RST")
    BY <2>1 DEF Carries
  <2>3. \A s \in Socks : Counted(s)
    BY <1>1, <1>2 DEF Counted, References
  <2>4. \A s \in Socks : sk[s].state \notin FinSeen
    BY <1>1, <1>2 DEF FinSeen
  <2> QED
    BY <1>3, <2>1, <2>2, <2>3, <2>4 DEF Packet, Closing, FinLate, RstLate, Held, Late
<1> QED
  BY <1>4, <1>5, <1>6, <1>7, <1>8 DEF Inv1

\* ... the applications keep it, ...
LEMMA AppStepKeeps ==
  ASSUME ConnAssumption, Inv1, NEW h \in Hosts, AppStep(h) PROVE Inv1'
  BY ConnectKeeps, ConnectSleepKeeps, ConnectWakeKeeps, ListenKeeps, AcceptTestKeeps,
     AcceptSleepKeeps, AcceptWakeKeeps, AcceptDequeueKeeps, AcceptUncountKeeps, CloseSwitchKeeps,
     CloseSetStateKeeps, CloseSendFinKeeps
  DEF AppStep

\* ... the packet threads keep it, ...
LEMMA RxStepKeeps ==
  ASSUME ConnAssumption, Inv1, ClosedIsDeaf, NEW h \in Hosts, RxStep(h) PROVE Inv1'
<1>1. CASE RxNoSock(h) \/ RxUsesFreed(h)
  BY <1>1, RxNoSockKeeps, RxUsesFreedKeeps
<1>4. \A s \in Socks : RxClosed(h, s) => env.dups # 0
  BY DEF ClosedIsDeaf, RxClosed
<1>2. ASSUME NEW s \in Socks,
             \/ RxClosed(h, s) \/ RxListen(h, s) \/ RxSynSent(h, s) \/ RxSynRecv(h, s)
             \/ RxEstablished(h, s) \/ RxFinWait1(h, s) \/ RxFinWait2(h, s)
             \/ RxLastAck(h, s) \/ RxIgnored(h, s)
      PROVE  Inv1'
  BY <1>2, <1>4, RxClosedKeeps, RxListenKeeps, RxSynSentKeeps, RxSynRecvKeeps, RxEstablishedKeeps,
     RxFinWait1Keeps, RxFinWait2Keeps, RxLastAckKeeps, RxIgnoredKeeps
<1>3. CASE RxWakeConnect(h) \/ RxCount(h) \/ RxWakeAccept(h) \/ RxCloseWait(h) \/ RxReset(h)
  BY <1>3, RxWakeConnectKeeps, RxCountKeeps, RxWakeAcceptKeeps, RxCloseWaitKeeps, RxResetKeeps
<1> QED
  BY <1>1, <1>2, <1>3 DEF RxStep

\* ... and so does every step.
LEMMA Inv1Kept ==
  ASSUME ConnAssumption, Inv1, ClosedIsDeaf, [Next]_vars PROVE Inv1'
<1>1. CASE UNCHANGED vars
  <2>1. UNCHANGED <<env, up, sk, queues, waits, appVars, rx, left, net>>
    BY <1>1 DEF vars, queues, counter, waits, appVars
  <2>2. /\ left' \in [foreign : BOOLEAN, dups : Nat] /\ net' \in [Hosts -> Seq(Segment)]
        /\ \A o \in Hosts, f \in {"FIN", "RST"} : Carries(o, f)' => Carries(o, f)
    BY <2>1 DEF Inv1, TypeOK, Carries
  <2> QED
    BY <2>1, <2>2, NetMoves
<1>2. ASSUME NEW h \in Hosts, AppStep(h) \/ RxStep(h) \/ TimerScan(h) PROVE Inv1'
  BY <1>2, AppStepKeeps, RxStepKeeps, TimerScanKeeps
<1>3. CASE NetStep
  BY <1>3, ForeignSynKeeps, DuplicateKeeps DEF NetStep
<1> QED
  BY <1>1, <1>2, <1>3 DEF Next

-----------------------------------------------------------------------------
(* The packets of a connection, counted: the second inductive invariant.    *)

One(b) == IF b THEN 1 ELSE 0

\* Packets of a kind on their way.
Has(q, kind) == \E i \in DOMAIN q : q[i] \in kind
AtMostOne(q, kind) == \A i, j \in DOMAIN q : q[i] \in kind /\ q[j] \in kind => i = j
Fins == {seg \in Segment : "FIN" \in seg.flags}
Strangers == {seg \in Segment : seg.conn = "x"}

\* The application has sent its FIN; it has once at most.
FinSent(h) == app[h] = "done" /\ closeTo[h] # "none"
FinOnce(h) ==
  /\ AtMostOne(net[h], Fins)
  /\ Has(net[h], Fins) => FinSent(Other(h))
  /\ app[h] = "send_fin" => closeTo[h] # "none"

\* The other peer sends one SYN, and nothing comes for the sock made for it.
Stranger ==
  /\ AtMostOne(net["server"], Strangers)
  /\ sk["X"].state \in {"none", "SYN_RECV"}
  /\ left.foreign \/ sk["X"].state # "none" => ~ Has(net["server"], Strangers)
  /\ left.foreign => sk["X"].state = "none"
  /\ ~ env.foreign =>
       ~ left.foreign /\ sk["X"].state = "none" /\ ~ Has(net["server"], Strangers)

\* Before the client has connected there is no packet of the connection.
Unknown ==
  sk["K"].state = "none" =>
    /\ sk["C"].state = "none" /\ net["client"] = <<>>
    /\ \A i \in DOMAIN net["server"] : net["server"][i] \in Strangers

\* How many packets a sock of an established connection has taken since.
Needed(st, pc) ==
  IF st \in {"TIME_WAIT", "CLOSED"} THEN 2
  ELSE IF st \in {"CLOSE_WAIT", "LAST_ACK", "FIN_WAIT_2"} \/ pc = "close_wait" THEN 1 ELSE 0

\* How many packets K and C have taken at least.
UsedK == One(sk["K"].state \in Opened) + Needed(sk["K"].state, rx["client"].pc)
UsedC == One(sk["C"].state # "none") + One(sk["C"].state \in Opened)
         + Needed(sk["C"].state, rx["server"].pc)

\* How many have been sent to the client (SYN|ACK, the server's FIN, the ACK of the
\* client's FIN) and to the server (SYN, ACK, the client's FIN, the ACK of the
\* server's FIN) at most.
SentToK == One(sk["C"].state # "none") + One(FinSent("server"))
           + One(FinSent("client") /\ ~ Has(net["server"], Fins))
SentToC == One(sk["K"].state # "none") + One(sk["K"].state \in Opened) + One(FinSent("client"))
           + One(FinSent("server") /\ ~ Has(net["client"], Fins))

Counts ==
  /\ Len(net["client"]) + UsedK <= SentToK
  /\ Len(net["server"]) + UsedC <= SentToC + One(Has(net["server"], Strangers))

Numbered == /\ left.dups = 0 /\ FinOnce("client") /\ FinOnce("server")
            /\ Stranger /\ Unknown /\ Counts
Inv2 == env.dups = 0 => Numbered

-----------------------------------------------------------------------------
(* Queues of packets.                                                       *)

\* Taking the packet at the head.
LEMMA HeadTaken ==
  ASSUME NEW q \in Seq(Segment), q # <<>>, NEW kind
  PROVE  /\ Len(Tail(q)) = Len(q) - 1
         /\ Has(Tail(q), kind) => Has(q, kind)
         /\ Head(q) \in kind => Has(q, kind)
         /\ Head(q) \notin kind /\ Has(q, kind) => Has(Tail(q), kind)
         /\ AtMostOne(q, kind) => AtMostOne(Tail(q), kind)
         /\ AtMostOne(q, kind) /\ Head(q) \in kind => ~ Has(Tail(q), kind)
<1> DEFINE t == Tail(q)
<1>1. /\ Len(t) = Len(q) - 1 /\ Head(q) = q[1] /\ 1 \in DOMAIN q
      /\ DOMAIN t = 1 .. Len(q) - 1 /\ DOMAIN q = 1 .. Len(q) /\ Len(q) \in Nat
  OBVIOUS
<1>2. \A i \in DOMAIN t : i + 1 \in DOMAIN q /\ t[i] = q[i + 1]
  OBVIOUS
<1>3. \A i \in DOMAIN q : i # 1 => i - 1 \in DOMAIN t /\ t[i - 1] = q[i]
  OBVIOUS
<1> HIDE DEF t
<1>4. Has(t, kind) => Has(q, kind)
  BY <1>2 DEF Has
<1>5. Head(q) \in kind => Has(q, kind)
  BY <1>1 DEF Has
<1>6. Head(q) \notin kind /\ Has(q, kind) => Has(t, kind)
  BY <1>1, <1>3 DEF Has
<1>7. ASSUME AtMostOne(q, kind) PROVE AtMostOne(t, kind)
  <2>1. ASSUME NEW i \in DOMAIN t, NEW j \in DOMAIN t, t[i] \in kind, t[j] \in kind PROVE i = j
    <3>1. i + 1 = j + 1
      BY <1>2, <1>7, <2>1 DEF AtMostOne
    <3> QED
      BY <1>1, <3>1
  <2> QED
    BY <2>1 DEF AtMostOne
<1>8. ASSUME AtMostOne(q, kind), Head(q) \in kind, NEW i \in DOMAIN t, t[i] \in kind PROVE FALSE
  <2>1. i + 1 = 1
    BY <1>1, <1>2, <1>8 DEF AtMostOne
  <2> QED
    BY <1>1, <2>1
<1>9. AtMostOne(q, kind) /\ Head(q) \in kind => ~ Has(t, kind)
  BY <1>8 DEF Has
<1> QED
  BY <1>1, <1>4, <1>5, <1>6, <1>7, <1>9 DEF t

\* Putting one at the end.
LEMMA PutLast ==
  ASSUME NEW q \in Seq(Segment), NEW g \in Segment, NEW kind
  PROVE  /\ Len(Append(q, g)) = Len(q) + 1
         /\ Has(Append(q, g), kind) <=> Has(q, kind) \/ g \in kind
         /\ AtMostOne(q, kind) /\ (g \notin kind \/ ~ Has(q, kind)) => AtMostOne(Append(q, g), kind)
<1> DEFINE a == Append(q, g)
<1>1. /\ Len(a) = Len(q) + 1 /\ DOMAIN a = 1 .. Len(q) + 1 /\ DOMAIN q = 1 .. Len(q) /\ Len(q) \in Nat
      /\ a[Len(q) + 1] = g /\ Len(q) + 1 \in DOMAIN a
  OBVIOUS
<1>2. \A i \in DOMAIN q : i \in DOMAIN a /\ a[i] = q[i]
  OBVIOUS
<1>3. \A i \in DOMAIN a : i \in DOMAIN q \/ i = Len(q) + 1
  BY <1>1
<1> HIDE DEF a
<1>4. Has(a, kind) <=> Has(q, kind) \/ g \in kind
  BY <1>1, <1>2, <1>3 DEF Has
<1>5. ASSUME AtMostOne(q, kind), g \notin kind \/ ~ Has(q, kind) PROVE AtMostOne(a, kind)
  <2>1. ASSUME NEW i \in DOMAIN a, NEW j \in DOMAIN a, a[i] \in kind, a[j] \in kind PROVE i = j
    <3>1. CASE i \in DOMAIN q /\ j \in DOMAIN q
      BY <1>2, <1>5, <2>1, <3>1 DEF AtMostOne
    <3>2. CASE i = Len(q) + 1 /\ j \in DOMAIN q
      BY <1>1, <1>2, <1>5, <2>1, <3>2 DEF Has
    <3>3. CASE i \in DOMAIN q /\ j = Len(q) + 1
      BY <1>1, <1>2, <1>5, <2>1, <3>3 DEF Has
    <3>4. CASE i = Len(q) + 1 /\ j = Len(q) + 1
      BY <3>4
    <3> QED
      BY <1>3, <3>1, <3>2, <3>3, <3>4
  <2> QED
    BY <2>1 DEF AtMostOne
<1> QED
  BY <1>1, <1>4, <1>5 DEF a

\* What host h takes, ...
LEMMA TakesOne ==
  ASSUME TypeOK, NEW h \in Hosts, net[h] # <<>>, NEW kind
  PROVE  /\ Rest(h)[Other(h)] = net[Other(h)]
         /\ Len(Rest(h)[h]) = Len(net[h]) - 1
         /\ Has(Rest(h)[h], kind) => Has(net[h], kind)
         /\ Head(net[h]) \in kind => Has(net[h], kind)
         /\ Head(net[h]) \notin kind /\ Has(net[h], kind) => Has(Rest(h)[h], kind)
         /\ AtMostOne(net[h], kind) => AtMostOne(Rest(h)[h], kind)
         /\ AtMostOne(net[h], kind) /\ Head(net[h]) \in kind => ~ Has(Rest(h)[h], kind)
<1>1. net \in [Hosts -> Seq(Segment)] /\ Other(h) \in Hosts /\ Other(h) # h
  BY DEF TypeOK, Hosts, Other
<1>2. Rest(h)[h] = Tail(net[h]) /\ Rest(h)[Other(h)] = net[Other(h)]
  BY <1>1 DEF Rest
<1>3. net[h] \in Seq(Segment)
  BY <1>1
<1> QED
  BY <1>2, <1>3, HeadTaken

\* ... and what it sends.
LEMMA SendsOne ==
  ASSUME NEW n \in [Hosts -> Seq(Segment)], NEW h \in Hosts, NEW g \in Segment, g.conn = "k", NEW kind
  PROVE  /\ Emit(n, h, g)[h] = n[h]
         /\ Len(Emit(n, h, g)[Other(h)]) = Len(n[Other(h)]) + 1
         /\ Has(Emit(n, h, g)[Other(h)], kind) <=> Has(n[Other(h)], kind) \/ g \in kind
         /\ AtMostOne(n[Other(h)], kind) /\ (g \notin kind \/ ~ Has(n[Other(h)], kind))
              => AtMostOne(Emit(n, h, g)[Other(h)], kind)
<1>1. Other(h) \in Hosts /\ Other(h) # h
  BY DEF Hosts, Other
<1>2. Emit(n, h, g)[Other(h)] = Append(n[Other(h)], g) /\ Emit(n, h, g)[h] = n[h]
  BY <1>1 DEF Emit
<1>3. n[Other(h)] \in Seq(Segment)
  BY <1>1
<1> QED
  BY <1>2, <1>3, PutLast

-----------------------------------------------------------------------------
(* Steps of each kind.                                                      *)

\* A state as the counts see it.
Phase(s) == <<sk[s].state = "none", sk[s].state \in Opened>>
NeededK == Needed(sk["K"].state, rx["client"].pc)
NeededC == Needed(sk["C"].state, rx["server"].pc)
SentFins == <<FinSent("client"), FinSent("server")>>

\* Queues have lengths.
LEMMA Lengths ==
  ASSUME TypeOK
  PROVE  Len(net["client"]) \in Nat /\ Len(net["server"]) \in Nat
<1>1. net \in [Hosts -> Seq(Segment)] /\ "client" \in Hosts /\ "server" \in Hosts
  BY DEF TypeOK, Hosts
<1>2. net["client"] \in Seq(Segment) /\ net["server"] \in Seq(Segment)
  BY <1>1
<1> QED
  BY <1>2

\* A step that sends and takes nothing, and after which no more packets need
\* have been taken.
LEMMA Inv2Same ==
  ASSUME TypeOK, TypeOK', Inv2, UNCHANGED <<env, left, net>>,
         Phase("K")' = Phase("K"), Phase("C")' = Phase("C"), sk'["X"].state = sk["X"].state,
         NeededK' <= NeededK, NeededC' <= NeededC, SentFins' = SentFins,
         env.dups = 0 => \A h \in Hosts : app'[h] = "send_fin" => closeTo'[h] # "none"
  PROVE  Inv2'
<1> SUFFICES ASSUME env.dups = 0 PROVE Numbered'
  BY DEF Inv2
<1>1. Numbered
  BY DEF Inv2
<1>2. /\ FinSent("client")' = FinSent("client") /\ FinSent("server")' = FinSent("server")
      /\ sk'["K"].state = "none" <=> sk["K"].state = "none"
      /\ sk'["C"].state = "none" <=> sk["C"].state = "none"
      /\ sk'["K"].state \in Opened <=> sk["K"].state \in Opened
      /\ sk'["C"].state \in Opened <=> sk["C"].state \in Opened
  BY DEF Phase, SentFins
<1>3. net' = net /\ left' = left
  OBVIOUS
<1>4. FinOnce("client")' /\ FinOnce("server")'
  BY <1>1, <1>2, <1>3 DEF Numbered, FinOnce, Hosts, Other
<1>5. Stranger'
  BY <1>1, <1>3 DEF Numbered, Stranger
<1>6. Unknown'
  BY <1>1, <1>2, <1>3 DEF Numbered, Unknown
<1>7. NeededK \in Int /\ NeededK' \in Int /\ NeededC \in Int /\ NeededC' \in Int
  BY DEF NeededK, NeededC, Needed
<1>8. /\ UsedK = One(sk["K"].state \in Opened) + NeededK
      /\ UsedC = One(sk["C"].state # "none") + One(sk["C"].state \in Opened) + NeededC
  BY DEF UsedK, UsedC, NeededK, NeededC
<1>9. /\ UsedK' = One(sk["K"].state \in Opened) + NeededK'
      /\ UsedC' = One(sk["C"].state # "none") + One(sk["C"].state \in Opened) + NeededC'
  BY <1>2 DEF UsedK, UsedC, NeededK, NeededC, One
<1>10. SentToK' = SentToK /\ SentToC' = SentToC
  BY <1>2, <1>3 DEF SentToK, SentToC, One
<1>11. Len(net["client"]) \in Int /\ Len(net["server"]) \in Int
  BY Lengths
<1>12. SentToK \in Int /\ SentToC \in Int
  BY DEF SentToK, SentToC, One
<1>13. /\ One(sk["K"].state \in Opened) \in Int /\ One(sk["C"].state # "none") \in Int
       /\ One(sk["C"].state \in Opened) \in Int /\ One(Has(net["server"], Strangers)) \in Int
  BY DEF One
<1>14. UsedK' <= UsedK /\ UsedC' <= UsedC /\ UsedK \in Int /\ UsedC \in Int /\ UsedK' \in Int /\ UsedC' \in Int
  <2> HIDE DEF NeededK, NeededC
  <2> QED
    BY <1>7, <1>8, <1>9, <1>13
<1>15. Counts'
  BY <1>1, <1>3, <1>10, <1>11, <1>12, <1>13, <1>14 DEF Numbered, Counts
<1> QED
  BY <1>1, <1>3, <1>4, <1>5, <1>6, <1>15 DEF Numbered

\* How many packets have been sent on account of the handshake.
MadeK == One(sk["C"].state # "none")
MadeC == One(sk["K"].state # "none") + One(sk["K"].state \in Opened)

\* The packet thread of h takes a packet and sends nothing, or answers with one that
\* counts: the answer to a FIN, or to a packet of the handshake.
Answered(h) == \E g \in Segment :
  /\ g.conn = "k" /\ "FIN" \notin g.flags /\ net' = Emit(Rest(h), h, g)
  /\ \/ Head(net[h]) \in Fins
     \/ h = "client" /\ MadeC' >= MadeC + 1
     \/ h = "server" /\ MadeK' >= MadeK + 1
Silent(h) == net' = Rest(h)

\* What the handler may make of the socks.
Progress(h) ==
  /\ (sk'["K"].state = "none") = (sk["K"].state = "none")
  /\ sk["C"].state # "none" => sk'["C"].state # "none"
  /\ sk'["C"].state # "none" => sk["C"].state # "none" \/ (h = "server" /\ Head(net[h]) \notin Strangers)
  /\ \A s \in {"K", "C"} : sk[s].state \in Opened => sk'[s].state \in Opened
  /\ \/ sk'["X"].state = sk["X"].state
     \/ h = "server" /\ sk'["X"].state = "SYN_RECV" /\ Head(net[h]) \in Strangers
  /\ UsedK' <= UsedK + One(h = "client")
  /\ UsedC' <= UsedC + One(h = "server" /\ Head(net[h]) \notin Strangers)

\* Such a step changes the queues of packets as follows.
LEMMA TakenAndAnswered ==
  ASSUME TypeOK, NEW h \in Hosts, net[h] # <<>>, Silent(h) \/ Answered(h),
         FinOnce("client"), FinOnce("server"), AtMostOne(net["server"], Strangers)
  PROVE  /\ Len(net'[h]) = Len(net[h]) - 1
         /\ Len(net'[Other(h)]) = Len(net[Other(h)]) + One(Answered(h))
         /\ \A o \in Hosts : /\ AtMostOne(net'[o], Fins)
                             /\ Has(net'[o], Fins) => Has(net[o], Fins)
         /\ Has(net[Other(h)], Fins) => Has(net'[Other(h)], Fins)
         /\ Head(net[h]) \in Fins => Has(net[h], Fins) /\ ~ Has(net'[h], Fins)
         /\ Head(net[h]) \notin Fins => (Has(net'[h], Fins) <=> Has(net[h], Fins))
         /\ h = "server" => /\ AtMostOne(net'["server"], Strangers)
                            /\ Has(net'["server"], Strangers) => Has(net["server"], Strangers)
                            /\ Head(net["server"]) \in Strangers =>
                                 Has(net["server"], Strangers) /\ ~ Has(net'["server"], Strangers)
                            /\ Head(net["server"]) \notin Strangers =>
                                 (Has(net'["server"], Strangers) <=> Has(net["server"], Strangers))
         /\ h = "client" => /\ AtMostOne(net'["server"], Strangers)
                            /\ Has(net'["server"], Strangers) <=> Has(net["server"], Strangers)
<1> DEFINE m == Rest(h)
<1>1. /\ h \in Hosts /\ Other(h) \in Hosts /\ Other(h) # h
      /\ \A o \in Hosts : o = h \/ o = Other(h)
      /\ h = "server" => Other(h) = "client"
      /\ h = "client" => Other(h) = "server"
  BY DEF Hosts, Other
<1>2. /\ AtMostOne(net[h], Fins) /\ AtMostOne(net[Other(h)], Fins)
  BY <1>1 DEF FinOnce, Hosts
<1>3. /\ m[Other(h)] = net[Other(h)] /\ Len(m[h]) = Len(net[h]) - 1
      /\ AtMostOne(m[h], Fins)
      /\ Has(m[h], Fins) => Has(net[h], Fins)
      /\ Head(net[h]) \in Fins => Has(net[h], Fins) /\ ~ Has(m[h], Fins)
      /\ Head(net[h]) \notin Fins => (Has(m[h], Fins) <=> Has(net[h], Fins))
  BY <1>2, TakesOne
<1>4. h = "server" => /\ AtMostOne(m[h], Strangers)
                      /\ Has(m[h], Strangers) => Has(net[h], Strangers)
                      /\ Head(net[h]) \in Strangers =>
                           Has(net[h], Strangers) /\ ~ Has(m[h], Strangers)
                      /\ Head(net[h]) \notin Strangers =>
                           (Has(m[h], Strangers) <=> Has(net[h], Strangers))
  BY TakesOne
<1>5. m \in [Hosts -> Seq(Segment)]
  BY Taken
<1>6. \/ net' = m /\ ~ Answered(h)
      \/ \E g \in Segment : g.conn = "k" /\ "FIN" \notin g.flags /\ net' = Emit(m, h, g) /\ Answered(h)
  <2>1. CASE Answered(h)
    BY <2>1 DEF Answered
  <2>2. CASE ~ Answered(h)
    BY <2>2 DEF Silent
  <2> QED
    BY <2>1, <2>2
<1> HIDE DEF m
<1>7. CASE net' = m /\ ~ Answered(h)
  <2>1. Len(net'[Other(h)]) = Len(net[Other(h)]) + One(Answered(h))
    <3>1. net \in [Hosts -> Seq(Segment)]
      BY DEF TypeOK
    <3>2. Len(net[Other(h)]) \in Nat
      BY <1>1, <3>1
    <3> QED
      BY <1>3, <1>7, <3>2 DEF One
  <2>2. \A o \in Hosts : /\ AtMostOne(net'[o], Fins)
                         /\ Has(net'[o], Fins) => Has(net[o], Fins)
    BY <1>1, <1>2, <1>3, <1>7
  <2> QED
    BY <1>1, <1>3, <1>4, <1>7, <2>1, <2>2
<1>8. ASSUME NEW g \in Segment, g.conn = "k", "FIN" \notin g.flags, net' = Emit(m, h, g), Answered(h)
      PROVE  /\ Len(net'[Other(h)]) = Len(net[Other(h)]) + 1
             /\ net'[h] = m[h]
             /\ AtMostOne(net'[Other(h)], Fins)
             /\ Has(net'[Other(h)], Fins) <=> Has(net[Other(h)], Fins)
             /\ AtMostOne(net[Other(h)], Strangers) => AtMostOne(net'[Other(h)], Strangers)
             /\ Has(net'[Other(h)], Strangers) <=> Has(net[Other(h)], Strangers)
  <2>1. g \notin Fins /\ g \notin Strangers
    BY <1>8 DEF Fins, Strangers
  <2>2. /\ net'[h] = m[h] /\ Len(net'[Other(h)]) = Len(m[Other(h)]) + 1
        /\ Has(net'[Other(h)], Fins) <=> Has(m[Other(h)], Fins) \/ g \in Fins
        /\ AtMostOne(m[Other(h)], Fins) /\ (g \notin Fins \/ ~ Has(m[Other(h)], Fins))
             => AtMostOne(net'[Other(h)], Fins)
    BY <1>5, <1>8, SendsOne
  <2>3. /\ Has(net'[Other(h)], Strangers) <=> Has(m[Other(h)], Strangers) \/ g \in Strangers
        /\ AtMostOne(m[Other(h)], Strangers) /\ (g \notin Strangers \/ ~ Has(m[Other(h)], Strangers))
             => AtMostOne(net'[Other(h)], Strangers)
    BY <1>5, <1>8, SendsOne
  <2> QED
    BY <1>2, <1>3, <2>1, <2>2, <2>3
<1>9. CASE ~ (net' = m /\ ~ Answered(h))
  <2>1. PICK g \in Segment : g.conn = "k" /\ "FIN" \notin g.flags /\ net' = Emit(m, h, g) /\ Answered(h)
    BY <1>6, <1>9
  <2>2. /\ Len(net'[Other(h)]) = Len(net[Other(h)]) + 1
        /\ net'[h] = m[h]
        /\ AtMostOne(net'[Other(h)], Fins)
        /\ Has(net'[Other(h)], Fins) <=> Has(net[Other(h)], Fins)
        /\ AtMostOne(net[Other(h)], Strangers) => AtMostOne(net'[Other(h)], Strangers)
        /\ Has(net'[Other(h)], Strangers) <=> Has(net[Other(h)], Strangers)
    BY <1>8, <2>1
  <2>3. Len(net'[Other(h)]) = Len(net[Other(h)]) + One(Answered(h))
    BY <2>1, <2>2 DEF One
  <2>4. \A o \in Hosts : /\ AtMostOne(net'[o], Fins)
                         /\ Has(net'[o], Fins) => Has(net[o], Fins)
    BY <1>1, <1>3, <2>2
  <2> QED
    BY <1>1, <1>3, <1>4, <2>2, <2>3, <2>4
<1> QED
  BY <1>7, <1>9

\* A step of the packet thread of h keeps the counts.
LEMMA HandlerCounts ==
  ASSUME Inv1, Inv2, NEW h \in Hosts, net[h] # <<>>, Silent(h) \/ Answered(h),
         UNCHANGED <<env, left, app, closeTo>>, Progress(h)
  PROVE  Inv2'
<1> SUFFICES ASSUME env.dups = 0 PROVE Numbered'
  BY DEF Inv2
<1>1. Numbered /\ TypeOK
  BY DEF Inv2, Inv1
<1>2. FinOnce("client") /\ FinOnce("server") /\ AtMostOne(net["server"], Strangers)
  BY <1>1 DEF Numbered, Stranger
<1>3. \A o \in Hosts : /\ AtMostOne(net'[o], Fins)
                       /\ Has(net'[o], Fins) => Has(net[o], Fins)
  BY <1>1, <1>2, TakenAndAnswered
<1>4. /\ AtMostOne(net'["server"], Strangers)
      /\ Has(net'["server"], Strangers) => Has(net["server"], Strangers)
      /\ h = "server" /\ Head(net["server"]) \in Strangers =>
           Has(net["server"], Strangers) /\ ~ Has(net'["server"], Strangers)
  BY <1>1, <1>2, TakenAndAnswered DEF Hosts
<1>5. FinSent("client")' = FinSent("client") /\ FinSent("server")' = FinSent("server")
  BY DEF FinSent
<1>6. FinOnce("client")' /\ FinOnce("server")'
  BY <1>2, <1>3, <1>5 DEF FinOnce, Hosts, Other
<1>7. Stranger'
  BY <1>1, <1>4 DEF Numbered, Stranger, Progress
<1>8. Unknown'
  <2> SUFFICES ASSUME sk'["K"].state = "none"
               PROVE  /\ sk'["C"].state = "none" /\ net'["client"] = <<>>
                      /\ \A i \in DOMAIN net'["server"] : net'["server"][i] \in Strangers
    BY DEF Unknown
  <2>1. /\ sk["C"].state = "none" /\ net["client"] = <<>>
        /\ \A i \in DOMAIN net["server"] : net["server"][i] \in Strangers
    BY <1>1 DEF Numbered, Unknown, Progress
  <2>2. h = "server"
    BY <2>1 DEF Hosts
  <2>3. 1 \in DOMAIN net["server"] /\ Head(net["server"]) = net["server"][1]
    BY <1>1, <2>2, Taken
  <2>4. Head(net["server"]) \in Strangers
    BY <2>1, <2>3
  <2>5. sk'["C"].state = "none"
    BY <2>1, <2>2, <2>4 DEF Progress
  <2>6. app["client"] # "done"
    BY DEF Inv1, Accepting, Progress
  <2>7. Head(net["server"]) \notin Fins
    <3>1. ~ FinSent("client")
      BY <2>6 DEF FinSent
    <3>2. ~ Has(net["server"], Fins)
      BY <1>2, <3>1 DEF FinOnce, Other
    <3> QED
      BY <2>3, <3>2 DEF Has
  <2>8. ~ Answered(h)
    <3>1. MadeK' = MadeK /\ MadeK \in Int
      BY <2>1, <2>5 DEF MadeK, One
    <3>2. ~ (MadeK' >= MadeK + 1)
      BY <3>1
    <3> QED
      BY <2>2, <2>7, <3>2 DEF Answered
  <2>9. net' = Rest("server")
    BY <2>2, <2>8 DEF Silent
  <2>10. /\ Rest("server")["client"] = net["client"]
         /\ \A i \in DOMAIN Rest("server")["server"] :
              \E j \in DOMAIN net["server"] : Rest("server")["server"][i] = net["server"][j]
    <3>1. Rest("server")["client"] = net["client"]
      BY <1>1, <2>2, TakesOne DEF Other
    <3>2. \A i \in DOMAIN Rest("server")["server"] :
              \E j \in DOMAIN net["server"] : Rest("server")["server"][i] = net["server"][j]
      BY <1>1, <2>2, Taken
    <3> QED
      BY <3>1, <3>2
  <2> QED
    BY <2>1, <2>5, <2>9, <2>10
<1>9. /\ Len(net["client"]) \in Nat /\ Len(net["server"]) \in Nat
      /\ UsedK \in Int /\ UsedC \in Int /\ UsedK' \in Int /\ UsedC' \in Int
      /\ SentToK \in Int /\ SentToC \in Int /\ SentToK' \in Int /\ SentToC' \in Int
  <2>1. Len(net["client"]) \in Nat /\ Len(net["server"]) \in Nat
    BY <1>1, Lengths
  <2>2. UsedK \in Int /\ UsedC \in Int /\ UsedK' \in Int /\ UsedC' \in Int
    BY DEF UsedK, UsedC, Needed, One
  <2>3. SentToK \in Int /\ SentToC \in Int /\ SentToK' \in Int /\ SentToC' \in Int
    BY DEF SentToK, SentToC, One
  <2> QED
    BY <2>1, <2>2, <2>3
<1>10. One(sk["C"].state # "none") <= One(sk'["C"].state # "none")
  BY DEF Progress, One
<1>11. One(sk["K"].state # "none") + One(sk["K"].state \in Opened)
         <= One(sk'["K"].state # "none") + One(sk'["K"].state \in Opened)
  BY DEF Progress, One
<1>12. CASE h = "client"
  <2>1. /\ Len(net'["client"]) = Len(net["client"]) - 1
        /\ Len(net'["server"]) = Len(net["server"]) + One(Answered("client"))
        /\ Has(net["server"], Fins) <=> Has(net'["server"], Fins)
        /\ Has(net["server"], Strangers) <=> Has(net'["server"], Strangers)
        /\ Head(net["client"]) \in Fins => Has(net["client"], Fins) /\ ~ Has(net'["client"], Fins)
        /\ Has(net'["client"], Fins) => Has(net["client"], Fins)
    BY <1>1, <1>2, <1>3, <1>12, TakenAndAnswered DEF Hosts, Other
  <2>2. UsedK' <= UsedK + 1 /\ UsedC' <= UsedC
    BY <1>9, <1>12 DEF Progress, One
  <2>3. SentToK' >= SentToK
    BY <1>5, <1>10, <2>1 DEF SentToK, One
  <2>4. SentToC' >= SentToC + One(Answered("client"))
    <3>1. CASE Answered("client") /\ Head(net["client"]) \in Fins
      <4>1. FinSent("server")
        BY <1>2, <2>1, <3>1 DEF FinOnce, Other
      <4> QED
        BY <1>5, <1>11, <2>1, <3>1, <4>1 DEF SentToC, One
    <3>2. CASE Answered("client") /\ MadeC' >= MadeC + 1
      BY <1>5, <2>1, <3>2 DEF SentToC, MadeC, One
    <3>3. CASE ~ Answered("client")
      BY <1>5, <1>11, <2>1, <3>3 DEF SentToC, One
    <3> QED
      BY <3>1, <3>2, <3>3 DEF Answered
  <2>5. One(Has(net'["server"], Strangers)) = One(Has(net["server"], Strangers))
         /\ One(Has(net["server"], Strangers)) \in Int /\ One(Answered("client")) \in Int
    BY <2>1 DEF One
  <2>6. /\ Len(net["client"]) + UsedK <= SentToK
        /\ Len(net["server"]) + UsedC <= SentToC + One(Has(net["server"], Strangers))
    BY <1>1 DEF Numbered, Counts
  <2>7. Len(net'["client"]) + UsedK' <= SentToK'
    BY <1>9, <2>1, <2>2, <2>3, <2>6
  <2>8. Len(net'["server"]) + UsedC' <= SentToC' + One(Has(net'["server"], Strangers))
    BY <1>9, <2>1, <2>2, <2>4, <2>5, <2>6
  <2>9. Counts'
    BY <2>7, <2>8 DEF Counts
  <2> QED
    BY <1>1, <1>6, <1>7, <1>8, <2>9 DEF Numbered
<1>13. CASE h = "server"
  <2>1. /\ Len(net'["server"]) = Len(net["server"]) - 1
        /\ Len(net'["client"]) = Len(net["client"]) + One(Answered("server"))
        /\ Has(net["client"], Fins) <=> Has(net'["client"], Fins)
        /\ Head(net["server"]) \in Fins => Has(net["server"], Fins) /\ ~ Has(net'["server"], Fins)
        /\ Has(net'["server"], Fins) => Has(net["server"], Fins)
        /\ Head(net["server"]) \notin Strangers =>
               (Has(net'["server"], Strangers) <=> Has(net["server"], Strangers))
    BY <1>1, <1>2, <1>3, <1>13, TakenAndAnswered DEF Hosts, Other
  <2>2. PICK u \in {0, 1} : /\ UsedC' <= UsedC + u /\ UsedK' <= UsedK
                            /\ IF Head(net["server"]) \in Strangers THEN u = 0 ELSE u = 1
    <3>1. UsedC' <= UsedC + (IF Head(net["server"]) \notin Strangers THEN 1 ELSE 0) /\ UsedK' <= UsedK
      BY <1>9, <1>13 DEF Progress, One
    <3> QED
      BY <3>1
  <2>3. SentToC' >= SentToC
    BY <1>5, <1>11, <2>1 DEF SentToC, One
  <2>4. PICK a \in {0, 1} : SentToK' >= SentToK + a /\ Len(net'["client"]) = Len(net["client"]) + a
    <3>1. CASE Answered("server") /\ Head(net["server"]) \in Fins
      <4>1. FinSent("client")
        BY <1>2, <2>1, <3>1 DEF FinOnce, Other
      <4> QED
        BY <1>5, <1>10, <2>1, <3>1, <4>1 DEF SentToK, One
    <3>2. CASE Answered("server") /\ MadeK' >= MadeK + 1
      BY <1>5, <2>1, <3>2 DEF SentToK, MadeK, One
    <3>3. CASE ~ Answered("server")
      BY <1>5, <1>10, <2>1, <3>3 DEF SentToK, One
    <3> QED
      BY <3>1, <3>2, <3>3 DEF Answered
  <2>5. PICK x \in {0, 1} : IF Has(net["server"], Strangers) THEN x = 1 ELSE x = 0
    <3>1. CASE Has(net["server"], Strangers)
      BY <3>1
    <3>2. CASE ~ Has(net["server"], Strangers)
      BY <3>2
    <3> QED
      BY <3>1, <3>2
  <2>6. PICK y \in {0, 1} : IF Has(net'["server"], Strangers) THEN y = 1 ELSE y = 0
    <3>1. CASE Has(net'["server"], Strangers)
      BY <3>1
    <3>2. CASE ~ Has(net'["server"], Strangers)
      BY <3>2
    <3> QED
      BY <3>1, <3>2
  <2>7. y + 1 >= x + u
    BY <1>4, <1>13, <2>1, <2>2, <2>5, <2>6
  <2>8. /\ Len(net["client"]) + UsedK <= SentToK
        /\ Len(net["server"]) + UsedC <= SentToC + x
    BY <1>1, <2>5 DEF Numbered, Counts, One
  <2>9. Len(net'["client"]) + UsedK' <= SentToK'
    BY <1>9, <2>2, <2>4, <2>8
  <2>10. Len(net'["server"]) + UsedC' <= SentToC' + y
    BY <1>9, <2>1, <2>2, <2>3, <2>5, <2>6, <2>7, <2>8
  <2>11. Counts'
    BY <2>6, <2>9, <2>10 DEF Counts, One
  <2> QED
    BY <1>1, <1>6, <1>7, <1>8, <2>11 DEF Numbered
<1> QED
  BY <1>12, <1>13 DEF Hosts

-----------------------------------------------------------------------------
(* The application threads and the packets.                                 *)

\* The steps of connect and accept, and the first step of close.
LEMMA AppCounts ==
  ASSUME TypeOK, TypeOK', Inv2, NEW h \in Hosts, NEW p, Goto(h, p),
         app[h] # "done", p # "send_fin", p = "done" => closeTo'[h] = "none",
         UNCHANGED <<env, left, net, rx>>, closeTo'[Other(h)] = closeTo[Other(h)],
         \A s \in Socks \ {"L"} : sk'[s].state = sk[s].state
  PROVE  Inv2'
<1>1. /\ app' = [app EXCEPT ![h] = p] /\ app \in [Hosts -> {"start", "sleep_on", "blocked", "accept", "dequeue",
                        "uncount_load", "uncount_store", "sleep", "set_state", "send_fin", "done"}]
  BY DEF Goto, TypeOK
<1>2. app'[h] = p /\ app'[Other(h)] = app[Other(h)]
  BY <1>1, TwoHosts
<1>3. /\ Other(h) \in Hosts /\ Other(h) # h /\ \A o \in Hosts : o = h \/ o = Other(h)
  BY TwoHosts
<1>4. \A o \in Hosts : FinSent(o)' = FinSent(o)
  <2>1. FinSent(h)' = FALSE /\ FinSent(h) = FALSE
    BY <1>2 DEF FinSent
  <2>2. FinSent(Other(h))' = FinSent(Other(h))
    BY <1>2 DEF FinSent
  <2> QED
    BY <1>3, <2>1, <2>2
<1>5. SentFins' = SentFins
  BY <1>4 DEF SentFins, Hosts
<1>6. /\ sk'["K"].state = sk["K"].state /\ sk'["C"].state = sk["C"].state
      /\ sk'["X"].state = sk["X"].state
  BY DEF Socks
<1>7. Phase("K")' = Phase("K") /\ Phase("C")' = Phase("C")
  BY <1>6 DEF Phase
<1>8. NeededK' <= NeededK /\ NeededC' <= NeededC
  BY <1>6 DEF NeededK, NeededC, Needed
<1>9. ASSUME env.dups = 0, NEW o \in Hosts, app'[o] = "send_fin" PROVE closeTo'[o] # "none"
  <2>1. o = Other(h)
    BY <1>2, <1>3, <1>9
  <2>2. app[o] = "send_fin" => closeTo[o] # "none"
    BY <1>9 DEF Inv2, Numbered, FinOnce, Hosts
  <2> QED
    BY <1>2, <1>9, <2>1, <2>2
<1> QED
  BY <1>5, <1>6, <1>7, <1>8, <1>9, Inv2Same

\* The steps of AppCounts.
LEMMA SleepsAndWakes ==
  ASSUME Inv1, TypeOK', Inv2,
         \/ ConnectSleep \/ ConnectWake \/ Listen
         \/ AcceptTest \/ AcceptSleep \/ AcceptWake \/ AcceptDequeue \/ AcceptUncount
  PROVE  Inv2'
<1>1. TypeOK /\ "client" \in Hosts /\ "server" \in Hosts
  BY DEF Inv1, Hosts
<1>2. CASE ConnectSleep
  <2>1. PICK p \in {"blocked", "sleep"} : Goto("client", p)
    BY <1>2 DEF ConnectSleep
  <2>2. /\ app["client"] # "done" /\ UNCHANGED <<env, left, net, rx>> /\ closeTo' = closeTo
        /\ \A s \in Socks \ {"L"} : sk'[s].state = sk[s].state
    BY <1>2 DEF ConnectSleep
  <2>3. p # "send_fin" /\ (p = "done" => closeTo'["client"] = "none")
    OBVIOUS
  <2> QED
    BY <1>1, <2>1, <2>2, <2>3, AppCounts
<1>3. CASE ConnectWake
  BY <1>1, <1>3, AppCounts DEF ConnectWake
<1>4. CASE Listen
  <2>1. \A s \in Socks \ {"L"} : sk'[s].state = sk[s].state
    BY <1>1, <1>4 DEF Listen, TypeOK
  <2>2. app["server"] # "done" /\ Goto("server", "accept") /\ UNCHANGED <<env, left, net, rx>> /\ closeTo' = closeTo
    BY <1>4 DEF Listen
  <2> QED
    BY <1>1, <2>1, <2>2, AppCounts
<1>5. CASE AcceptTest
  <2>1. PICK p \in {"sleep_on", "dequeue"} : Goto("server", p)
    BY <1>5 DEF AcceptTest
  <2>2. /\ app["server"] # "done" /\ UNCHANGED <<env, left, net, rx>> /\ closeTo' = closeTo
        /\ \A s \in Socks \ {"L"} : sk'[s].state = sk[s].state
    BY <1>5 DEF AcceptTest
  <2> QED
    BY <1>1, <2>1, <2>2, AppCounts
<1>6. CASE AcceptSleep
  <2>1. PICK p \in {"blocked", "dequeue"} : Goto("server", p)
    BY <1>6 DEF AcceptSleep
  <2>2. /\ app["server"] # "done" /\ UNCHANGED <<env, left, net, rx>> /\ closeTo' = closeTo
        /\ \A s \in Socks \ {"L"} : sk'[s].state = sk[s].state
    BY <1>6 DEF AcceptSleep
  <2> QED
    BY <1>1, <2>1, <2>2, AppCounts
<1>7. CASE AcceptWake
  BY <1>1, <1>7, AppCounts DEF AcceptWake
<1>8. CASE AcceptDequeue
  BY <1>1, <1>8, AppCounts DEF AcceptDequeue
<1>9. CASE AcceptUncount
  <2>1. PICK p \in {"uncount_store", "sleep"} : Goto("server", p)
    BY <1>9 DEF AcceptUncount
  <2>2. /\ app["server"] # "done" /\ UNCHANGED <<env, left, net, rx>> /\ closeTo' = closeTo
        /\ \A s \in Socks \ {"L"} : sk'[s].state = sk[s].state
    BY <1>9 DEF AcceptUncount
  <2> QED
    BY <1>1, <2>1, <2>2, AppCounts
<1> QED
  BY <1>2, <1>3, <1>4, <1>5, <1>6, <1>7, <1>8, <1>9

\* tcp_sock_close reads the state.
LEMMA CloseSwitchCounts ==
  ASSUME Inv1, TypeOK', Inv2, NEW h \in Hosts, CloseSwitch(h)
  PROVE  Inv2'
<1>1. TypeOK
  BY DEF Inv1
<1>2. /\ app[h] = "sleep" /\ UNCHANGED <<env, left, net, rx, sk>>
      /\ closeTo' = [closeTo EXCEPT ![h] = CloseBranch(sk[MySock(h)].state)]
  BY DEF CloseSwitch
<1>3. PICK p \in {"done", "set_state"} :
        Goto(h, p) /\ (p = "done" => CloseBranch(sk[MySock(h)].state) = "none")
  BY DEF CloseSwitch
<1>4. closeTo'[Other(h)] = closeTo[Other(h)] /\ (p = "done" => closeTo'[h] = "none")
  <2>1. closeTo \in [Hosts -> {"none", "FIN_WAIT_1", "LAST_ACK"}] /\ Other(h) # h /\ Other(h) \in Hosts
    BY <1>1, TwoHosts DEF TypeOK
  <2>2. closeTo'[Other(h)] = closeTo[Other(h)]
    BY <1>2, <2>1
  <2>3. closeTo'[h] = CloseBranch(sk[MySock(h)].state)
    BY <1>2, <2>1
  <2> QED
    BY <1>3, <2>2, <2>3
<1> QED
  BY <1>1, <1>2, <1>3, <1>4, AppCounts

\* ... and writes the new one.
LEMMA CloseSetStateCounts ==
  ASSUME Inv1, TypeOK', Inv2, NEW h \in Hosts, CloseSetState(h)
  PROVE  Inv2'
<1>0. PICK s \in Socks : s = MySock(h)
  BY Mine DEF CloseSetState
<1>1. /\ app[h] = "set_state" /\ app' = [app EXCEPT ![h] = "send_fin"]
      /\ sk' = [sk EXCEPT ![s].state = closeTo[h]]
      /\ UNCHANGED <<env, left, closeTo, rx, net>>
  BY <1>0 DEF CloseSetState, Goto
<1>2. TypeOK /\ Closing(h)
  BY DEF Inv1
<1>3. \/ closeTo[h] = "FIN_WAIT_1" /\ sk[s].state \in {"ESTABLISHED", "CLOSE_WAIT"}
      \/ closeTo[h] = "LAST_ACK" /\ sk[s].state = "CLOSE_WAIT"
  BY <1>0, <1>1, <1>2 DEF Closing
<1>4. sk'[s].state = closeTo[h] /\ \A x \in Socks \ {s} : sk'[x] = sk[x]
  <2>1. sk \in [Socks -> Sock] /\ sk[s] \in Sock
    BY <1>2 DEF TypeOK
  <2>2. sk'[s] = [sk[s] EXCEPT !.state = closeTo[h]]
    BY <1>1, <2>1
  <2>3. \A x \in Socks \ {s} : sk'[x] = sk[x]
    BY <1>1, <2>1
  <2> QED
    BY <2>1, <2>2, <2>3 DEF Sock
<1>5. /\ Other(h) \in Hosts /\ Other(h) # h /\ \A o \in Hosts : o = h \/ o = Other(h)
  BY TwoHosts
<1>6. app'[h] = "send_fin" /\ app'[Other(h)] = app[Other(h)]
  BY <1>1, <1>2, <1>5 DEF TypeOK
<1>7. SentFins' = SentFins
  BY <1>1, <1>5, <1>6 DEF SentFins, FinSent, Hosts
<1>8. sk[s].state \in Opened /\ sk'[s].state \in Opened
  BY <1>3, <1>4 DEF Opened, States
<1>9. Phase("K")' = Phase("K") /\ Phase("C")' = Phase("C")
  BY <1>4, <1>8 DEF Phase, Opened, Socks
<1>10. CASE env.dups # 0
  BY <1>1, <1>10 DEF Inv2
<1>11. CASE env.dups = 0
  <2>1. Stranger /\ FinOnce("client") /\ FinOnce("server")
    BY <1>11 DEF Inv2, Numbered
  <2>2. sk'["X"].state = sk["X"].state
    BY <1>4, <1>8, <2>1 DEF Stranger, Opened, Socks
  <2>3. NeededK' <= NeededK /\ NeededC' <= NeededC
    <3>1. \A pc : Needed(sk'[s].state, pc) <= Needed(sk[s].state, pc)
      BY <1>3, <1>4 DEF Needed
    <3>2. \A x \in Socks : \A pc : Needed(sk'[x].state, pc) <= Needed(sk[x].state, pc)
      BY <1>4, <3>1 DEF Needed
    <3> QED
      BY <1>1, <3>2, Zenon DEF NeededK, NeededC, Socks
  <2>4. \A o \in Hosts : app'[o] = "send_fin" => closeTo'[o] # "none"
    <3>1. \A o \in Hosts : app[o] = "send_fin" => closeTo[o] # "none"
      BY <2>1 DEF FinOnce, Hosts
    <3> QED
      BY <1>1, <1>3, <1>5, <1>6, <3>1
  <2> QED
    BY <1>1, <1>2, <1>7, <1>9, <2>2, <2>3, <2>4, Inv2Same
<1> QED
  BY <1>10, <1>11

-----------------------------------------------------------------------------
(* Packets sent by the applications and by the other peer.                  *)

\* connect sends the SYN, the first packet of the connection.
LEMMA ConnectCounts ==
  ASSUME ConnAssumption, Inv1, Inv2, Connect
  PROVE  Inv2'
<1> SUFFICES ASSUME env.dups = 0 PROVE Numbered'
  BY DEF Inv2, Connect
<1>1. TypeOK /\ Accepting /\ Numbered
  BY DEF Inv1, Inv2
<1>2. /\ app["client"] = "start" /\ sk["K"].state = "none" /\ UNCHANGED <<env, left, closeTo, rx>>
      /\ Goto("client", "sleep_on")
  BY <1>1 DEF Connect, Accepting
<1>3. /\ sk'["K"].state = "SYN_SENT" /\ sk'["C"] = sk["C"] /\ sk'["X"] = sk["X"]
  BY ConnectDoes DEF Looks, Socks
<1>4. PICK seg \in Segment : seg.conn = "k" /\ seg.flags = {"SYN"} /\ net' = Emit(net, "client", seg)
  BY ConnectDoes
<1>5. seg \notin Fins /\ seg \notin Strangers
  BY <1>4 DEF Fins, Strangers
<1>6. net \in [Hosts -> Seq(Segment)] /\ "client" \in Hosts /\ Other("client") = "server"
  BY <1>1 DEF TypeOK, Hosts, Other
<1>7. /\ net'["client"] = net["client"] /\ Len(net'["server"]) = Len(net["server"]) + 1
      /\ Has(net'["server"], Fins) <=> Has(net["server"], Fins)
      /\ AtMostOne(net["server"], Fins) => AtMostOne(net'["server"], Fins)
  <2>1. /\ Emit(net, "client", seg)["client"] = net["client"]
        /\ Len(Emit(net, "client", seg)[Other("client")]) = Len(net[Other("client")]) + 1
        /\ Has(Emit(net, "client", seg)[Other("client")], Fins) <=> Has(net[Other("client")], Fins) \/ seg \in Fins
        /\ AtMostOne(net[Other("client")], Fins) /\ (seg \notin Fins \/ ~ Has(net[Other("client")], Fins))
             => AtMostOne(Emit(net, "client", seg)[Other("client")], Fins)
    BY <1>4, <1>6, SendsOne, Zenon
  <2> QED
    BY <1>4, <1>5, <1>6, <2>1
<1>8. /\ Has(net'["server"], Strangers) <=> Has(net["server"], Strangers) \/ seg \in Strangers
      /\ AtMostOne(net["server"], Strangers) /\ (seg \notin Strangers \/ ~ Has(net["server"], Strangers))
           => AtMostOne(net'["server"], Strangers)
  BY <1>4, <1>6, SendsOne
<1>9. /\ app'["client"] = "sleep_on" /\ app'["server"] = app["server"]
  BY <1>1, <1>2 DEF Goto, TypeOK, Hosts
<1>10. /\ FinSent("client")' = FALSE /\ FinSent("client") = FALSE
       /\ FinSent("server")' = FinSent("server")
  BY <1>2, <1>9 DEF FinSent
<1>11. FinOnce("client")' /\ FinOnce("server")'
  BY <1>1, <1>2, <1>5, <1>7, <1>9, <1>10 DEF Numbered, FinOnce, Other
<1>12. Stranger'
  BY <1>1, <1>2, <1>3, <1>5, <1>8 DEF Numbered, Stranger
<1>13. Unknown'
  BY <1>3 DEF Unknown
<1>14. /\ SentToK' = SentToK
       /\ SentToC' = SentToC + 1 /\ SentToC \in Int
  BY <1>2, <1>3, <1>5, <1>7, <1>10 DEF SentToK, SentToC, One, Opened
<1>15. UsedK' = UsedK /\ UsedC' = UsedC /\ UsedK \in Int /\ UsedC \in Int
  BY <1>2, <1>3 DEF UsedK, UsedC, Needed, One, Opened
<1>16. Len(net["server"]) \in Nat /\ Len(net["client"]) \in Nat
  BY <1>1, Lengths
<1>17. PICK x \in {0, 1} : /\ One(Has(net'["server"], Strangers)) = x
                         /\ One(Has(net["server"], Strangers)) = x
  <2>1. CASE Has(net["server"], Strangers)
    BY <1>5, <1>8, <2>1 DEF One
  <2>2. CASE ~ Has(net["server"], Strangers)
    BY <1>5, <1>8, <2>2 DEF One
  <2> QED
    BY <2>1, <2>2
<1>18. Counts'
  <2>1. Len(net["client"]) + UsedK <= SentToK /\ Len(net["server"]) + UsedC <= SentToC + x
    BY <1>1, <1>17 DEF Numbered, Counts
  <2>2. Len(net'["client"]) + UsedK' <= SentToK'
    BY <1>7, <1>14, <1>15, <2>1
  <2>3. Len(net'["server"]) + UsedC' <= SentToC' + x
    BY <1>7, <1>14, <1>15, <1>16, <2>1
  <2> QED
    BY <1>17, <2>2, <2>3 DEF Counts
<1> QED
  BY <1>1, <1>2, <1>11, <1>12, <1>13, <1>18 DEF Numbered

\* The other peer's SYN is not of the connection.
LEMMA ForeignSynCounts ==
  ASSUME ConnAssumption, Inv1, Inv2, ForeignSyn
  PROVE  Inv2'
<1> SUFFICES ASSUME env.dups = 0 PROVE Numbered'
  BY DEF Inv2, ForeignSyn
<1> DEFINE seg == [conn |-> "x", flags |-> {"SYN"}, seq |-> 0, ack |-> 0]
<1>1. TypeOK /\ Numbered
  BY DEF Inv1, Inv2
<1>2. /\ left.foreign /\ left' = [left EXCEPT !.foreign = FALSE]
      /\ net' = [net EXCEPT !["server"] = Append(@, seg)]
      /\ UNCHANGED <<env, sk, app, closeTo, rx>>
  BY DEF ForeignSyn, appVars
<1>3. net \in [Hosts -> Seq(Segment)] /\ net["server"] \in Seq(Segment)
  BY <1>1 DEF TypeOK, Hosts
<1>4. net'["server"] = Append(net["server"], seg) /\ net'["client"] = net["client"]
  BY <1>2, <1>3 DEF Hosts
<1>5. seg \in Segment /\ seg \in Strangers /\ seg \notin Fins
  BY SeqNoRange DEF Segment, Strangers, Fins
<1> HIDE DEF seg
<1>6. ~ left'.foreign /\ left'.dups = left.dups
  BY <1>1, <1>2 DEF TypeOK
<1>7. ~ Has(net["server"], Strangers) /\ sk["X"].state = "none"
  BY <1>1, <1>2 DEF Numbered, Stranger
<1>8. /\ Len(net'["server"]) = Len(net["server"]) + 1
      /\ Has(net'["server"], Fins) <=> Has(net["server"], Fins) \/ seg \in Fins
      /\ AtMostOne(net["server"], Fins) /\ (seg \notin Fins \/ ~ Has(net["server"], Fins))
           => AtMostOne(net'["server"], Fins)
  BY <1>3, <1>4, <1>5, PutLast
<1>9. /\ Has(net'["server"], Strangers) <=> Has(net["server"], Strangers) \/ seg \in Strangers
      /\ AtMostOne(net["server"], Strangers) /\ (seg \notin Strangers \/ ~ Has(net["server"], Strangers))
           => AtMostOne(net'["server"], Strangers)
  BY <1>3, <1>4, <1>5, PutLast
<1>10. FinSent("client")' = FinSent("client") /\ FinSent("server")' = FinSent("server")
  BY <1>2 DEF FinSent
<1>11. FinOnce("client")' /\ FinOnce("server")'
  BY <1>1, <1>2, <1>4, <1>5, <1>8, <1>10 DEF Numbered, FinOnce, Other
<1>12. Stranger'
  BY <1>1, <1>2, <1>5, <1>6, <1>7, <1>9 DEF Numbered, Stranger
<1>13. Unknown'
  <2> SUFFICES ASSUME sk["K"].state = "none"
               PROVE  \A i \in DOMAIN net'["server"] : net'["server"][i] \in Strangers
    BY <1>1, <1>2, <1>4 DEF Numbered, Unknown
  <2>1. \A i \in DOMAIN net["server"] : net["server"][i] \in Strangers
    BY <1>1 DEF Numbered, Unknown
  <2> QED
    BY <1>3, <1>4, <1>5, <2>1
<1>14. SentToK' = SentToK /\ SentToC' = SentToC /\ SentToC \in Int
  BY <1>2, <1>4, <1>5, <1>8, <1>10 DEF SentToK, SentToC, One, Opened
<1>15. UsedK' = UsedK /\ UsedC' = UsedC /\ UsedK \in Int /\ UsedC \in Int
  BY <1>2 DEF UsedK, UsedC, Needed, One, Opened
<1>16. Len(net["server"]) \in Nat /\ Len(net["client"]) \in Nat
  BY <1>1, Lengths
<1>17. One(Has(net'["server"], Strangers)) = 1 /\ One(Has(net["server"], Strangers)) = 0
  BY <1>5, <1>7, <1>9 DEF One
<1>18. Counts'
  BY <1>1, <1>4, <1>8, <1>14, <1>15, <1>16, <1>17 DEF Numbered, Counts
<1> QED
  BY <1>1, <1>6, <1>11, <1>12, <1>13, <1>18 DEF Numbered

\* The sock of a server that closes is C, for X is never established.
LEMMA Closer ==
  ASSUME Inv1, Inv2, env.dups = 0, NEW h \in Hosts, app[h] \in {"set_state", "send_fin"}
  PROVE  MySock(h) = IF h = "client" THEN "K" ELSE "C"
<1>1. /\ MySock(h) \in Socks \ {"L"} /\ Host(MySock(h)) = h
      /\ h = "server" => sk[MySock(h)].state \in Opened
  BY Mine
<1>2. h = "server" => MySock(h) # "X"
  BY <1>1 DEF Inv2, Numbered, Stranger, Opened
<1> QED
  BY <1>1, <1>2 DEF Hosts, Socks, Host

\* close sends the FIN, once.
LEMMA CloseSendFinCounts ==
  ASSUME ConnAssumption, Inv1, Inv2, NEW h \in Hosts, CloseSendFin(h)
  PROVE  Inv2'
<1> SUFFICES ASSUME env.dups = 0 PROVE Numbered'
  BY DEF Inv2, CloseSendFin
<1>0. PICK s \in Socks : s = MySock(h)
  BY Mine DEF CloseSendFin
<1> DEFINE fin == {"FIN", "ACK"}
           seg == ControlPacket(s, sk[s], fin)
<1>1. TypeOK /\ Numbered
  BY DEF Inv1, Inv2
<1>2. /\ app[h] = "send_fin" /\ Goto(h, "done") /\ UNCHANGED <<env, left, closeTo, rx>>
      /\ sk' = [sk EXCEPT ![s] = AfterControl(sk[s], fin)] /\ net' = Emit(net, h, seg)
  BY <1>0 DEF CloseSendFin
<1>3. s = IF h = "client" THEN "K" ELSE "C"
  BY <1>0, <1>2, Closer
<1>4. sk \in [Socks -> Sock] /\ sk[s] \in Sock
  BY <1>1 DEF TypeOK
<1>5. \A x \in Socks : sk'[x].state = sk[x].state
  <2>1. AfterControl(sk[s], fin).state = sk[s].state
    BY <1>4 DEF AfterControl, Sock
  <2> QED
    BY <1>2, <1>4, <2>1
<1>6. seg \in Segment /\ seg.flags = fin /\ seg.conn = "k"
  <2>1. fin \in SUBSET Flags
    BY DEF Flags
  <2>2. seg \in Segment /\ seg.flags = fin
    BY <1>4, <2>1, Controls
  <2> QED
    BY <1>3, <2>2 DEF ControlPacket
<1> HIDE DEF seg
<1>7. seg \in Fins /\ seg \notin Strangers
  BY <1>6 DEF Fins, Strangers
<1>8. net \in [Hosts -> Seq(Segment)] /\ Other(h) \in Hosts /\ Other(h) # h
  BY <1>1, TwoHosts DEF TypeOK
<1>9. ~ FinSent(h) /\ ~ Has(net[Other(h)], Fins) /\ closeTo[h] # "none"
  BY <1>1, <1>2 DEF Numbered, FinOnce, FinSent, Hosts, Other
<1>10. /\ net'[h] = net[h] /\ Len(net'[Other(h)]) = Len(net[Other(h)]) + 1
       /\ Has(net'[Other(h)], Fins)
       /\ AtMostOne(net[Other(h)], Fins) => AtMostOne(net'[Other(h)], Fins)
  <2>1. /\ Emit(net, h, seg)[h] = net[h]
        /\ Len(Emit(net, h, seg)[Other(h)]) = Len(net[Other(h)]) + 1
        /\ Has(Emit(net, h, seg)[Other(h)], Fins) <=> Has(net[Other(h)], Fins) \/ seg \in Fins
        /\ AtMostOne(net[Other(h)], Fins) /\ (seg \notin Fins \/ ~ Has(net[Other(h)], Fins))
             => AtMostOne(Emit(net, h, seg)[Other(h)], Fins)
    BY <1>6, <1>8, SendsOne, Zenon
  <2> QED
    BY <1>2, <1>7, <1>9, <2>1
<1>11. /\ Has(net'["server"], Strangers) <=> Has(net["server"], Strangers)
       /\ AtMostOne(net["server"], Strangers) => AtMostOne(net'["server"], Strangers)
  <2>1. /\ Has(Emit(net, h, seg)[Other(h)], Strangers) <=> Has(net[Other(h)], Strangers) \/ seg \in Strangers
        /\ AtMostOne(net[Other(h)], Strangers) /\ (seg \notin Strangers \/ ~ Has(net[Other(h)], Strangers))
             => AtMostOne(Emit(net, h, seg)[Other(h)], Strangers)
    BY <1>6, <1>8, SendsOne, Zenon
  <2>2. CASE h = "client"
    BY <1>2, <1>7, <2>1, <2>2 DEF Other
  <2>3. CASE h = "server"
    BY <1>10, <2>3
  <2> QED
    BY <2>2, <2>3 DEF Hosts
<1>12. /\ app'[h] = "done" /\ app'[Other(h)] = app[Other(h)]
  BY <1>1, <1>2, <1>8 DEF Goto, TypeOK
<1>13. FinSent(h)' = TRUE /\ FinSent(Other(h))' = FinSent(Other(h))
  BY <1>2, <1>9, <1>12 DEF FinSent
<1>14. FinOnce(h)' /\ FinOnce(Other(h))'
  <2>1. FinOnce(h) /\ FinOnce(Other(h)) /\ Other(Other(h)) = h
    BY <1>1 DEF Numbered, Hosts, Other
  <2>2. FinOnce(h)'
    BY <1>2, <1>10, <1>12, <1>13, <2>1 DEF FinOnce
  <2>3. FinOnce(Other(h))'
    BY <1>2, <1>10, <1>12, <1>13, <2>1 DEF FinOnce
  <2> QED
    BY <2>2, <2>3
<1>15. FinOnce("client")' /\ FinOnce("server")'
  BY <1>14 DEF Hosts, Other
<1>16. Stranger'
  BY <1>1, <1>2, <1>5, <1>11 DEF Numbered, Stranger, Socks
<1>17. Unknown'
  <2>1. sk["K"].state # "none"
    <3>1. sk["K"].state = "none" => sk["C"].state = "none"
      BY <1>1 DEF Numbered, Unknown
    <3>2. sk[s].state # "none"
      BY <1>0, <1>2, Mine
    <3> QED
      BY <1>3, <3>1, <3>2
  <2> QED
    BY <1>5, <2>1 DEF Unknown, Socks
<1>18. UsedK' = UsedK /\ UsedC' = UsedC /\ UsedK \in Int /\ UsedC \in Int
  BY <1>2, <1>5 DEF UsedK, UsedC, Needed, One, Socks
<1>19. Len(net["server"]) \in Nat /\ Len(net["client"]) \in Nat
  BY <1>1, Lengths
<1>20. PICK x \in {0, 1} : /\ One(Has(net'["server"], Strangers)) = x
                         /\ One(Has(net["server"], Strangers)) = x
  <2>1. CASE Has(net["server"], Strangers)
    BY <1>11, <2>1 DEF One
  <2>2. CASE ~ Has(net["server"], Strangers)
    BY <1>11, <2>2 DEF One
  <2> QED
    BY <2>1, <2>2
<1>21. SentToK \in Int /\ SentToC \in Int /\ SentToK' \in Int /\ SentToC' \in Int
  BY DEF SentToK, SentToC, One
<1>22. Len(net["client"]) + UsedK <= SentToK /\ Len(net["server"]) + UsedC <= SentToC + x
  BY <1>1, <1>20 DEF Numbered, Counts
<1>23. sk'["K"].state = sk["K"].state /\ sk'["C"].state = sk["C"].state
  BY <1>5 DEF Socks
<1>24. CASE h = "client"
  <2>1. SentToK' >= SentToK
    BY <1>9, <1>10, <1>13, <1>23, <1>24 DEF SentToK, One, Other
  <2>2. SentToC' >= SentToC + 1
    BY <1>9, <1>10, <1>13, <1>23, <1>24 DEF SentToC, One, Other
  <2>3. net'["client"] = net["client"] /\ Len(net'["server"]) = Len(net["server"]) + 1
    BY <1>10, <1>24 DEF Other
  <2>4. Len(net'["client"]) + UsedK' <= SentToK'
    BY <1>18, <1>19, <1>21, <1>22, <2>1, <2>3
  <2>5. Len(net'["server"]) + UsedC' <= SentToC' + x
    BY <1>18, <1>19, <1>21, <1>22, <2>2, <2>3
  <2>6. Counts'
    BY <1>20, <2>4, <2>5 DEF Counts
  <2> QED
    BY <1>1, <1>2, <1>15, <1>16, <1>17, <2>6 DEF Numbered
<1>25. CASE h = "server"
  <2>1. SentToC' >= SentToC
    BY <1>9, <1>10, <1>13, <1>23, <1>25 DEF SentToC, One, Other
  <2>2. SentToK' >= SentToK + 1
    BY <1>9, <1>10, <1>13, <1>23, <1>25 DEF SentToK, One, Other
  <2>3. net'["server"] = net["server"] /\ Len(net'["client"]) = Len(net["client"]) + 1
    BY <1>10, <1>25 DEF Other
  <2>4. Len(net'["client"]) + UsedK' <= SentToK'
    BY <1>18, <1>19, <1>21, <1>22, <2>2, <2>3
  <2>5. Len(net'["server"]) + UsedC' <= SentToC' + x
    BY <1>18, <1>19, <1>21, <1>22, <2>1, <2>3
  <2>6. Counts'
    BY <1>20, <2>4, <2>5 DEF Counts
  <2> QED
    BY <1>1, <1>2, <1>15, <1>16, <1>17, <2>6 DEF Numbered
<1> QED
  BY <1>24, <1>25 DEF Hosts

-----------------------------------------------------------------------------
(* The packet threads and the packets.                                      *)

\* The sock a packet is for: K at the client, C or L at the server.
LEMMA Receiver ==
  ASSUME Inv1, Inv2, env.dups = 0, NEW h \in Hosts, NEW s, NEW st, ArrivesIn(h, s, st), st # "none"
  PROVE  \/ h = "client" /\ s = "K"
         \/ h = "server" /\ s = "C" /\ Head(net[h]) \notin Strangers
         \/ h = "server" /\ s = "L" /\ st \in {"LISTEN", "SYN_RECV"}
<1>1. /\ s \in Socks /\ Host(s) = h /\ sk[s].state = st /\ Running(h) /\ net[h] # <<>>
      /\ Head(net[h]) \in Segment
  BY Arrival DEF Inv1
<1>2. s = tcp_sock_lookup(h, Head(net[h]).conn) /\ Head(net[h]).conn \in {"k", "x"}
  BY <1>1 DEF ArrivesIn, Segment
<1>3. CASE h = "client"
  BY <1>1, <1>3 DEF Socks, Host
<1>4. CASE h = "server"
  <2>1. s \in {"C", "X", "L"}
    BY <1>1, <1>4 DEF Socks, Host
  <2>2. CASE s = "C"
    <3>1. Head(net[h]).conn = "k"
      BY <1>2, <1>4, <2>2 DEF tcp_sock_lookup, Child
    <3> QED
      BY <1>4, <2>2, <3>1 DEF Strangers
  <2>3. CASE s = "X"
    <3>1. Head(net[h]).conn = "x"
      BY <1>2, <1>4, <2>3 DEF tcp_sock_lookup, Child
    <3>2. Head(net["server"]) \in Strangers
      BY <1>1, <1>4, <3>1 DEF Strangers
    <3>3. Has(net["server"], Strangers)
      BY <1>1, <1>4, <3>2, TakesOne DEF Inv1
    <3> QED
      BY <1>1, <2>3, <3>3 DEF Inv2, Numbered, Stranger
  <2>4. CASE s = "L"
    BY <1>1, <1>4, <2>4 DEF Inv1, Roles, Role, Socks
  <2> QED
    BY <2>1, <2>2, <2>3, <2>4
<1> QED
  BY <1>3, <1>4 DEF Hosts

\* A handler moves its sock on by one packet.
LEMMA Advance ==
  ASSUME Inv1, Inv2, env.dups = 0, NEW h \in Hosts, NEW s, NEW st, ArrivesIn(h, s, st), s # "L",
         st # "none", \A x \in Socks \ {s} : sk'[x] = sk[x],
         NEW to, sk'[s].state = to, to # "none", st \in Opened => to \in Opened,
         NEW pc, rx'[h].pc = pc, rx'[Other(h)] = rx[Other(h)],
         One(to \in Opened) + Needed(to, pc) <= One(st \in Opened) + Needed(st, "idle") + 1
  PROVE  Progress(h)
<1>1. /\ s \in Socks /\ Host(s) = h /\ sk[s].state = st /\ rx[h].pc = "idle"
  BY Arrival DEF Inv1, RxIdle
<1>2. /\ One(to \in Opened) \in Int /\ Needed(to, pc) \in Int
      /\ One(st \in Opened) \in Int /\ Needed(st, "idle") \in Int
  BY DEF One, Needed
<1>3. CASE h = "client" /\ s = "K"
  <2>1. sk'["C"] = sk["C"] /\ sk'["X"] = sk["X"] /\ rx'["server"] = rx["server"]
    BY <1>3 DEF Other, Socks
  <2>2. UsedC' = UsedC /\ UsedC \in Int
    BY <2>1 DEF UsedC, One, Needed
  <2>3. UsedK' = One(to \in Opened) + Needed(to, pc) /\ UsedK = One(st \in Opened) + Needed(st, "idle")
    BY <1>1, <1>3 DEF UsedK
  <2>4. UsedK' <= UsedK + 1
    BY <1>2, <2>3
  <2> QED
    BY <1>1, <1>3, <2>1, <2>2, <2>4 DEF Progress, One
<1>4. CASE h = "server" /\ s = "C" /\ Head(net[h]) \notin Strangers
  <2>1. sk'["K"] = sk["K"] /\ sk'["X"] = sk["X"] /\ rx'["client"] = rx["client"]
    BY <1>4 DEF Other, Socks
  <2>2. UsedK' = UsedK /\ UsedK \in Int
    BY <2>1 DEF UsedK, One, Needed
  <2>3. /\ UsedC' = 1 + One(to \in Opened) + Needed(to, pc)
        /\ UsedC = 1 + One(st \in Opened) + Needed(st, "idle")
    <3>1. One(sk'["C"].state # "none") = 1 /\ One(sk["C"].state # "none") = 1
      BY <1>1, <1>4 DEF One
    <3> QED
      BY <1>1, <1>4, <3>1 DEF UsedC
  <2>4. UsedC' <= UsedC + 1
    BY <1>2, <2>3
  <2> QED
    BY <1>1, <1>4, <2>1, <2>2, <2>4 DEF Progress, One
<1> QED
  BY <1>3, <1>4, Receiver

\* A packet is taken and nothing else happens but an end of the process.
LEMMA NothingMore ==
  ASSUME Inv1, Inv2, NEW h \in Hosts, net[h] # <<>>, net' = Rest(h), UNCHANGED <<env, left, app, closeTo>>,
         \A s \in Socks \ {"L"} : sk'[s] = sk[s],
         \A o \in Hosts : rx'[o].pc = "close_wait" => rx[o].pc = "close_wait"
  PROVE  Inv2'
<1>1. sk'["K"] = sk["K"] /\ sk'["C"] = sk["C"] /\ sk'["X"] = sk["X"]
  BY DEF Socks
<1>2. /\ rx'["client"].pc = "close_wait" => rx["client"].pc = "close_wait"
      /\ rx'["server"].pc = "close_wait" => rx["server"].pc = "close_wait"
  BY DEF Hosts
<1>3. UsedK' <= UsedK /\ UsedC' <= UsedC /\ UsedK \in Int /\ UsedC \in Int /\ UsedK' \in Int /\ UsedC' \in Int
  BY <1>1, <1>2 DEF UsedK, UsedC, Needed, One
<1>4. UsedK' <= UsedK + One(h = "client")
  BY <1>3 DEF One
<1>5. UsedC' <= UsedC + One(h = "server" /\ Head(net[h]) \notin Strangers)
  BY <1>3 DEF One
<1>6. Progress(h)
  BY <1>1, <1>4, <1>5 DEF Progress
<1> QED
  BY <1>6, HandlerCounts DEF Silent

\* Where the packet thread goes.
LEMMA GoesOn ==
  ASSUME TypeOK, NEW h \in Hosts, NEW s, NEW p, NEW rst, Then(h, s, p, rst)
  PROVE  /\ rx'[Other(h)] = rx[Other(h)]
         /\ rx'[h].pc \in {p, "idle"} /\ (p # "end" => rx'[h].pc = p)
<1>1. rx \in [Hosts -> [pc : RxPcs, sock : Socks \cup {"none"}, rst : BOOLEAN]]
  BY DEF TypeOK
<1>2. Other(h) \in Hosts /\ Other(h) # h
  BY TwoHosts
<1>3. CASE p = "end" /\ ~ rst
  BY <1>1, <1>2, <1>3 DEF Then, RxIdle
<1>4. CASE ~ (p = "end" /\ ~ rst)
  BY <1>1, <1>2, <1>4 DEF Then
<1> QED
  BY <1>3, <1>4

\* An ACK that the packet thread sends is one of the connection.
LEMMA Acknowledgement ==
  ASSUME ConnAssumption, TypeOK, NEW h \in Hosts, NEW s \in Socks, s # "X", Head(net[h]) \in Segment,
         NEW r, r = [sk[s] EXCEPT !.rcv_nxt = SeqInc(Head(net[h]).seq)],
         net' = Emit(Rest(h), h, ControlPacket(s, r, {"ACK"}))
  PROVE  \E g \in Segment : g.conn = "k" /\ "FIN" \notin g.flags /\ net' = Emit(Rest(h), h, g)
<1> DEFINE g == ControlPacket(s, r, {"ACK"})
<1>1. sk[s] \in Sock /\ SeqInc(Head(net[h]).seq) \in SeqNo
  BY SeqNoRange DEF TypeOK, Segment
<1>2. r \in Sock
  BY <1>1 DEF Sock
<1>3. {"ACK"} \in SUBSET Flags
  BY DEF Flags
<1>4. g \in Segment /\ g.flags = {"ACK"}
  BY <1>2, <1>3, Controls
<1>5. g.conn = "k"
  BY DEF ControlPacket
<1> HIDE DEF g
<1>6. net' = Emit(Rest(h), h, g)
  BY DEF g
<1> QED
  BY <1>4, <1>5, <1>6

\* A handler that takes a packet, moves its sock and sends nothing.
LEMMA SilentCounts ==
  ASSUME Inv1, Inv2, NEW h \in Hosts, NEW s, NEW st, ArrivesIn(h, s, st), s # "L", st # "none",
         UNCHANGED <<env, left, app, closeTo>>, net' = Rest(h),
         \A x \in Socks \ {s} : sk'[x] = sk[x], NEW to, sk'[s].state = to, to # "none",
         st \in Opened => to \in Opened,
         NEW p, NEW rst, Then(h, s, p, rst), p # "close_wait",
         \/ to = st
         \/ st = "SYN_RECV" /\ to = "ESTABLISHED"
         \/ st = "FIN_WAIT_1" /\ to = "FIN_WAIT_2"
         \/ st = "LAST_ACK" /\ to = "CLOSED"
  PROVE  Inv2'
<1>1. CASE env.dups = 0
  <2>1. rx'[Other(h)] = rx[Other(h)] /\ rx'[h].pc \in {p, "idle"}
    BY GoesOn DEF Inv1
  <2>2. rx'[h].pc # "close_wait"
    BY <2>1
  <2>3. One(to \in Opened) + Needed(to, rx'[h].pc) <= One(st \in Opened) + Needed(st, "idle") + 1
    <3>1. CASE to = st
      <4>1. Needed(to, rx'[h].pc) = Needed(st, "idle") /\ Needed(st, "idle") \in Int
        BY <2>2, <3>1 DEF Needed
      <4>2. One(to \in Opened) = One(st \in Opened) /\ One(st \in Opened) \in Int
        BY <3>1 DEF One
      <4> QED
        BY <4>1, <4>2
    <3>2. CASE to # st
      BY <2>2, <3>2 DEF One, Needed, Opened, States
    <3> QED
      BY <3>1, <3>2
  <2>4. PICK pc : pc = rx'[h].pc
    OBVIOUS
  <2>5. Progress(h)
    BY <1>1, <2>1, <2>3, <2>4, Advance
  <2>6. net[h] # <<>>
    BY Arrival DEF Inv1
  <2> QED
    BY <2>5, <2>6, HandlerCounts DEF Silent
<1>2. CASE env.dups # 0
  BY <1>2 DEF Inv2
<1> QED
  BY <1>1, <1>2

\* A handler that answers.
LEMMA AnswerCounts ==
  ASSUME ConnAssumption, Inv1, Inv2, env.dups = 0, NEW h \in Hosts, NEW s, NEW st, ArrivesIn(h, s, st),
         s # "L", st # "none", UNCHANGED <<env, left, app, closeTo>>,
         NEW r, r = [sk[s] EXCEPT !.rcv_nxt = SeqInc(Head(net[h]).seq)],
         net' = Emit(Rest(h), h, ControlPacket(s, r, {"ACK"})),
         \A x \in Socks \ {s} : sk'[x] = sk[x], NEW to, sk'[s].state = to, to # "none",
         st \in Opened => to \in Opened,
         NEW p, NEW rst, Then(h, s, p, rst),
         \/ "FIN" \in Head(net[h]).flags /\ st = "ESTABLISHED" /\ to = st
         \/ "FIN" \in Head(net[h]).flags /\ st = "FIN_WAIT_2" /\ to = "TIME_WAIT"
         \/ s = "K" /\ st = "SYN_SENT" /\ to = "ESTABLISHED" /\ p = "wake_connect"
  PROVE  Inv2'
<1>1. rx'[Other(h)] = rx[Other(h)] /\ rx'[h].pc \in {p, "idle"}
  BY GoesOn DEF Inv1
<1>2. /\ net[h] # <<>> /\ Head(net[h]) \in Segment /\ s \in Socks /\ sk[s].state = st /\ Host(s) = h
  BY Arrival DEF Inv1
<1>3. One(to \in Opened) + Needed(to, rx'[h].pc) <= One(st \in Opened) + Needed(st, "idle") + 1
  BY <1>1 DEF One, Needed, Opened, States
<1>4. PICK pc : pc = rx'[h].pc
  OBVIOUS
<1>5. Progress(h)
  BY <1>1, <1>3, <1>4, Advance
<1>6. s # "X"
  BY Receiver
<1>7. PICK g \in Segment : g.conn = "k" /\ "FIN" \notin g.flags /\ net' = Emit(Rest(h), h, g)
  BY <1>2, <1>6, Acknowledgement DEF Inv1
<1>8. \/ Head(net[h]) \in Fins
      \/ h = "client" /\ MadeC' >= MadeC + 1
  <2>1. CASE "FIN" \in Head(net[h]).flags
    BY <1>2, <2>1 DEF Fins
  <2>2. CASE s = "K" /\ st = "SYN_SENT" /\ to = "ESTABLISHED"
    BY <1>2, <2>2 DEF MadeC, One, Opened, States, Host
  <2> QED
    BY <2>1, <2>2
<1>9. Answered(h)
  BY <1>7, <1>8 DEF Answered
<1> QED
  BY <1>2, <1>5, <1>9, HandlerCounts

\* What a handler writes to its sock.
LEMMA Written ==
  ASSUME TypeOK, NEW s \in Socks, NEW r, "state" \in DOMAIN r, sk' = [sk EXCEPT ![s] = r]
  PROVE  sk'[s].state = r.state /\ \A x \in Socks \ {s} : sk'[x] = sk[x]
  BY DEF TypeOK

\* SYN_SENT.
LEMMA RxSynSentCounts ==
  ASSUME ConnAssumption, Inv1, Inv2, env.dups = 0, NEW h \in Hosts, NEW s \in Socks, RxSynSent(h, s)
  PROVE  Inv2'
<1> DEFINE r == [sk[s] EXCEPT !.rcv_nxt = SeqInc(Head(net[h]).seq)]
<1>1. ArrivesIn(h, s, "SYN_SENT") /\ UNCHANGED <<env, left, app, closeTo>> /\ TypeOK
  BY DEF RxSynSent, appVars, Inv1
<1>2. sk[s].state = "SYN_SENT" /\ sk[s] \in Sock
  BY <1>1, Arrival DEF TypeOK
<1>3. s = "K"
  BY <1>2 DEF Inv1, Roles, Role, Socks, Opened
<1>4. CASE Head(net[h]).flags = {"SYN", "ACK"}
  <2>1. /\ sk' = [sk EXCEPT ![s] = [r EXCEPT !.state = "ESTABLISHED"]]
        /\ net' = Emit(Rest(h), h, ControlPacket(s, r, {"ACK"}))
        /\ Then(h, s, "wake_connect", FALSE)
    BY <1>4 DEF RxSynSent
  <2>2. [r EXCEPT !.state = "ESTABLISHED"].state = "ESTABLISHED"
        /\ "state" \in DOMAIN [r EXCEPT !.state = "ESTABLISHED"]
    BY <1>2 DEF Sock
  <2>3. sk'[s].state = "ESTABLISHED" /\ \A x \in Socks \ {s} : sk'[x] = sk[x]
    BY <1>1, <2>1, <2>2, Written
  <2>4. s # "L" /\ "SYN_SENT" # "none" /\ "ESTABLISHED" # "none"
        /\ ("SYN_SENT" \in Opened => "ESTABLISHED" \in Opened)
    BY <1>3 DEF Opened
  <2> QED
    BY <1>1, <1>3, <2>1, <2>3, <2>4, AnswerCounts
<1>5. CASE Head(net[h]).flags # {"SYN", "ACK"}
  <2>1. sk' = sk /\ net' = Rest(h) /\ Then(h, s, "end", HasRst(h))
    BY <1>5 DEF RxSynSent
  <2>2. s # "L" /\ sk'[s].state = "SYN_SENT"
    BY <1>2, <1>3, <2>1
  <2> QED
    BY <1>1, <2>1, <2>2, SilentCounts
<1> QED
  BY <1>4, <1>5

\* L does not reach the states of a connection.
LEMMA NotL ==
  ASSUME Inv1, NEW h \in Hosts, NEW s \in Socks, NEW st, ArrivesIn(h, s, st),
         st \in Opened
  PROVE  s # "L"
<1>1. sk[s].state = st /\ Host(s) = h /\ Running(h)
  BY Arrival DEF Inv1
<1> QED
  BY <1>1 DEF Inv1, Roles, Role, Opened, Host

\* ESTABLISHED.
LEMMA RxEstablishedCounts ==
  ASSUME ConnAssumption, Inv1, Inv2, env.dups = 0, NEW h \in Hosts, NEW s \in Socks, RxEstablished(h, s)
  PROVE  Inv2'
<1> DEFINE r == [sk[s] EXCEPT !.rcv_nxt = SeqInc(Head(net[h]).seq)]
<1>1. ArrivesIn(h, s, "ESTABLISHED") /\ UNCHANGED <<env, left, app, closeTo>> /\ TypeOK
  BY DEF RxEstablished, appVars, Inv1
<1>2. sk[s].state = "ESTABLISHED" /\ sk[s] \in Sock
  BY <1>1, Arrival DEF TypeOK
<1>3. s # "L"
  BY <1>1, NotL DEF Opened, States
<1>4. CASE "FIN" \in Head(net[h]).flags
  <2>1. /\ sk' = [sk EXCEPT ![s] = r]
        /\ net' = Emit(Rest(h), h, ControlPacket(s, r, {"ACK"}))
        /\ Then(h, s, "close_wait", HasRst(h))
    BY <1>4 DEF RxEstablished
  <2>2. r.state = "ESTABLISHED" /\ "state" \in DOMAIN r
    BY <1>2 DEF Sock
  <2>3. sk'[s].state = "ESTABLISHED" /\ \A x \in Socks \ {s} : sk'[x] = sk[x]
    BY <1>1, <2>1, <2>2, Written
  <2> QED
    BY <1>1, <1>3, <1>4, <2>1, <2>3, AnswerCounts
<1>5. CASE "FIN" \notin Head(net[h]).flags
  <2>1. sk' = sk /\ net' = Rest(h) /\ Then(h, s, "end", HasRst(h))
    BY <1>5 DEF RxEstablished
  <2>2. sk'[s].state = "ESTABLISHED"
    BY <1>2, <2>1
  <2> QED
    BY <1>1, <1>3, <2>1, <2>2, SilentCounts
<1> QED
  BY <1>4, <1>5

\* FIN_WAIT_2.
LEMMA RxFinWait2Counts ==
  ASSUME ConnAssumption, Inv1, Inv2, env.dups = 0, NEW h \in Hosts, NEW s \in Socks, RxFinWait2(h, s)
  PROVE  Inv2'
<1> DEFINE r == [sk[s] EXCEPT !.rcv_nxt = SeqInc(Head(net[h]).seq)]
           t == [r EXCEPT !.state = "TIME_WAIT", !.timer = TimeWaitScans, !.ref_cnt = @ + 1]
<1>1. /\ ArrivesIn(h, s, "FIN_WAIT_2") /\ UNCHANGED <<env, left, app, closeTo>> /\ TypeOK
      /\ Then(h, s, "end", HasRst(h))
  BY DEF RxFinWait2, appVars, Inv1
<1>2. sk[s].state = "FIN_WAIT_2" /\ sk[s] \in Sock
  BY <1>1, Arrival DEF TypeOK
<1>3. s # "L"
  BY <1>1, NotL DEF Opened, States
<1>4. CASE "FIN" \in Head(net[h]).flags
  <2>1. /\ sk' = [sk EXCEPT ![s] = t]
        /\ net' = Emit(Rest(h), h, ControlPacket(s, r, {"ACK"}))
    BY <1>4 DEF RxFinWait2
  <2>2. t.state = "TIME_WAIT" /\ "state" \in DOMAIN t
    BY <1>2 DEF Sock
  <2> HIDE DEF t
  <2>3. sk'[s].state = "TIME_WAIT" /\ \A x \in Socks \ {s} : sk'[x] = sk[x]
    BY <1>1, <2>1, <2>2, Written
  <2>4. "TIME_WAIT" \in Opened /\ "TIME_WAIT" # "none" /\ "FIN_WAIT_2" # "none"
    BY DEF Opened, States
  <2> QED
    BY <1>1, <1>3, <1>4, <2>1, <2>3, <2>4, AnswerCounts
<1>5. CASE "FIN" \notin Head(net[h]).flags
  <2>1. sk' = sk /\ net' = Rest(h)
    BY <1>5 DEF RxFinWait2
  <2>2. sk'[s].state = "FIN_WAIT_2"
    BY <1>2, <2>1
  <2> QED
    BY <1>1, <1>3, <2>1, <2>2, SilentCounts
<1> QED
  BY <1>4, <1>5

\* FIN_WAIT_1 and LAST_ACK: a write of the state, or none.
LEMMA AckedCounts ==
  ASSUME Inv1, Inv2, NEW h \in Hosts, NEW s \in Socks, RxFinWait1(h, s) \/ RxLastAck(h, s)
  PROVE  Inv2'
<1>1. TypeOK /\ UNCHANGED <<env, left, app, closeTo>> /\ net' = Rest(h) /\ Then(h, s, "end", HasRst(h))
  BY DEF RxFinWait1, RxLastAck, appVars, Inv1
<1>2. PICK st \in {"FIN_WAIT_1", "LAST_ACK"}, to \in {"FIN_WAIT_2", "CLOSED"} :
        /\ sk' = [sk EXCEPT ![s].state = to] \/ sk' = sk
        /\ ArrivesIn(h, s, st)
        /\ st = "FIN_WAIT_1" => to = "FIN_WAIT_2"
        /\ st = "LAST_ACK" => to = "CLOSED"
  BY DEF RxFinWait1, RxLastAck
<1>3. sk[s] \in Sock /\ sk[s].state = st /\ st \in Opened /\ st # "none"
  <2>1. sk[s].state = st
    BY <1>1, <1>2, Arrival
  <2>2. sk[s] \in Sock
    BY <1>1 DEF TypeOK
  <2>3. st \in Opened /\ st # "none"
    BY <1>2 DEF Opened, States
  <2> QED
    BY <2>1, <2>2, <2>3
<1>4. s # "L"
  BY <1>2, <1>3, NotL
<1>5. CASE sk' = sk
  BY <1>1, <1>2, <1>3, <1>4, <1>5, SilentCounts, Zenon
<1>6. CASE sk' = [sk EXCEPT ![s].state = to]
  <2> DEFINE r == [sk[s] EXCEPT !.state = to]
  <2>1. r.state = to /\ "state" \in DOMAIN r /\ sk' = [sk EXCEPT ![s] = r]
    BY <1>3, <1>6 DEF Sock
  <2> HIDE DEF r
  <2>2. sk'[s].state = to /\ \A x \in Socks \ {s} : sk'[x] = sk[x]
    BY <1>1, <2>1, Written
  <2>3. to \in Opened /\ to # "none"
    BY DEF Opened, States
  <2> QED
    BY <1>1, <1>2, <1>3, <1>4, <2>2, <2>3, SilentCounts
<1> QED
  BY <1>2, <1>5, <1>6

\* CLOSE_WAIT and TIME_WAIT.
LEMMA RxIgnoredCounts ==
  ASSUME Inv1, Inv2, NEW h \in Hosts, NEW s \in Socks, RxIgnored(h, s)
  PROVE  Inv2'
<1>1. TypeOK /\ UNCHANGED <<env, left, app, closeTo, sk>> /\ net' = Rest(h) /\ Then(h, s, "end", HasRst(h))
  BY DEF RxIgnored, appVars, Inv1
<1>2. PICK st \in {"CLOSE_WAIT", "TIME_WAIT"} : ArrivesIn(h, s, st)
  BY DEF RxIgnored
<1>3. sk[s].state = st /\ st \in Opened /\ st # "none"
  BY <1>2, Arrival DEF Inv1, Opened, States
<1>4. s # "L"
  BY <1>2, <1>3, NotL
<1> QED
  BY <1>1, <1>2, <1>3, <1>4, SilentCounts

\* SYN_RECV: the child is established, or the server ends.
LEMMA RxSynRecvCounts ==
  ASSUME Inv1, Inv2, NEW h \in Hosts, NEW s \in Socks, RxSynRecv(h, s)
  PROVE  Inv2'
<1>1. /\ TypeOK /\ UNCHANGED <<env, left, app, closeTo>> /\ net' = Rest(h)
      /\ ArrivesIn(h, s, "SYN_RECV") /\ sk' = [sk EXCEPT ![s].state = "ESTABLISHED"]
  BY DEF RxSynRecv, appVars, Inv1
<1>2. sk[s] \in Sock /\ sk[s].state = "SYN_RECV" /\ net[h] # <<>>
  BY <1>1, Arrival DEF TypeOK
<1> DEFINE r == [sk[s] EXCEPT !.state = "ESTABLISHED"]
<1>3. r.state = "ESTABLISHED" /\ "state" \in DOMAIN r /\ sk' = [sk EXCEPT ![s] = r]
  BY <1>1, <1>2 DEF Sock
<1> HIDE DEF r
<1>4. sk'[s].state = "ESTABLISHED" /\ \A x \in Socks \ {s} : sk'[x] = sk[x]
  BY <1>1, <1>3, Written
<1>5. CASE HasParent(s)
  <2>1. Then(h, s, "count_load", HasRst(h))
    BY <1>5 DEF RxSynRecv
  <2>2. s # "L" /\ "SYN_RECV" # "none" /\ "ESTABLISHED" # "none" /\ "SYN_RECV" \notin Opened
    BY <1>5 DEF HasParent, Opened
  <2> QED
    BY <1>1, <1>4, <2>1, <2>2, SilentCounts
<1>6. CASE ~ HasParent(s)
  <2>1. rx' = rx
    BY <1>6 DEF RxSynRecv
  <2>2. s = "L"
    BY <1>2, <1>6 DEF HasParent, Inv1, Roles, Role, Opened, Socks
  <2> QED
    BY <1>1, <1>2, <1>4, <2>1, <2>2, NothingMore
<1> QED
  BY <1>5, <1>6

\* A lookup that fails ends the process.
LEMMA RxNoSockCounts ==
  ASSUME Inv1, Inv2, NEW h \in Hosts, RxNoSock(h)
  PROVE  Inv2'
  BY NothingMore DEF RxNoSock, Arrives, appVars

\* What leaves everything the counts speak of as it is.
LEMMA Unseen ==
  ASSUME Inv1, TypeOK', Inv2, UNCHANGED <<env, left, app, closeTo, net>>,
         \A s \in Socks \ {"L"} : sk'[s].state = sk[s].state,
         \A o \in Hosts : rx'[o].pc = "close_wait" => rx[o].pc = "close_wait"
  PROVE  Inv2'
<1>1. TypeOK
  BY DEF Inv1
<1>2. /\ sk'["K"].state = sk["K"].state /\ sk'["C"].state = sk["C"].state
      /\ sk'["X"].state = sk["X"].state
  BY DEF Socks
<1>3. Phase("K")' = Phase("K") /\ Phase("C")' = Phase("C")
  BY <1>2 DEF Phase
<1>4. /\ rx'["client"].pc = "close_wait" => rx["client"].pc = "close_wait"
      /\ rx'["server"].pc = "close_wait" => rx["server"].pc = "close_wait"
  BY DEF Hosts
<1>5. NeededK' <= NeededK /\ NeededC' <= NeededC
  BY <1>2, <1>4 DEF NeededK, NeededC, Needed
<1>6. SentFins' = SentFins
  BY DEF SentFins, FinSent
<1>7. env.dups = 0 => \A h \in Hosts : app'[h] = "send_fin" => closeTo'[h] # "none"
  BY DEF Inv2, Numbered, FinOnce, Hosts
<1> QED
  BY <1>1, <1>2, <1>3, <1>5, <1>6, <1>7, Inv2Same

\* A use of freed memory, the count and the two wakeups.
LEMMA WakesCount ==
  ASSUME Inv1, TypeOK', Inv2, NEW h \in Hosts, RxUsesFreed(h) \/ RxWakeConnect(h) \/ RxCount(h) \/ RxWakeAccept(h)
  PROVE  Inv2'
<1>1. UNCHANGED <<env, left, app, closeTo, net, sk>>
  BY DEF RxUsesFreed, RxWakeConnect, RxCount, RxWakeAccept, appVars
<1>2. ASSUME NEW o \in Hosts, rx'[o].pc = "close_wait" PROVE rx[o].pc = "close_wait"
  <2>1. CASE RxUsesFreed(h)
    BY <1>2, <2>1 DEF RxUsesFreed
  <2>2. CASE RxWakeConnect(h) \/ RxCount(h) \/ RxWakeAccept(h)
    <3>1. PICK p \in {"end", "count_store", "wake_accept"} : Then(h, rx[h].sock, p, rx[h].rst)
      BY <2>2 DEF RxWakeConnect, RxCount, RxWakeAccept
    <3>2. rx'[Other(h)] = rx[Other(h)] /\ rx'[h].pc \in {p, "idle"}
      BY <3>1, GoesOn DEF Inv1
    <3> QED
      BY <1>2, <3>2, TwoHosts
  <2> QED
    BY <2>1, <2>2
<1> QED
  BY <1>1, <1>2, Unseen

\* The second step of ESTABLISHED.
LEMMA RxCloseWaitCounts ==
  ASSUME Inv1, TypeOK', Inv2, NEW h \in Hosts, RxCloseWait(h)
  PROVE  Inv2'
<1>1. /\ Running(h) /\ rx[h].pc = "close_wait" /\ TypeOK /\ Then(h, rx[h].sock, "end", rx[h].rst)
      /\ UNCHANGED <<env, left, app, closeTo, net>>
  BY DEF RxCloseWait, Inv1, appVars
<1>2. PICK s \in Socks : /\ s = rx[h].sock /\ Host(s) = h
                         /\ sk[s].state \in {"ESTABLISHED", "FIN_WAIT_1"}
  BY <1>1, Between
<1> DEFINE r == [sk[s] EXCEPT !.state = "CLOSE_WAIT"]
<1>3. r.state = "CLOSE_WAIT" /\ "state" \in DOMAIN r /\ sk' = [sk EXCEPT ![s] = r]
  <2>1. sk[s] \in Sock
    BY <1>1 DEF TypeOK
  <2>2. sk' = [sk EXCEPT ![s] = r]
    BY <1>2 DEF RxCloseWait
  <2> QED
    BY <2>1, <2>2 DEF Sock
<1> HIDE DEF r
<1>4. sk'[s].state = "CLOSE_WAIT" /\ \A x \in Socks \ {s} : sk'[x] = sk[x]
  BY <1>1, <1>3, Written
<1>5. rx'[Other(h)] = rx[Other(h)] /\ rx'[h].pc \in {"end", "idle"}
  BY <1>1, GoesOn
<1>6. s # "L"
  BY <1>1, <1>2 DEF Inv1, Roles, Role, Host
<1>7. CASE env.dups = 0
  <2>1. s # "X"
    BY <1>2, <1>7 DEF Inv2, Numbered, Stranger
  <2>2. Phase("K")' = Phase("K") /\ Phase("C")' = Phase("C")
    BY <1>2, <1>4, <1>6, <2>1 DEF Phase, Opened, States, Socks
  <2>3. sk'["X"].state = sk["X"].state
    BY <1>4, <2>1 DEF Socks
  <2>4. NeededK' <= NeededK /\ NeededC' <= NeededC
    <3>1. CASE h = "client" /\ s = "K"
      <4>1. sk'["C"] = sk["C"] /\ rx'["server"] = rx["server"]
        BY <1>4, <1>5, <3>1 DEF Socks, Other
      <4>2. NeededK' = 1 /\ NeededK = 1
        BY <1>1, <1>2, <1>4, <1>5, <3>1 DEF NeededK, Needed
      <4> QED
        BY <4>1, <4>2 DEF NeededC, Needed
    <3>2. CASE h = "server" /\ s = "C"
      <4>1. sk'["K"] = sk["K"] /\ rx'["client"] = rx["client"]
        BY <1>4, <1>5, <3>2 DEF Socks, Other
      <4>2. NeededC' = 1 /\ NeededC = 1
        BY <1>1, <1>2, <1>4, <1>5, <3>2 DEF NeededC, Needed
      <4> QED
        BY <4>1, <4>2 DEF NeededK, Needed
    <3> QED
      BY <1>2, <1>6, <2>1, <3>1, <3>2 DEF Socks, Host
  <2>5. SentFins' = SentFins
    BY <1>1 DEF SentFins, FinSent
  <2>6. \A o \in Hosts : app'[o] = "send_fin" => closeTo'[o] # "none"
    BY <1>1, <1>7 DEF Inv2, Numbered, FinOnce, Hosts
  <2> QED
    BY <1>1, <2>2, <2>3, <2>4, <2>5, <2>6, Inv2Same
<1>8. CASE env.dups # 0
  BY <1>1, <1>8 DEF Inv2
<1> QED
  BY <1>7, <1>8

\* No packet has RST, so the last step of tcp_process never runs.
LEMMA NoReset ==
  ASSUME Inv1, env.dups = 0, NEW h \in Hosts
  PROVE  rx[h].pc # "end" /\ ~ rx[h].rst
  BY DEF Inv1, RstLate, Late, Packet, RxIdle

\* The timer thread.
LEMMA TimerScanCounts ==
  ASSUME Inv1, TypeOK', Inv2, NEW h \in Hosts, TimerScan(h)
  PROVE  Inv2'
<1>1. TypeOK /\ UNCHANGED <<env, left, app, closeTo, net, rx>>
  BY DEF Inv1, TimerScan, appVars
<1>2. CASE sk' = sk
  BY <1>1, <1>2, Unseen
<1>3. CASE sk' # sk
  <2>1. sk' = [s \in Socks |-> IF s \in OnTimer(h) THEN Scan(s) ELSE sk[s]]
    BY <1>3 DEF TimerScan
  <2>2. ASSUME NEW s \in Socks
        PROVE  \/ sk'[s] = sk[s]
               \/ sk[s].state = "TIME_WAIT" /\ sk'[s].state \in {"TIME_WAIT", "CLOSED"}
    <3>1. CASE s \in OnTimer(h)
      <4>1. sk[s].timer > 0 /\ sk'[s] = Scan(s)
        BY <2>1, <3>1 DEF OnTimer
      <4>2. sk[s].state = "TIME_WAIT"
        BY <4>1 DEF Inv1, Roles, Role
      <4>3. Scan(s).state \in {"TIME_WAIT", "CLOSED"}
        BY <1>1, <4>1, <4>2, Scanned
      <4> QED
        BY <4>1, <4>2, <4>3
    <3>2. CASE s \notin OnTimer(h)
      BY <2>1, <3>2
    <3> QED
      BY <3>1, <3>2
  <2>3. Phase("K")' = Phase("K") /\ Phase("C")' = Phase("C")
    BY <2>2 DEF Phase, Opened, States, Socks
  <2>4. NeededK' <= NeededK /\ NeededC' <= NeededC
    <3>1. \A s \in Socks : \A pc : Needed(sk'[s].state, pc) <= Needed(sk[s].state, pc)
      <4> TAKE s \in Socks
      <4>1. CASE sk'[s] = sk[s]
        BY <4>1 DEF Needed
      <4>2. CASE sk[s].state = "TIME_WAIT" /\ sk'[s].state \in {"TIME_WAIT", "CLOSED"}
        BY <4>2 DEF Needed
      <4> QED
        BY <2>2, <4>1, <4>2
    <3> QED
      BY <1>1, <3>1, Zenon DEF NeededK, NeededC, Socks
  <2>5. SentFins' = SentFins
    BY <1>1 DEF SentFins, FinSent
  <2>6. CASE env.dups = 0
    <3>1. \A o \in Hosts : app'[o] = "send_fin" => closeTo'[o] # "none"
      BY <1>1, <2>6 DEF Inv2, Numbered, FinOnce, Hosts
    <3>2. sk'["X"].state = sk["X"].state
      BY <2>2, <2>6 DEF Inv2, Numbered, Stranger, Socks
    <3> QED
      BY <1>1, <2>3, <2>4, <2>5, <3>1, <3>2, Inv2Same
  <2>7. CASE env.dups # 0
    BY <1>1, <2>7 DEF Inv2
  <2> QED
    BY <2>6, <2>7
<1> QED
  BY <1>2, <1>3

\* LISTEN: a child of the connection is answered, one of the other peer is not.
LEMMA RxListenCounts ==
  ASSUME ConnAssumption, Inv1, Inv2, env.dups = 0, NEW h \in Hosts, NEW s \in Socks, RxListen(h, s)
  PROVE  Inv2'
<1>1. /\ s = "L" /\ h = "server" /\ NoChild /\ Then(h, "L", "end", HasRst(h))
  BY RxListenDoes
<1>2. PICK n \in {"C", "X"}, l \in Sock, a \in Sock, c \in Sock :
              /\ n = Child(Head(net[h]).conn) /\ sk["L"].ref_cnt \in Int
              /\ sk'["L"] = l /\ sk'[n] = a /\ \A x \in Socks \ {"L", n} : sk'[x] = sk[x]
              /\ l.state = "SYN_RECV" /\ l.timer = sk["L"].timer /\ l.hashed = sk["L"].hashed
              /\ l.bound = sk["L"].bound /\ l.ref_cnt = sk["L"].ref_cnt /\ l.freed = sk["L"].freed
              /\ a.state = "SYN_RECV" /\ a.timer = sk["L"].timer /\ a.hashed = "established"
              /\ a.bound = FALSE /\ a.ref_cnt = sk["L"].ref_cnt + 1 /\ a.freed = sk["L"].freed
              /\ listen_queue' = Append(listen_queue, n)
              /\ net' = Emit(Rest(h), h, ControlPacket(n, c, {"SYN", "ACK"}))
  <2>1. MakesChild(h)
    BY RxListenDoes
  <2> QED
    BY <2>1, Zenon DEF MakesChild
<1>3. /\ UNCHANGED <<env, left, app, closeTo>> /\ ArrivesIn(h, s, "LISTEN")
  BY DEF RxListen, appVars
<1>4. net[h] # <<>> /\ Head(net[h]) \in Segment
  BY <1>3, Arrival DEF Inv1
<1>5. sk["C"].state = "none" /\ sk["X"].state = "none" /\ sk'["K"] = sk["K"]
  BY <1>1, <1>2 DEF NoChild, Socks
<1>6. rx[h].pc = "idle" /\ rx'[h].pc \in {"end", "idle"} /\ rx'[Other(h)] = rx[Other(h)]
  BY <1>1, <1>3, GoesOn DEF Inv1, ArrivesIn, Arrives, RxIdle
<1>7. UsedK' = UsedK /\ UsedK \in Int
  BY <1>1, <1>5, <1>6 DEF UsedK, One, Needed, Other
<1>8. UsedC = 0
  BY <1>1, <1>5, <1>6 DEF UsedC, One, Needed, Opened
<1>9. CASE n = "C"
  <2>1. sk'["C"].state = "SYN_RECV" /\ sk'["X"] = sk["X"]
    BY <1>2, <1>9 DEF Socks
  <2>2. Head(net[h]).conn = "k" /\ Head(net[h]) \notin Strangers
    BY <1>2, <1>4, <1>9 DEF Child, Segment, Strangers
  <2>3. UsedC' = 1
    BY <1>1, <1>6, <2>1 DEF UsedC, One, Needed, Opened
  <2>4. Progress(h)
    BY <1>1, <1>5, <1>7, <1>8, <2>1, <2>2, <2>3 DEF Progress, One, Opened
  <2>5. MadeK' >= MadeK + 1
    BY <1>5, <2>1 DEF MadeK, One
  <2> DEFINE g == ControlPacket(n, c, {"SYN", "ACK"})
  <2>6. g \in Segment /\ g.flags = {"SYN", "ACK"}
    <3>1. {"SYN", "ACK"} \in SUBSET Flags /\ n \in Socks
      BY DEF Flags, Socks
    <3> QED
      BY <3>1, Controls
  <2>7. g.conn = "k"
    BY <1>9 DEF ControlPacket
  <2> HIDE DEF g
  <2>8. net' = Emit(Rest(h), h, g)
    BY <1>2 DEF g
  <2>9. Answered(h)
    BY <1>1, <2>5, <2>6, <2>7, <2>8 DEF Answered
  <2> QED
    BY <1>3, <1>4, <2>4, <2>9, HandlerCounts
<1>10. CASE n = "X"
  <2>1. sk'["X"].state = "SYN_RECV" /\ sk'["C"] = sk["C"]
    BY <1>2, <1>10 DEF Socks
  <2>2. Head(net[h]).conn = "x" /\ Head(net[h]) \in Strangers
    BY <1>2, <1>4, <1>10 DEF Child, Segment, Strangers
  <2>3. UsedC' = 0
    BY <1>1, <1>5, <1>6, <2>1 DEF UsedC, One, Needed, Opened
  <2>4. Progress(h)
    BY <1>1, <1>5, <1>7, <1>8, <2>1, <2>2, <2>3 DEF Progress, One, Opened
  <2>5. net' = Rest(h)
    BY <1>2, <1>10 DEF Emit, ControlPacket
  <2> QED
    BY <1>3, <1>4, <2>4, <2>5, HandlerCounts DEF Silent
<1> QED
  BY <1>9, <1>10

-----------------------------------------------------------------------------
(* The two invariants together.                                             *)

\* By the counts, nothing is left for a sock that is closed.
LEMMA NothingLeft ==
  ASSUME Inv1, Inv2
  PROVE  ClosedIsDeaf
<1> SUFFICES ASSUME env.dups = 0, NEW h \in Hosts, NEW s \in Socks, ArrivesIn(h, s, "CLOSED")
             PROVE  FALSE
  BY DEF ClosedIsDeaf
<1>1. Numbered /\ TypeOK
  BY DEF Inv1, Inv2
<1>2. sk[s].state = "CLOSED" /\ net[h] # <<>>
  BY <1>1, Arrival
<1>3. Len(net["client"]) \in Nat /\ Len(net["server"]) \in Nat
  BY <1>1, Lengths
<1>4. net[h] \in Seq(Segment) /\ Len(net[h]) # 0
  <2>1. net \in [Hosts -> Seq(Segment)]
    BY <1>1 DEF TypeOK
  <2>2. net[h] \in Seq(Segment)
    BY <2>1
  <2> QED
    BY <1>2, <2>2
<1>5. CASE h = "client" /\ s = "K"
  <2>1. UsedK = 3
    BY <1>2, <1>5 DEF UsedK, Needed, One, Opened, States
  <2>2. SentToK <= 3 /\ SentToK \in Int
    BY DEF SentToK, One
  <2> QED
    BY <1>1, <1>3, <1>4, <1>5, <2>1, <2>2 DEF Numbered, Counts
<1>6. CASE h = "server" /\ s = "C" /\ Head(net[h]) \notin Strangers
  <2>1. UsedC = 4
    BY <1>2, <1>6 DEF UsedC, Needed, One, Opened, States
  <2>2. SentToC <= 4 /\ SentToC \in Int
    BY DEF SentToC, One
  <2>3. CASE Has(net["server"], Strangers)
    <3>1. Len(net["server"]) = 1
      <4>1. One(Has(net["server"], Strangers)) = 1
        BY <2>3 DEF One
      <4>2. Len(net["server"]) + UsedC <= SentToC + 1
        BY <1>1, <4>1 DEF Numbered, Counts
      <4>3. Len(net["server"]) # 0
        BY <1>4, <1>6
      <4>4. PICK n \in Nat : n = Len(net["server"])
        BY <1>3
      <4>5. n + 4 <= 4 + 1
        BY <2>1, <2>2, <4>2, <4>4
      <4>6. n # 0
        BY <4>3, <4>4
      <4>7. n = 1
        BY <4>5, <4>6
      <4> QED
        BY <4>4, <4>7
    <3>2. PICK i \in DOMAIN net["server"] : net["server"][i] \in Strangers
      BY <2>3 DEF Has
    <3>3. i = 1 /\ Head(net["server"]) = net["server"][1]
      BY <1>4, <1>6, <3>1, <3>2
    <3> QED
      BY <1>6, <3>2, <3>3
  <2>4. CASE ~ Has(net["server"], Strangers)
    BY <1>1, <1>3, <1>4, <1>6, <2>1, <2>2, <2>4 DEF Numbered, Counts, One
  <2> QED
    BY <2>3, <2>4
<1> QED
  BY <1>5, <1>6, Receiver

\* A step of the packet thread.
LEMMA RxStepCounts ==
  ASSUME ConnAssumption, Inv1, Inv1', Inv2, NEW h \in Hosts, RxStep(h)
  PROVE  Inv2'
<1>1. TypeOK'
  BY DEF Inv1
<1>2. env' = env
  BY DEF RxStep, RxNoSock, RxUsesFreed, RxClosed, RxListen, RxSynSent, RxSynRecv, RxEstablished,
         RxFinWait1, RxFinWait2, RxLastAck, RxIgnored, RxWakeConnect, RxCount, RxWakeAccept, RxCloseWait, RxReset
<1>3. CASE env.dups # 0
  BY <1>2, <1>3 DEF Inv2
<1>4. CASE env.dups = 0
  <2>1. CASE RxNoSock(h)
    BY <2>1, RxNoSockCounts
  <2>2. CASE RxUsesFreed(h) \/ RxWakeConnect(h) \/ RxCount(h) \/ RxWakeAccept(h)
    BY <1>1, <2>2, WakesCount
  <2>3. CASE RxCloseWait(h)
    BY <1>1, <2>3, RxCloseWaitCounts
  <2>4. CASE RxReset(h)
    BY <1>4, <2>4, NoReset DEF RxReset
  <2>5. ASSUME NEW s \in Socks, RxClosed(h, s) PROVE FALSE
    BY <1>4, <2>5, NothingLeft DEF RxClosed, ClosedIsDeaf
  <2>6. ASSUME NEW s \in Socks,
               \/ RxListen(h, s) \/ RxSynSent(h, s) \/ RxSynRecv(h, s) \/ RxEstablished(h, s)
               \/ RxFinWait1(h, s) \/ RxFinWait2(h, s) \/ RxLastAck(h, s) \/ RxIgnored(h, s)
        PROVE  Inv2'
    BY <1>4, <2>6, RxListenCounts, RxSynSentCounts, RxSynRecvCounts, RxEstablishedCounts,
       AckedCounts, RxFinWait2Counts, RxIgnoredCounts
  <2> QED
    BY <2>1, <2>2, <2>3, <2>4, <2>5, <2>6 DEF RxStep
<1> QED
  BY <1>3, <1>4

\* Every step keeps both.
LEMMA BothKept ==
  ASSUME ConnAssumption, Inv1, Inv2, [Next]_vars
  PROVE  Inv1' /\ Inv2'
<1>1. Inv1'
  BY NothingLeft, Inv1Kept
<1> SUFFICES Inv2'
  BY <1>1
<1>2. TypeOK'
  BY <1>1 DEF Inv1
<1>3. CASE UNCHANGED vars
  <2>1. UNCHANGED <<env, left, app, closeTo, net, sk, rx>>
    BY <1>3 DEF vars
  <2> QED
    BY <1>2, <2>1, Unseen
<1>4. CASE \E h \in Hosts : AppStep(h)
  <2>1. PICK h \in Hosts : AppStep(h)
    BY <1>4
  <2>2. CASE Connect
    BY <2>2, ConnectCounts
  <2>3. CASE \/ ConnectSleep \/ ConnectWake \/ Listen
             \/ AcceptTest \/ AcceptSleep \/ AcceptWake \/ AcceptDequeue \/ AcceptUncount
    BY <1>2, <2>3, SleepsAndWakes
  <2>4. CASE CloseSwitch(h) \/ CloseSetState(h) \/ CloseSendFin(h)
    BY <1>2, <2>4, CloseSwitchCounts, CloseSetStateCounts, CloseSendFinCounts
  <2> QED
    BY <2>1, <2>2, <2>3, <2>4 DEF AppStep
<1>5. CASE \E h \in Hosts : RxStep(h)
  BY <1>1, <1>5, RxStepCounts
<1>6. CASE \E h \in Hosts : TimerScan(h)
  BY <1>2, <1>6, TimerScanCounts
<1>7. CASE NetStep
  <2>1. CASE ForeignSyn
    BY <2>1, ForeignSynCounts
  <2>2. CASE \E h \in Hosts : Duplicate(h)
    <3>1. env' = env /\ left.dups > 0
      BY <2>2 DEF Duplicate
    <3> QED
      BY <3>1 DEF Inv2, Numbered
  <2> QED
    BY <1>7, <2>1, <2>2 DEF NetStep
<1> QED
  BY <1>1, <1>3, <1>4, <1>5, <1>6, <1>7 DEF Next

\* At the start nothing has been sent.
LEMMA Inv2Starts ==
  ASSUME ConnAssumption, Init
  PROVE  Inv2
<1> SUFFICES ASSUME env.dups = 0 PROVE Numbered
  BY DEF Inv2
<1>1. /\ left.dups = 0 /\ left.foreign = env.foreign /\ net["client"] = <<>> /\ net["server"] = <<>>
      /\ \A s \in Socks : sk[s].state = "none"
      /\ \A h \in Hosts : app[h] = "start" /\ rx[h].pc = "idle"
  BY DEF Init, NoSock, RxIdle, Hosts, Socks
<1>2. \A kind : ~ Has(<<>>, kind) /\ AtMostOne(<<>>, kind)
  BY DEF Has, AtMostOne
<1>3. FinOnce("client") /\ FinOnce("server")
  BY <1>1, <1>2 DEF FinOnce, Hosts
<1>4. Stranger /\ Unknown
  BY <1>1, <1>2 DEF Stranger, Unknown, Socks
<1>5. UsedK = 0 /\ UsedC = 0
  BY <1>1 DEF UsedK, UsedC, One, Needed, Opened, Socks, Hosts
<1>6. SentToK >= 0 /\ SentToC >= 0 /\ SentToK \in Int /\ SentToC \in Int
  BY DEF SentToK, SentToC, One
<1>7. One(Has(net["server"], Strangers)) = 0
  BY <1>1, <1>2 DEF One
<1>8. Counts
  BY <1>1, <1>5, <1>6, <1>7 DEF Counts
<1> QED
  BY <1>1, <1>3, <1>4, <1>8 DEF Numbered

-----------------------------------------------------------------------------
(* accept_backlog, which two threads count without a lock.                  *)

\* What the count is off by, and what is known of an update that will be lost: the
\* application is past its dequeue, and wake_up comes, or came, when nobody sleeps.
Unheard == wait_accept.notified \/ rx["server"].pc = "wake_accept"
Backlog ==
  /\ up["server"] # "wild pointer" /\ ~ lost_update =>
       accept_backlog + Uncounted = Len(accept_queue) + Overcounted
  /\ rx["server"].pc = "count_store" /\ backlog_read.rx # accept_backlog => csk # "none"
  /\ app["server"] = "uncount_store" /\ backlog_read.app # accept_backlog => Unheard
  /\ lost_update => csk # "none" /\ Unheard

\* A step that neither thread takes on its way through queue and count.
LEMMA BacklogRests ==
  ASSUME Backlog, UNCHANGED <<accept_queue, counter, csk, wait_accept>>,
         up["server"] = "wild pointer" => up'["server"] = "wild pointer",
         \/ rx'["server"].pc = rx["server"].pc
         \/ rx["server"].pc \notin Announces /\ rx'["server"].pc \notin Announces,
         \/ app'["server"] = app["server"]
         \/ /\ app["server"] \notin {"uncount_load", "uncount_store"}
            /\ app'["server"] \notin {"uncount_load", "uncount_store"}
  PROVE  Backlog'
<1>1. Uncounted' = Uncounted /\ Overcounted' = Overcounted
  BY DEF Uncounted, Overcounted, Pending
<1>2. /\ Unheard => Unheard'
      /\ rx'["server"].pc = "count_store" => rx["server"].pc = "count_store"
      /\ app'["server"] = "uncount_store" => app["server"] = "uncount_store"
  BY DEF Unheard
<1> QED
  BY <1>1, <1>2 DEF Backlog, counter

\* The application before and after tcp_sock_accept_dequeue.
LEMMA BacklogAppRests ==
  ASSUME Inv1, Backlog, NEW h \in Hosts,
         \/ Connect \/ ConnectSleep \/ ConnectWake \/ Listen \/ AcceptTest
         \/ CloseSwitch(h) \/ CloseSetState(h) \/ CloseSendFin(h)
  PROVE  Backlog'
<1>1. TypeOK
  BY DEF Inv1
<1>2. UNCHANGED <<up, accept_queue, counter, csk, wait_accept, rx>>
  BY DEF Connect, ConnectSleep, ConnectWake, Listen, AcceptTest, CloseSwitch, CloseSetState,
         CloseSendFin, queues, waits
<1>3. PICK g \in Hosts : \E p :
                            /\ app' = [app EXCEPT ![g] = p]
                            /\ g = "server" => /\ p \notin {"uncount_load", "uncount_store"}
                                               /\ app[g] \notin {"uncount_load", "uncount_store"}
  <2>1. CASE Connect \/ ConnectSleep \/ ConnectWake
    <3>1. "client" \in Hosts /\ \E p : app' = [app EXCEPT !["client"] = p]
      BY <2>1 DEF Connect, ConnectSleep, ConnectWake, Goto, Hosts
    <3> QED
      BY <3>1
  <2>2. CASE Listen \/ AcceptTest
    <3>1. /\ "server" \in Hosts /\ app["server"] \in {"start", "accept"}
          /\ \E p \in {"accept", "sleep_on", "dequeue"} : app' = [app EXCEPT !["server"] = p]
      BY <2>2 DEF Listen, AcceptTest, Goto, Hosts
    <3> QED
      BY <3>1
  <2>3. CASE CloseSwitch(h) \/ CloseSetState(h) \/ CloseSendFin(h)
    <3>1. /\ app[h] \in {"sleep", "set_state", "send_fin"}
          /\ \E p \in {"set_state", "send_fin", "done"} : app' = [app EXCEPT ![h] = p]
      BY <2>3 DEF CloseSwitch, CloseSetState, CloseSendFin, Goto
    <3> QED
      BY <3>1
  <2> QED
    BY <2>1, <2>2, <2>3
<1>4. \/ app'["server"] = app["server"]
      \/ /\ app["server"] \notin {"uncount_load", "uncount_store"}
         /\ app'["server"] \notin {"uncount_load", "uncount_store"}
  BY <1>1, <1>3 DEF TypeOK, Hosts
<1> QED
  BY <1>2, <1>4, BacklogRests

\* accept sleeps and wakes: it has taken nothing yet.
LEMMA BacklogAcceptWaits ==
  ASSUME Inv1, Backlog, AcceptSleep \/ AcceptWake
  PROVE  Backlog'
<1>1. TypeOK /\ "server" \in Hosts
  BY DEF Inv1, Hosts
<1>2. /\ UNCHANGED <<up, accept_queue, counter, csk, rx>> /\ app["server"] \in {"sleep_on", "blocked"}
      /\ \E p \in {"blocked", "dequeue"} : app' = [app EXCEPT !["server"] = p]
  BY DEF AcceptSleep, AcceptWake, Goto, queues
<1>3. app'["server"] \in {"blocked", "dequeue"}
  BY <1>1, <1>2 DEF TypeOK
<1>4. csk = "none" /\ ~ lost_update
  BY <1>2 DEF Inv1, Accepting, Backlog
<1>5. Uncounted' = Uncounted /\ Overcounted' = Overcounted
  BY <1>2, <1>3 DEF Uncounted, Overcounted, Pending
<1> QED
  BY <1>2, <1>3, <1>4, <1>5 DEF Backlog, counter

\* The dequeue: the count is one ahead of the queue from here on.
LEMMA BacklogDequeue ==
  ASSUME Inv1, Backlog, AcceptDequeue
  PROVE  Backlog'
<1>1. TypeOK /\ "server" \in Hosts /\ csk = "none" /\ ~ lost_update
  BY DEF Inv1, Hosts, Accepting, AcceptDequeue, Backlog
<1>2. /\ UNCHANGED <<counter, wait_accept, rx>> /\ app["server"] = "dequeue"
      /\ app'["server"] = "uncount_load"
  BY <1>1 DEF AcceptDequeue, Goto, waits, TypeOK
<1>3. Uncounted' = Uncounted /\ Overcounted' = 1 /\ Overcounted = 0
  BY <1>2 DEF Uncounted, Overcounted, Pending
<1>4. CASE accept_queue = <<>>
  <2>1. up'["server"] = "wild pointer"
    BY <1>1, <1>4 DEF AcceptDequeue, TypeOK
  <2>2. csk' = csk
    BY <1>4 DEF AcceptDequeue
  <2> QED
    BY <1>1, <1>2, <2>1, <2>2 DEF Backlog, counter
<1>5. CASE accept_queue # <<>>
  <2>1. accept_queue' = Tail(accept_queue) /\ csk' = Head(accept_queue) /\ up' = up
    BY <1>5 DEF AcceptDequeue
  <2>2. accept_queue \in Seq({"C", "X"}) /\ accept_backlog \in Int
    BY <1>1 DEF TypeOK
  <2>3. Len(accept_queue') = Len(accept_queue) - 1 /\ csk' # "none" /\ Len(accept_queue) \in Nat
    BY <1>5, <2>1, <2>2
  <2>4. Uncounted \in Nat
    BY DEF Uncounted, Pending
  <2>5. up'["server"] # "wild pointer" /\ ~ lost_update' =>
          accept_backlog' + Uncounted' = Len(accept_queue') + Overcounted'
    <3>1. SUFFICES ASSUME up["server"] # "wild pointer"
                   PROVE  accept_backlog + Uncounted = Len(accept_queue') + 1
      BY <1>2, <1>3, <2>1 DEF counter
    <3>2. accept_backlog + Uncounted = Len(accept_queue) + Overcounted
      BY <1>1, <3>1 DEF Backlog
    <3> QED
      BY <1>3, <2>2, <2>3, <2>4, <3>2
  <2> QED
    BY <1>1, <1>2, <2>3, <2>5 DEF Backlog, counter
<1> QED
  BY <1>4, <1>5

\* accept_backlog -= 1.
LEMMA BacklogUncount ==
  ASSUME Inv1, Backlog, AcceptUncount
  PROVE  Backlog'
<1>1. /\ TypeOK /\ "server" \in Hosts /\ accept_backlog \in Int /\ backlog_read \in [rx : Int, app : Int]
      /\ accept_queue \in Seq({"C", "X"})
  BY DEF Inv1, TypeOK, Hosts
<1>2. /\ UNCHANGED <<up, wait_accept, csk, rx>> /\ csk # "none"
  BY DEF AcceptUncount, Inv1, Accepting, waits
<1>3. Uncounted' = Uncounted /\ Uncounted \in Nat /\ Len(accept_queue) \in Nat /\ (Unheard <=> Unheard')
  BY <1>1, <1>2 DEF Uncounted, Pending, Unheard
<1>4. CASE app["server"] = "uncount_load"
  <2>1. /\ backlog_read' = [backlog_read EXCEPT !["app"] = accept_backlog]
        /\ UNCHANGED <<accept_queue, accept_backlog, lost_update>>
        /\ app' = [app EXCEPT !["server"] = "uncount_store"]
    BY <1>4 DEF AcceptUncount, LoadBacklog, Goto
  <2>2. app'["server"] = "uncount_store" /\ backlog_read'.app = accept_backlog
    BY <1>1, <2>1 DEF TypeOK
  <2>3. Overcounted' = Overcounted
    BY <1>4, <2>2 DEF Overcounted, Pending
  <2> QED
    BY <1>2, <1>3, <2>1, <2>2, <2>3 DEF Backlog
<1>5. CASE app["server"] = "uncount_store"
  <2>1. /\ accept_backlog' = backlog_read.app + (-1)
        /\ lost_update' = (lost_update \/ backlog_read.app # accept_backlog)
        /\ UNCHANGED <<accept_queue, backlog_read>>
        /\ app' = [app EXCEPT !["server"] = "sleep"]
    BY <1>5 DEF AcceptUncount, StoreBacklog, Goto
  <2>2. app'["server"] = "sleep"
    BY <1>1, <2>1 DEF TypeOK
  <2>3. Overcounted' = 0 /\ Overcounted = 1
    BY <1>5, <2>2 DEF Overcounted, Pending
  <2>4. lost_update' => Unheard
    BY <1>5, <2>1 DEF Backlog
  <2>5. up'["server"] # "wild pointer" /\ ~ lost_update' =>
          accept_backlog' + Uncounted' = Len(accept_queue') + Overcounted'
    <3>1. SUFFICES ASSUME up["server"] # "wild pointer", ~ lost_update'
                   PROVE  accept_backlog' + Uncounted = Len(accept_queue) + 0
      BY <1>2, <1>3, <2>1, <2>3
    <3>2. accept_backlog' = accept_backlog - 1 /\ ~ lost_update
      BY <1>1, <2>1, <3>1
    <3>3. accept_backlog + Uncounted = Len(accept_queue) + 1
      BY <2>3, <3>1, <3>2 DEF Backlog
    <3> QED
      BY <1>1, <1>3, <3>2, <3>3
  <2>6. backlog_read' = backlog_read /\ ~ (rx["server"].pc = "count_store" /\ csk = "none")
    BY <1>2, <2>1
  <2> QED
    BY <1>2, <1>3, <2>2, <2>4, <2>5, <2>6 DEF Backlog
<1> QED
  BY <1>4, <1>5 DEF AcceptUncount

\* accept_backlog += 1.
LEMMA BacklogCount ==
  ASSUME Inv1, Backlog, NEW h \in Hosts, RxCount(h)
  PROVE  Backlog'
<1>1. /\ TypeOK /\ accept_backlog \in Int /\ backlog_read \in [rx : Int, app : Int]
      /\ accept_queue \in Seq({"C", "X"})
  BY DEF Inv1, TypeOK
<1>2. UNCHANGED <<up, wait_accept, csk, app>>
  BY DEF RxCount, waits, appVars
<1>3. h = "server"
  BY DEF RxCount, Inv1, Accepting, Hosts
<1>4. Overcounted' = Overcounted /\ Overcounted \in Nat /\ Len(accept_queue) \in Nat
  BY <1>1, <1>2 DEF Overcounted, Pending
<1>5. CASE rx["server"].pc = "count_load"
  <2>1. /\ backlog_read' = [backlog_read EXCEPT !["rx"] = accept_backlog]
        /\ UNCHANGED <<accept_queue, accept_backlog, lost_update>>
        /\ Then(h, rx[h].sock, "count_store", rx[h].rst)
    BY <1>3, <1>5 DEF RxCount, LoadBacklog
  <2>2. rx'["server"].pc = "count_store"
    BY <1>1, <1>3, <2>1, GoesOn
  <2>3. backlog_read'.rx = accept_backlog /\ backlog_read'.app = backlog_read.app
    BY <1>1, <2>1
  <2>4. Uncounted' = Uncounted /\ (Unheard => Unheard')
    BY <1>2, <1>5, <2>2 DEF Uncounted, Pending, Unheard
  <2> QED
    BY <1>2, <1>4, <2>1, <2>2, <2>3, <2>4 DEF Backlog
<1>6. CASE rx["server"].pc = "count_store"
  <2>1. /\ accept_backlog' = backlog_read.rx + 1
        /\ lost_update' = (lost_update \/ backlog_read.rx # accept_backlog)
        /\ UNCHANGED <<accept_queue, backlog_read>>
        /\ Then(h, rx[h].sock, "wake_accept", rx[h].rst)
    BY <1>3, <1>6 DEF RxCount, StoreBacklog
  <2>2. rx'["server"].pc = "wake_accept" /\ Unheard'
    BY <1>1, <1>3, <2>1, GoesOn DEF Unheard
  <2>3. Uncounted' = 0 /\ Uncounted = 1
    BY <1>6, <2>2 DEF Uncounted, Pending
  <2>4. lost_update' => csk # "none"
    BY <1>6, <2>1 DEF Backlog
  <2>5. up'["server"] # "wild pointer" /\ ~ lost_update' =>
          accept_backlog' + Uncounted' = Len(accept_queue') + Overcounted'
    <3>1. SUFFICES ASSUME up["server"] # "wild pointer", ~ lost_update'
                   PROVE  accept_backlog' + 0 = Len(accept_queue) + Overcounted
      BY <1>2, <1>4, <2>1, <2>3
    <3>2. accept_backlog' = accept_backlog + 1 /\ ~ lost_update
      BY <1>1, <2>1, <3>1
    <3>3. accept_backlog + 1 = Len(accept_queue) + Overcounted
      BY <2>3, <3>1, <3>2 DEF Backlog
    <3> QED
      BY <1>1, <3>2, <3>3
  <2> QED
    BY <1>2, <2>2, <2>4, <2>5 DEF Backlog
<1> QED
  BY <1>3, <1>5, <1>6 DEF RxCount

\* wake_up, unless the structure is dead, leaves notified set.
LEMMA Notifies ==
  ASSUME NEW T, NEW w \in WaitStruct(T), ~ w.dead, NEW v \in wake_up(w)
  PROVE  v.notified
<1> DEFINE n == [w EXCEPT !.notified = TRUE]
<1>1. n \in WaitStruct(T) /\ n.notified
  BY DEF WaitStruct
<1>2. (v = w /\ w.notified) \/ v = n \/ v \in Signal(n)
  BY DEF wake_up
<1> HIDE DEF n
<1>3. ASSUME v \in Signal(n) PROVE v.notified
  <2>1. v = n \/ \E t \in n.waiting : v = [n EXCEPT !.signaled = n.signaled \cup {t}]
    BY <1>3 DEF Signal
  <2> QED
    BY <1>1, <2>1 DEF WaitStruct
<1> QED
  BY <1>1, <1>2, <1>3

\* The wakeup of accept.
LEMMA BacklogWakes ==
  ASSUME Inv1, Backlog, NEW h \in Hosts, RxWakeAccept(h)
  PROVE  Backlog'
<1>1. TypeOK /\ rx[h].pc = "wake_accept" /\ UNCHANGED <<up, accept_queue, counter, csk, app>>
  BY DEF RxWakeAccept, Inv1, queues, appVars
<1>2. h = "server"
  BY <1>1 DEF Inv1, Accepting, Hosts
<1>3. Unheard'
  <2>1. wait_accept \in WaitStruct({"server"}) /\ ~ wait_accept.dead /\ wait_accept' \in wake_up(wait_accept)
    BY <1>1 DEF RxWakeAccept, TypeOK, Inv1, Accepting
  <2>2. wait_accept'.notified
    BY <2>1, Notifies
  <2> QED
    BY <2>2 DEF Unheard
<1>4. rx'["server"].pc \in {"end", "idle"}
  BY <1>1, <1>2, GoesOn DEF RxWakeAccept
<1>5. Uncounted' = Uncounted /\ Overcounted' = Overcounted
  BY <1>1, <1>2, <1>4 DEF Uncounted, Overcounted, Pending
<1> QED
  BY <1>1, <1>3, <1>4, <1>5 DEF Backlog, counter

\* The enqueue: the count is one behind the queue from here on.
LEMMA BacklogEnqueue ==
  ASSUME Inv1, Backlog, NEW h \in Hosts, NEW s \in Socks, RxSynRecv(h, s)
  PROVE  Backlog'
<1>1. /\ TypeOK /\ ArrivesIn(h, s, "SYN_RECV") /\ UNCHANGED <<counter, csk, app, wait_accept>>
  BY DEF RxSynRecv, Inv1, queues, waits, appVars
<1>2. Running(h) /\ rx[h] = RxIdle /\ Host(s) = h /\ s \in Socks /\ sk[s].state = "SYN_RECV"
  BY <1>1, Arrival
<1>3. h = "server" /\ s # "K"
  BY <1>2 DEF Inv1, Roles, Role, Opened, Host
<1>4. CASE ~ HasParent(s)
  <2>1. up' = [up EXCEPT !["server"] = "null pointer"] /\ UNCHANGED <<accept_queue, rx>>
    BY <1>3, <1>4 DEF RxSynRecv, queues
  <2>2. up["server"] # "wild pointer"
    BY <1>2, <1>3 DEF Running
  <2> QED
    BY <1>1, <2>1, <2>2, BacklogRests
<1>5. CASE HasParent(s)
  <2>1. /\ accept_queue' = Append(accept_queue, s) /\ up' = up /\ s \in {"C", "X"}
        /\ Then(h, s, "count_load", HasRst(h))
    BY <1>5 DEF RxSynRecv, HasParent
  <2>2. rx["server"].pc = "idle" /\ rx'["server"].pc = "count_load"
    BY <1>1, <1>2, <1>3, <2>1, GoesOn DEF RxIdle
  <2>3. /\ accept_queue \in Seq({"C", "X"}) /\ accept_backlog \in Int
        /\ Len(accept_queue') = Len(accept_queue) + 1 /\ Len(accept_queue) \in Nat
    <3>1. accept_queue \in Seq({"C", "X"}) /\ accept_backlog \in Int
      BY <1>1 DEF TypeOK
    <3> QED
      BY <2>1, <3>1
  <2>4. /\ Uncounted' = 1 /\ Uncounted = 0 /\ Overcounted' = Overcounted /\ Overcounted \in Nat
    BY <1>1, <2>2 DEF Uncounted, Overcounted, Pending
  <2>5. Unheard => Unheard'
    BY <1>1, <2>2 DEF Unheard
  <2>6. up'["server"] # "wild pointer" /\ ~ lost_update' =>
          accept_backlog' + Uncounted' = Len(accept_queue') + Overcounted'
    <3>1. SUFFICES ASSUME up["server"] # "wild pointer", ~ lost_update
                   PROVE  accept_backlog + 1 = Len(accept_queue') + Overcounted
      BY <1>1, <2>1, <2>4 DEF counter
    <3>2. accept_backlog + Uncounted = Len(accept_queue) + Overcounted
      BY <3>1 DEF Backlog
    <3> QED
      BY <2>3, <2>4, <3>2
  <2> QED
    BY <1>1, <2>1, <2>2, <2>5, <2>6 DEF Backlog, counter
<1> QED
  BY <1>4, <1>5

\* The other steps of the packet threads.
LEMMA BacklogRxRests ==
  ASSUME Inv1, Backlog, NEW h \in Hosts, RxStep(h), ~ RxCount(h), ~ RxWakeAccept(h),
         \A s \in Socks : ~ RxSynRecv(h, s)
  PROVE  Backlog'
<1>1. TypeOK
  BY DEF Inv1
<1>2. UNCHANGED <<accept_queue, counter, csk, app, wait_accept>>
  BY DEF RxStep, RxNoSock, RxUsesFreed, RxClosed, RxListen, RxSynSent, RxEstablished,
         RxFinWait1, RxFinWait2, RxLastAck, RxIgnored, RxWakeConnect, RxCloseWait, RxReset,
         queues, waits, appVars
<1>3. /\ Running(h)
      /\ \/ up' = up
         \/ \E e : up' = [up EXCEPT ![h] = e]
      /\ \/ rx' = rx
         \/ rx[h] = RxIdle /\ \E s, rst : \E p \in {"end", "wake_connect", "close_wait"} : Then(h, s, p, rst)
         \/ rx[h].pc = "end" /\ rx' = [rx EXCEPT ![h] = RxIdle]
         \/ /\ rx[h].pc \in {"wake_connect", "close_wait"}
            /\ \E s, rst : Then(h, s, "end", rst)
  <2>1. CASE RxNoSock(h) \/ RxUsesFreed(h)
    BY <2>1 DEF RxNoSock, RxUsesFreed, Arrives
  <2>2. ASSUME NEW s \in Socks,
               \/ RxClosed(h, s) \/ RxListen(h, s) \/ RxSynSent(h, s)
               \/ RxEstablished(h, s) \/ RxFinWait1(h, s) \/ RxFinWait2(h, s)
               \/ RxLastAck(h, s) \/ RxIgnored(h, s)
        PROVE  /\ Running(h) /\ up' = up /\ rx[h] = RxIdle
               /\ \E rst : \E p \in {"end", "wake_connect", "close_wait"} : Then(h, s, p, rst)
    BY <2>2 DEF RxClosed, RxListen, RxSynSent, RxEstablished, RxFinWait1, RxFinWait2, RxLastAck, RxIgnored,
         ArrivesIn, Arrives
  <2>3. CASE RxWakeConnect(h) \/ RxCloseWait(h)
    BY <2>3 DEF RxWakeConnect, RxCloseWait
  <2>4. CASE RxReset(h)
    BY <2>4 DEF RxReset
  <2> QED
    BY <2>1, <2>2, <2>3, <2>4 DEF RxStep
<1>4. up["server"] = "wild pointer" => up'["server"] = "wild pointer"
  BY <1>1, <1>3 DEF Running, TypeOK, Hosts
<1>5. /\ rx'[Other(h)] = rx[Other(h)]
      /\ (rx'[h].pc = rx[h].pc \/ (rx[h].pc \notin Announces /\ rx'[h].pc \notin Announces))
  <2>1. Other(h) \in Hosts /\ Other(h) # h /\ RxIdle.pc = "idle" /\ DOMAIN rx = Hosts
    BY <1>1, TwoHosts DEF RxIdle, TypeOK
  <2>2. ASSUME NEW s, NEW rst, NEW p \in {"end", "wake_connect", "close_wait"}, Then(h, s, p, rst)
        PROVE  rx'[Other(h)] = rx[Other(h)] /\ rx'[h].pc \notin Announces
    BY <1>1, <2>2, GoesOn
  <2>3. CASE rx' = [rx EXCEPT ![h] = RxIdle] /\ rx[h].pc = "end"
    <3>1. rx'[Other(h)] = rx[Other(h)] /\ rx'[h] = RxIdle
      BY <2>1, <2>3
    <3> QED
      BY <2>1, <2>3, <3>1
  <2> QED
    BY <1>3, <2>1, <2>2, <2>3
<1>6. \/ rx'["server"].pc = rx["server"].pc
      \/ rx["server"].pc \notin Announces /\ rx'["server"].pc \notin Announces
  BY <1>5, TwoHosts DEF Hosts
<1> QED
  BY <1>2, <1>4, <1>6, BacklogRests

\* Every step keeps it.
LEMMA BacklogKept ==
  ASSUME Inv1, Backlog, [Next]_vars
  PROVE  Backlog'
<1>1. ASSUME UNCHANGED <<queues, csk, wait_accept, app, rx>>,
             up["server"] = "wild pointer" => up'["server"] = "wild pointer"
      PROVE  Backlog'
  <2>1. UNCHANGED <<accept_queue, counter>>
    BY <1>1 DEF queues
  <2> QED
    BY <1>1, <2>1, BacklogRests
<1>2. CASE UNCHANGED vars
  BY <1>1, <1>2 DEF vars
<1>3. CASE NetStep
  BY <1>1, <1>3 DEF NetStep, ForeignSyn, Duplicate, waits, appVars
<1>4. ASSUME NEW h \in Hosts, TimerScan(h) PROVE Backlog'
  <2>1. UNCHANGED <<queues, csk, wait_accept, app, rx>>
    BY <1>4 DEF TimerScan, waits, appVars
  <2>2. up' = up \/ (Running(h) /\ up' = [up EXCEPT ![h] = "use after free"])
    BY <1>4 DEF TimerScan
  <2>3. up["server"] = "wild pointer" => up'["server"] = "wild pointer"
    BY <2>2 DEF Running, Inv1, TypeOK, Hosts
  <2> QED
    BY <1>1, <2>1, <2>3
<1>5. ASSUME NEW h \in Hosts, AppStep(h) PROVE Backlog'
  BY <1>5, BacklogAppRests, BacklogAcceptWaits, BacklogDequeue, BacklogUncount DEF AppStep
<1>6. ASSUME NEW h \in Hosts, RxStep(h) PROVE Backlog'
  BY <1>6, BacklogRxRests, BacklogEnqueue, BacklogCount, BacklogWakes
<1> QED
  BY <1>2, <1>3, <1>4, <1>5, <1>6 DEF Next

\* Nothing is queued or counted at the start.
LEMMA BacklogStarts ==
  ASSUME Init PROVE Backlog
<1>1. /\ accept_queue = <<>> /\ accept_backlog = 0 /\ ~ lost_update
      /\ rx["server"].pc = "idle" /\ app["server"] = "start"
  BY DEF Init, RxIdle, Hosts
<1>2. Uncounted = 0 /\ Overcounted = 0 /\ Len(<<>>) = 0
  BY <1>1 DEF Uncounted, Overcounted, Pending
<1> QED
  BY <1>1, <1>2 DEF Backlog

-----------------------------------------------------------------------------
(* The theorems.                                                            *)

\* Where every sock and every packet of the connection is, in every environment:
\* what the other theorems follow from.
THEOREM BothHold ==
  ASSUME ConnAssumption
  PROVE  Spec => [](Inv1 /\ Inv2)
<1>1. Init => Inv1 /\ Inv2
  BY Inv1Starts, Inv2Starts
<1>2. (Inv1 /\ Inv2) /\ [Next]_vars => (Inv1 /\ Inv2)'
  BY BothKept
<1> QED
  BY <1>1, <1>2, PTL DEF Spec

\* In every environment, whatever is duplicated and however the threads
\* interleave, the variables stay in their types.
THEOREM TypeCorrect ==
  ASSUME ConnAssumption
  PROVE  Spec => []TypeOK
<1>1. Inv1 /\ Inv2 => TypeOK
  BY DEF Inv1
<1> QED
  BY <1>1, BothHold, PTL

\* The child sock is in the queue its state calls for, whatever packets arrive, are
\* duplicated or come from another peer, and accept_backlog counts accept_queue but
\* for the updates under way, until one is lost: and none is lost unless the wakeup
\* of that connection finds nobody asleep.
THEOREM QueuesAgree ==
  ASSUME ConnAssumption
  PROVE  Spec => []QueuesConsistent
<1>1. Inv1 /\ Inv2 /\ Backlog => QueuesConsistent
  <2>1. SUFFICES ASSUME Inv1, Backlog PROVE QueuesConsistent
    OBVIOUS
  <2>2. Elements(<<>>) = {} /\ \A s : Elements(<<s>>) = {s}
    BY DEF Elements
  <2>3. /\ up["server"] # "wild pointer" /\ ~ lost_update =>
             accept_backlog + Uncounted = Len(accept_queue) + Overcounted
        /\ lost_update => wait_accept.notified \/ rx["server"].pc = "wake_accept"
    BY <2>1 DEF Backlog, Unheard
  <2>4. CASE NoChild
    BY <2>1, <2>2, <2>3, <2>4 DEF Inv1, Queues, NoChild, QueuesConsistent
  <2>5. ASSUME NEW s \in {"C", "X"}, NEW t \in {"C", "X"}, s # t, OneChild(s, t)
        PROVE  QueuesConsistent
    <3>1. \A x \in {"C", "X"} : x = s \/ sk[x].state = "none"
      BY <2>5 DEF OneChild
    <3>2. Elements(listen_queue) = {x \in {"C", "X"} : sk[x].state = "SYN_RECV"}
      BY <2>2, <2>5, <3>1 DEF OneChild, Opened
    <3>3. /\ Elements(listen_queue) \cap Elements(accept_queue) = {}
          /\ csk \notin Elements(listen_queue) \cup Elements(accept_queue)
      BY <2>2, <2>5 DEF OneChild
    <3> QED
      BY <2>3, <3>2, <3>3 DEF QueuesConsistent
  <2> QED
    BY <2>1, <2>4, <2>5 DEF Inv1, Queues
<1>2. Init => Backlog
  BY BacklogStarts
<1>3. Inv1 /\ Inv2 /\ Backlog /\ [Next]_vars => Backlog'
  BY BacklogKept
<1> QED
  BY <1>1, <1>2, <1>3, BothHold, PTL DEF Spec

\* The sock that accept returns is an established connection, and no sock is
\* released before the application has closed it.
THEOREM AppSockIsValid ==
  ASSUME ConnAssumption
  PROVE  Spec => []AppSockValid
<1>1. Inv1 /\ Inv2 => AppSockValid
  <2>1. SUFFICES ASSUME Inv1 PROVE AppSockValid
    OBVIOUS
  <2>2. ~ env.spurious => up["server"] # "wild pointer"
    BY <2>1 DEF Inv1, Accepting
  <2>3. csk # "none" => sk[csk].state \notin {"none", "LISTEN", "SYN_RECV"}
    BY <2>1 DEF Inv1, Queues, NoChild, OneChild, Opened
  <2>4. ASSUME NEW h \in Hosts, app[h] \in {"sleep", "set_state", "send_fin"}, up[h] = "running"
        PROVE  ~ sk[MySock(h)].freed
    <3>1. MySock(h) \in Socks /\ Host(MySock(h)) = h
      BY <2>1, <2>4, Mine DEF Running
    <3> QED
      BY <2>1, <2>4, <3>1 DEF Inv1, Held, Counted, Late
  <2> QED
    BY <2>2, <2>3, <2>4 DEF AppSockValid
<1> QED
  BY <1>1, BothHold, PTL

\* When no packet is duplicated nobody is reset.
LEMMA AllCounted ==
  ASSUME Inv1, env.dups = 0, NEW s \in Socks
  PROVE  Counted(s)
<1>1. Host(s) \in Hosts
  BY DEF Host, Hosts
<1> QED
  BY <1>1 DEF Inv1, Held, Late

\* ref_cnt counts the tables and the timer list that refer to a sock, when no packet is
\* duplicated: every free_tcp_sock gives back a reference that was taken.
THEOREM RefCountsCover ==
  ASSUME ConnAssumption
  PROVE  Spec => []RefCountCovers
<1>1. Inv1 /\ Inv2 => RefCountCovers
  BY AllCounted DEF RefCountCovers, Counted
<1> QED
  BY <1>1, BothHold, PTL

\* In the environment the programs are meant for, a lookup finds a sock that is alive.
LEMMA LookupFinds ==
  ASSUME Inv1, Inv2, Friendly, NEW h \in Hosts, Arrives(h)
  PROVE  LET s == tcp_sock_lookup(h, Head(net[h]).conn) IN
         s \in Socks /\ ~ sk[s].freed /\ (s = "L" => sk["C"].state = "none")
<1>1. /\ env.dups = 0 /\ Numbered /\ TypeOK /\ net[h] # <<>> /\ env.serverFirst /\ ~ env.foreign
  BY DEF Friendly, Inv1, Inv2, Arrives
<1>2. Head(net[h]) \in Segment
  BY <1>1, Taken
<1>3. \A s \in Socks : ~ sk[s].freed /\ (sk[s].state # "none" => sk[s].hashed # "no")
  BY <1>1, AllCounted DEF Counted
<1>4. \A s \in Socks : sk[s].hashed \in {"no", IF s = "L" THEN "listen" ELSE "established"}
  BY DEF Inv1, Roles, Role
<1>5. CASE h = "client"
  <2>1. sk["K"].state # "none"
    BY <1>1, <1>5 DEF Numbered, Unknown
  <2>2. sk["K"].hashed = "established"
    BY <1>3, <1>4, <2>1 DEF Socks
  <2> QED
    BY <1>3, <1>5, <2>2 DEF tcp_sock_lookup, Socks
<1>6. CASE h = "server"
  <2>1. ~ Has(net["server"], Strangers)
    BY <1>1 DEF Numbered, Stranger
  <2>2. Head(net["server"]) \notin Strangers
    BY <1>1, <1>6, <2>1, TakesOne
  <2>3. Head(net["server"]).conn = "k"
    BY <1>2, <1>6, <2>2 DEF Strangers, Segment
  <2>4. sk["K"].state # "none"
    <3>1. 1 \in DOMAIN net["server"] /\ Head(net["server"]) = net["server"][1]
      BY <1>1, <1>6, Taken
    <3> QED
      BY <1>1, <2>2, <3>1 DEF Numbered, Unknown
  <2>5. sk["L"].state # "none"
    BY <1>1, <2>4 DEF Inv1, Accepting
  <2>6. sk["L"].hashed = "listen"
    BY <1>3, <1>4, <2>5 DEF Socks
  <2>7. sk["C"].state # "none" => sk["C"].hashed = "established"
    BY <1>3, <1>4 DEF Socks
  <2> QED
    BY <1>3, <1>6, <2>3, <2>6, <2>7 DEF tcp_sock_lookup, Child, Socks
<1> QED
  BY <1>5, <1>6 DEF Hosts

\* There no scan of the timer list uses what it has released: K is in the established
\* table still.
LEMMA ScanIsSafe ==
  ASSUME Inv1, env.dups = 0, NEW h \in Hosts, NEW s \in OnTimer(h)
  PROVE  ~ ScanUsesFreed(s)
<1>1. s \in Socks /\ sk[s].timer > 0 /\ Counted(s)
  BY AllCounted DEF OnTimer
<1>2. sk[s] \in Sock
  BY <1>1 DEF Inv1, TypeOK
<1>3. sk[s].state = "TIME_WAIT"
  BY <1>1 DEF Inv1, Roles, Role
<1>4. sk[s].hashed # "no" /\ ~ sk[s].freed /\ sk[s].ref_cnt >= References(sk[s])
  BY <1>1, <1>3 DEF Counted
<1>5. CASE sk[s].bound
  <2>1. sk[s].ref_cnt >= 3 /\ sk[s].ref_cnt \in Int
    BY <1>1, <1>2, <1>4, <1>5 DEF References, Sock
  <2> DEFINE r == [sk[s] EXCEPT !.bound = FALSE]
  <2>2. r.ref_cnt = sk[s].ref_cnt
    BY <1>2 DEF Sock
  <2>3. tcp_bind_unhash(sk[s]) = free_tcp_sock(r)
    BY <1>5 DEF tcp_bind_unhash
  <2> HIDE DEF r
  <2>4. Looks(r, r.state, r.hashed, r.bound, r.ref_cnt, r.timer, r.freed)
    BY <1>2 DEF r, Looks, Sock
  <2>5. free_tcp_sock(r).freed = (r.ref_cnt - 1 <= 0)
    BY <2>4, Released DEF Looks
  <2>6. ~ (r.ref_cnt - 1 <= 0)
    BY <2>1, <2>2
  <2>7. ~ tcp_bind_unhash(sk[s]).freed
    BY <2>3, <2>5, <2>6, Zenon
  <2> QED
    BY <1>4, <2>7 DEF ScanUsesFreed
<1>6. CASE ~ sk[s].bound
  BY <1>4, <1>6 DEF ScanUsesFreed, tcp_bind_unhash
<1> QED
  BY <1>5, <1>6

\* A step of one of the hosts does not end it.
LEMMA SurvivesStep ==
  ASSUME Inv1, Inv2, Friendly, NEW h \in Hosts, AppStep(h) \/ RxStep(h) \/ TimerScan(h)
  PROVE  up' = up
<1>1. env.dups = 0 /\ ~ env.spurious
  BY DEF Friendly
<1>2. CASE AppStep(h)
  <2>1. CASE AcceptDequeue
    <3>1. accept_queue # <<>>
      BY <1>1, <2>1 DEF Inv1, Accepting, AcceptDequeue
    <3> QED
      BY <2>1, <3>1 DEF AcceptDequeue
  <2>2. CASE ~ AcceptDequeue
    BY <1>2, <2>2 DEF AppStep, Connect, ConnectSleep, ConnectWake, Listen, AcceptTest, AcceptSleep,
                      AcceptWake, AcceptUncount, CloseSwitch, CloseSetState, CloseSendFin
  <2> QED
    BY <2>1, <2>2
<1>3. CASE RxStep(h)
  <2>1. CASE RxNoSock(h)
    BY <2>1, LookupFinds DEF RxNoSock, Socks
  <2>2. CASE RxUsesFreed(h)
    BY <2>2, LookupFinds DEF RxUsesFreed
  <2>3. ASSUME NEW s \in Socks, RxSynRecv(h, s) PROVE up' = up
    <3>1. /\ ArrivesIn(h, s, "SYN_RECV") /\ s = tcp_sock_lookup(h, Head(net[h]).conn) /\ Arrives(h)
          /\ sk[s].state = "SYN_RECV"
      BY <2>3 DEF RxSynRecv, ArrivesIn
    <3>2. s # "L"
      <4>1. sk["X"].state = "none"
        BY <1>1 DEF Friendly, Inv2, Numbered, Stranger
      <4>2. s = "L" => sk["C"].state # "none"
        <5>1. NoChild \/ OneChild("C", "X") \/ OneChild("X", "C")
          BY DEF Inv1, Queues
        <5>2. s = "L" => ~ NoChild
          BY <3>1 DEF NoChild
        <5>3. ~ OneChild("X", "C")
          BY <4>1 DEF OneChild, Opened
        <5>4. OneChild("C", "X") => sk["C"].state # "none"
          BY DEF OneChild, Opened
        <5> QED
          BY <5>1, <5>2, <5>3, <5>4
      <4>3. s = "L" => sk["C"].state = "none"
        BY <3>1, LookupFinds
      <4> QED
        BY <4>2, <4>3
    <3>3. s # "K"
      BY <3>1 DEF Inv1, Roles, Role, Opened, Socks
    <3> QED
      BY <2>3, <3>2, <3>3 DEF RxSynRecv, HasParent, Socks
  <2>4. CASE RxReset(h)
    BY <1>1, <2>4, NoReset DEF RxReset
  <2>5. CASE RxWakeConnect(h) \/ RxCount(h) \/ RxWakeAccept(h) \/ RxCloseWait(h)
    BY <2>5 DEF RxWakeConnect, RxCount, RxWakeAccept, RxCloseWait
  <2>6. ASSUME NEW s \in Socks,
               \/ RxClosed(h, s) \/ RxListen(h, s) \/ RxSynSent(h, s) \/ RxEstablished(h, s)
               \/ RxFinWait1(h, s) \/ RxFinWait2(h, s) \/ RxLastAck(h, s) \/ RxIgnored(h, s)
        PROVE  up' = up
    BY <2>6 DEF RxClosed, RxListen, RxSynSent, RxEstablished, RxFinWait1, RxFinWait2, RxLastAck, RxIgnored
  <2> QED
    BY <1>3, <2>1, <2>2, <2>3, <2>4, <2>5, <2>6 DEF RxStep
<1>4. CASE TimerScan(h)
  BY <1>1, <1>4, ScanIsSafe DEF TimerScan
<1> QED
  BY <1>2, <1>3, <1>4

\* The environment does not change.
LEMMA SameEnv ==
  ASSUME [Next]_vars
  PROVE  env' = env
<1>1. CASE UNCHANGED vars
  BY <1>1 DEF vars
<1>2. ASSUME NEW h \in Hosts, AppStep(h) PROVE env' = env
  BY <1>2 DEF AppStep, Connect, ConnectSleep, ConnectWake, Listen, AcceptTest, AcceptSleep,
              AcceptWake, AcceptDequeue, AcceptUncount, CloseSwitch, CloseSetState, CloseSendFin
<1>3. ASSUME NEW h \in Hosts, RxStep(h) PROVE env' = env
  BY <1>3 DEF RxStep, RxNoSock, RxUsesFreed, RxClosed, RxListen, RxSynSent, RxSynRecv, RxEstablished,
         RxFinWait1, RxFinWait2, RxLastAck, RxIgnored, RxWakeConnect, RxCount, RxWakeAccept, RxCloseWait, RxReset
<1>4. ASSUME NEW h \in Hosts, TimerScan(h) PROVE env' = env
  BY <1>4 DEF TimerScan
<1>5. CASE NetStep
  BY <1>5 DEF NetStep, ForeignSyn, Duplicate
<1> QED
  BY <1>1, <1>2, <1>3, <1>4, <1>5 DEF Next

\* When the server listens first, no packet is duplicated, no other peer connects and
\* no wait ends without a signal, neither stack exits, follows a bad pointer or uses
\* freed memory, however the threads interleave and whichever side closes first.
THEOREM HostsDoSurvive ==
  ASSUME ConnAssumption
  PROVE  Spec => []HostsSurvive
<1>1. Init => HostsSurvive
  BY DEF Init, HostsSurvive
<1>2. Inv1 /\ Inv2 /\ HostsSurvive /\ [Next]_vars => HostsSurvive'
  <2>0. [Next]_vars => env' = env
    BY SameEnv
  <2> SUFFICES ASSUME Inv1, Inv2, HostsSurvive, [Next]_vars, Friendly' PROVE up' = up
    BY <2>0 DEF HostsSurvive, Friendly
  <2>1. Friendly
    BY <2>0 DEF Friendly
  <2>2. CASE UNCHANGED vars
    BY <2>2 DEF vars
  <2>3. CASE \E h \in Hosts : AppStep(h) \/ RxStep(h) \/ TimerScan(h)
    BY <2>1, <2>3, SurvivesStep
  <2>4. CASE NetStep
    BY <2>4 DEF NetStep, ForeignSyn, Duplicate
  <2> QED
    BY <2>2, <2>3, <2>4 DEF Next
<1> QED
  BY <1>1, <1>2, BothHold, PTL DEF Spec

-----------------------------------------------------------------------------
(* The closes of a shutdown that do not race.                               *)

\* The server's close starts when the client is done and its FIN has been taken;
\* what a thread is about to write follows from the state it will overwrite.
ServerPast == app["server"] \in {"set_state", "send_fin", "done"}

InOrder ==
  /\ ServerPast => app["client"] = "done" /\ ~ Carries("server", "FIN") /\ rx["server"].pc # "close_wait"
  /\ \A h \in Hosts :
       /\ rx[h].pc = "close_wait" => sk[rx[h].sock].state = "ESTABLISHED"
       /\ app[h] = "set_state" => closeTo[h] = CloseBranch(sk[MySock(h)].state)

Orderly == env.timely /\ env.dups = 0 => InOrder

\* What the packet threads send has no FIN.
LEMMA NoFinSent ==
  ASSUME ConnAssumption, Inv1, env.dups = 0, NEW h \in Hosts, RxStep(h), NEW o \in Hosts, Carries(o, "FIN")'
  PROVE  Carries(o, "FIN")
<1>1. TypeOK /\ "FIN" \in Flags
  BY DEF Inv1, Flags
<1>2. CASE net' = net
  BY <1>2 DEF Carries
<1>3. CASE net[h] # <<>> /\ net' = Rest(h)
  BY <1>1, <1>3, Taking
<1>4. ASSUME net[h] # <<>>, NEW g \in Segment, net' = Emit(Rest(h), h, g), "FIN" \notin g.flags
      PROVE  Carries(o, "FIN")
  <2>1. PICK n : n = Rest(h)
    OBVIOUS
  <2>2. Carries(o, "FIN")' => Carries(o, "FIN") \/ (o = Other(h) /\ "FIN" \in g.flags)
    BY <1>1, <1>4, <2>1, Sending
  <2> QED
    BY <1>4, <2>2
<1>5. ASSUME NEW s \in Socks, NEW r, r = [sk[s] EXCEPT !.rcv_nxt = SeqInc(Head(net[h]).seq)],
             net[h] # <<>>, net' = Emit(Rest(h), h, ControlPacket(s, r, {"ACK"}))
      PROVE  Carries(o, "FIN")
  <2> DEFINE g == ControlPacket(s, r, {"ACK"})
  <2>1. Head(net[h]) \in Segment
    BY <1>1, <1>5, Taken
  <2>2. sk[s] \in Sock /\ SeqInc(Head(net[h]).seq) \in SeqNo
    BY <1>1, <2>1, SeqNoRange DEF TypeOK, Segment
  <2>3. r \in Sock /\ {"ACK"} \in SUBSET Flags
    BY <1>5, <2>2 DEF Sock, Flags
  <2>4. g \in Segment /\ g.flags = {"ACK"}
    BY <2>3, Controls
  <2>5. net' = Emit(Rest(h), h, g)
    BY <1>5
  <2> HIDE DEF g
  <2> QED
    BY <1>4, <1>5, <2>4, <2>5
<1>6. ASSUME NEW s \in Socks, RxSynSent(h, s) \/ RxEstablished(h, s) \/ RxFinWait2(h, s)
      PROVE  Carries(o, "FIN")
  <2>1. net[h] # <<>>
    BY <1>6 DEF RxSynSent, RxEstablished, RxFinWait2, ArrivesIn, Arrives
  <2>2. \/ net' = Rest(h)
        \/ net' = Emit(Rest(h), h, ControlPacket(s, [sk[s] EXCEPT !.rcv_nxt = SeqInc(Head(net[h]).seq)], {"ACK"}))
    BY <1>6 DEF RxSynSent, RxEstablished, RxFinWait2
  <2> QED
    BY <1>3, <1>5, <2>1, <2>2
<1>7. ASSUME NEW s \in Socks, RxClosed(h, s) PROVE Carries(o, "FIN")
  <2>1. net[h] # <<>> /\ net' = Emit(Rest(h), h, ResetPacket(Head(net[h])))
    BY <1>7 DEF RxClosed, ArrivesIn, Arrives
  <2>2. Head(net[h]) \in Segment
    BY <1>1, <2>1, Taken
  <2>3. PICK g \in Segment : g = ResetPacket(Head(net[h])) /\ g.flags = {"RST", "ACK"}
    BY <2>2, Resets
  <2> QED
    BY <1>4, <2>1, <2>3
<1>8. ASSUME NEW s \in Socks, RxListen(h, s) PROVE Carries(o, "FIN")
  <2>1. net[h] # <<>>
    BY <1>8 DEF RxListen, ArrivesIn, Arrives
  <2>2. PICK n \in {"C", "X"}, l \in Sock, a \in Sock, c \in Sock :
                /\ n = Child(Head(net[h]).conn) /\ sk["L"].ref_cnt \in Int
                /\ sk'["L"] = l /\ sk'[n] = a /\ \A x \in Socks \ {"L", n} : sk'[x] = sk[x]
                /\ l.state = "SYN_RECV" /\ l.timer = sk["L"].timer /\ l.hashed = sk["L"].hashed
                /\ l.bound = sk["L"].bound /\ l.ref_cnt = sk["L"].ref_cnt /\ l.freed = sk["L"].freed
                /\ a.state = "SYN_RECV" /\ a.timer = sk["L"].timer /\ a.hashed = "established"
                /\ a.bound = FALSE /\ a.ref_cnt = sk["L"].ref_cnt + 1 /\ a.freed = sk["L"].freed
                /\ listen_queue' = Append(listen_queue, n)
                /\ net' = Emit(Rest(h), h, ControlPacket(n, c, {"SYN", "ACK"}))
    <3>1. MakesChild(h)
      BY <1>8, RxListenDoes
    <3> QED
      BY <3>1, Zenon DEF MakesChild
  <2>3. {"SYN", "ACK"} \in SUBSET Flags /\ n \in Socks
    BY DEF Flags, Socks
  <2>4. PICK g \in Segment : g = ControlPacket(n, c, {"SYN", "ACK"}) /\ g.flags = {"SYN", "ACK"}
    BY <2>3, Controls
  <2> QED
    BY <1>4, <2>1, <2>2, <2>4
<1>9. ASSUME NEW s \in Socks,
             RxSynRecv(h, s) \/ RxFinWait1(h, s) \/ RxLastAck(h, s) \/ RxIgnored(h, s)
      PROVE  Carries(o, "FIN")
  <2>1. net[h] # <<>> /\ net' = Rest(h)
    BY <1>9 DEF RxSynRecv, RxFinWait1, RxLastAck, RxIgnored, ArrivesIn, Arrives
  <2> QED
    BY <1>3, <2>1
<1>10. CASE RxNoSock(h)
  BY <1>3, <1>10 DEF RxNoSock, Arrives
<1>11. CASE RxUsesFreed(h) \/ RxWakeConnect(h) \/ RxCount(h) \/ RxWakeAccept(h) \/ RxCloseWait(h)
  BY <1>2, <1>11 DEF RxUsesFreed, RxWakeConnect, RxCount, RxWakeAccept, RxCloseWait
<1>12. ~ RxReset(h)
  BY NoReset DEF RxReset
<1> QED
  BY <1>6, <1>7, <1>8, <1>9, <1>10, <1>11, <1>12 DEF RxStep

\* The packet thread is about to write CLOSE_WAIT only after a FIN has come.
LEMMA FinTakenInEstablished ==
  ASSUME Inv1, env.dups = 0, NEW h \in Hosts, RxStep(h)
  PROVE  /\ rx'[Other(h)] = rx[Other(h)]
         /\ rx'[h].pc = "close_wait" =>
              /\ Carries(h, "FIN") /\ sk'[rx'[h].sock].state = "ESTABLISHED"
<1>1. TypeOK
  BY DEF Inv1
<1>2. ASSUME NEW s \in Socks, RxEstablished(h, s)
      PROVE  /\ rx'[Other(h)] = rx[Other(h)]
             /\ rx'[h].pc = "close_wait" =>
                  /\ Carries(h, "FIN") /\ sk'[rx'[h].sock].state = "ESTABLISHED"
  <2>1. /\ sk[s].state = "ESTABLISHED" /\ sk[s] \in Sock
        /\ "FIN" \in Head(net[h]).flags => Carries(h, "FIN")
    <3>1. ArrivesIn(h, s, "ESTABLISHED")
      BY <1>2 DEF RxEstablished
    <3>2. sk[s].state = "ESTABLISHED" /\ \A f \in Flags : f \in Head(net[h]).flags => Carries(h, f)
      BY <1>1, <3>1, Arrival
    <3> QED
      BY <1>1, <3>2 DEF TypeOK, Flags
  <2>2. CASE "FIN" \in Head(net[h]).flags
    <3> DEFINE r == [sk[s] EXCEPT !.rcv_nxt = SeqInc(Head(net[h]).seq)]
    <3>1. sk' = [sk EXCEPT ![s] = r] /\ Then(h, s, "close_wait", HasRst(h))
      BY <1>2, <2>2 DEF RxEstablished
    <3>2. r.state = "ESTABLISHED" /\ "state" \in DOMAIN r
      BY <2>1 DEF Sock
    <3>3. sk'[s].state = "ESTABLISHED"
      BY <1>1, <3>1, <3>2, Written
    <3>4. rx' = [rx EXCEPT ![h] = [pc |-> "close_wait", sock |-> s, rst |-> HasRst(h)]]
      BY <3>1 DEF Then
    <3>5. rx'[h].sock = s /\ rx'[Other(h)] = rx[Other(h)]
      <4>1. rx \in [Hosts -> [pc : RxPcs, sock : Socks \cup {"none"}, rst : BOOLEAN]]
        BY <1>1 DEF TypeOK
      <4> QED
        BY <3>4, <4>1, TwoHosts
    <3> QED
      BY <2>1, <2>2, <3>3, <3>5
  <2>3. CASE "FIN" \notin Head(net[h]).flags
    <3>1. Then(h, s, "end", HasRst(h))
      BY <1>2, <2>3 DEF RxEstablished
    <3> QED
      BY <1>1, <3>1, GoesOn
  <2> QED
    BY <2>2, <2>3
<1>3. ASSUME NEW s, NEW p \in {"end", "wake_connect", "count_load", "count_store", "wake_accept"},
             NEW rst, Then(h, s, p, rst)
      PROVE  rx'[Other(h)] = rx[Other(h)] /\ rx'[h].pc # "close_wait"
  BY <1>1, <1>3, GoesOn
<1>4. CASE RxNoSock(h) \/ RxUsesFreed(h)
  <2>1. rx' = rx /\ rx[h] = RxIdle
    BY <1>4 DEF RxNoSock, RxUsesFreed, Arrives
  <2> QED
    BY <2>1 DEF RxIdle
<1>5. CASE RxWakeConnect(h) \/ RxCount(h) \/ RxWakeAccept(h) \/ RxCloseWait(h)
  BY <1>3, <1>5 DEF RxWakeConnect, RxCount, RxWakeAccept, RxCloseWait
<1>6. ~ RxReset(h)
  BY NoReset DEF RxReset
<1>7. ASSUME NEW s \in Socks, RxSynRecv(h, s)
      PROVE  rx'[Other(h)] = rx[Other(h)] /\ rx'[h].pc # "close_wait"
  <2>1. CASE HasParent(s)
    BY <1>3, <1>7, <2>1 DEF RxSynRecv
  <2>2. CASE ~ HasParent(s)
    <3>1. rx' = rx /\ rx[h] = RxIdle
      BY <1>7, <2>2 DEF RxSynRecv, ArrivesIn, Arrives
    <3> QED
      BY <3>1 DEF RxIdle
  <2> QED
    BY <2>1, <2>2
<1>8. ASSUME NEW s \in Socks, RxSynSent(h, s)
      PROVE  rx'[Other(h)] = rx[Other(h)] /\ rx'[h].pc # "close_wait"
  <2>1. Then(h, s, "wake_connect", FALSE) \/ Then(h, s, "end", HasRst(h))
    BY <1>8 DEF RxSynSent
  <2> QED
    BY <1>3, <2>1
<1>9. ASSUME NEW s \in Socks, RxListen(h, s)
      PROVE  rx'[Other(h)] = rx[Other(h)] /\ rx'[h].pc # "close_wait"
  BY <1>3, <1>9 DEF RxListen
<1>10. ASSUME NEW s \in Socks,
              RxClosed(h, s) \/ RxFinWait1(h, s) \/ RxFinWait2(h, s) \/ RxLastAck(h, s) \/ RxIgnored(h, s)
      PROVE  rx'[Other(h)] = rx[Other(h)] /\ rx'[h].pc # "close_wait"
  BY <1>3, <1>10 DEF RxClosed, RxFinWait1, RxFinWait2, RxLastAck, RxIgnored
<1> QED
  BY <1>2, <1>4, <1>5, <1>6, <1>7, <1>8, <1>9, <1>10 DEF RxStep

\* Changes of state that are on the diagram, and not those of a sock that may be closed.
Smooth == \A s \in Socks :
  \/ sk'[s].state = sk[s].state
  \/ <<sk[s].state, sk'[s].state>> \in Diagram /\ sk[s].state \notin {"ESTABLISHED", "CLOSE_WAIT"}

\* A change of one sock.
LEMMA OneSmooth ==
  ASSUME TypeOK, NEW s \in Socks, NEW r, "state" \in DOMAIN r, sk' = [sk EXCEPT ![s] = r],
         NEW st, sk[s].state = st, NEW to, r.state = to, st # "ESTABLISHED", st # "CLOSE_WAIT",
         to = st \/ <<st, to>> \in Diagram
  PROVE  Smooth
<1>1. sk'[s].state = to /\ \A x \in Socks \ {s} : sk'[x] = sk[x]
  BY Written
<1>2. <<sk[s].state, sk'[s].state>> = <<st, to>>
  BY <1>1
<1> QED
  BY <1>1, <1>2 DEF Smooth

\* The packet thread, but for its write of CLOSE_WAIT.
LEMMA RxSmooth ==
  ASSUME ConnAssumption, Inv1, env.dups = 0, NEW h \in Hosts, RxStep(h), ~ RxCloseWait(h)
  PROVE  Smooth
<1>1. TypeOK
  BY DEF Inv1
<1>2. ~ RxReset(h)
  BY NoReset DEF RxReset
<1>3. CASE sk' = sk
  BY <1>3 DEF Smooth
<1>4. ASSUME NEW s \in Socks, NEW st, ArrivesIn(h, s, st), NEW r, "state" \in DOMAIN r,
             sk' = [sk EXCEPT ![s] = r], r.state = st
      PROVE  Smooth
  <2>1. sk[s].state = st
    BY <1>1, <1>4, Arrival
  <2>2. sk'[s].state = st /\ \A x \in Socks \ {s} : sk'[x] = sk[x]
    BY <1>1, <1>4, Written
  <2> QED
    BY <2>1, <2>2 DEF Smooth
<1>5. ASSUME NEW s \in Socks, NEW st, ArrivesIn(h, s, st), NEW r, "state" \in DOMAIN r,
             sk' = [sk EXCEPT ![s] = r], NEW to, r.state = to, <<st, to>> \in Diagram,
             st # "ESTABLISHED", st # "CLOSE_WAIT"
      PROVE  Smooth
  <2>1. sk[s].state = st
    BY <1>1, <1>5, Arrival
  <2> QED
    BY <1>1, <1>5, <2>1, OneSmooth
<1>6. \A s \in Socks : sk[s] \in Sock
  BY <1>1 DEF TypeOK
<1>7. ASSUME NEW s \in Socks, RxSynSent(h, s) PROVE Smooth
  <2> DEFINE r == [[sk[s] EXCEPT !.rcv_nxt = SeqInc(Head(net[h]).seq)] EXCEPT !.state = "ESTABLISHED"]
  <2>1. CASE Head(net[h]).flags = {"SYN", "ACK"}
    <3>1. sk' = [sk EXCEPT ![s] = r] /\ ArrivesIn(h, s, "SYN_SENT")
      BY <1>7, <2>1 DEF RxSynSent
    <3>2. "state" \in DOMAIN r /\ r.state = "ESTABLISHED"
      BY <1>6 DEF Sock
    <3>3. <<"SYN_SENT", "ESTABLISHED">> \in Diagram
      BY DEF Diagram
    <3> HIDE DEF r
    <3> QED
      BY <1>5, <3>1, <3>2, <3>3
  <2> QED
    BY <1>3, <1>7, <2>1 DEF RxSynSent
<1>8. ASSUME NEW s \in Socks, RxEstablished(h, s) PROVE Smooth
  <2> DEFINE r == [sk[s] EXCEPT !.rcv_nxt = SeqInc(Head(net[h]).seq)]
  <2>1. CASE "FIN" \in Head(net[h]).flags
    <3>1. sk' = [sk EXCEPT ![s] = r] /\ ArrivesIn(h, s, "ESTABLISHED")
      BY <1>8, <2>1 DEF RxEstablished
    <3>2. sk[s].state = "ESTABLISHED"
      BY <1>1, <3>1, Arrival
    <3>3. "state" \in DOMAIN r /\ r.state = "ESTABLISHED"
      BY <1>6, <3>2 DEF Sock
    <3> HIDE DEF r
    <3> QED
      BY <1>4, <3>1, <3>3
  <2> QED
    BY <1>3, <1>8, <2>1 DEF RxEstablished
<1>9. ASSUME NEW s \in Socks, RxFinWait2(h, s) PROVE Smooth
  <2> DEFINE r == [[sk[s] EXCEPT !.rcv_nxt = SeqInc(Head(net[h]).seq)] EXCEPT !.state = "TIME_WAIT",
                           !.timer = TimeWaitScans, !.ref_cnt = @ + 1]
  <2>1. CASE "FIN" \in Head(net[h]).flags
    <3>1. sk' = [sk EXCEPT ![s] = r] /\ ArrivesIn(h, s, "FIN_WAIT_2")
      BY <1>9, <2>1 DEF RxFinWait2
    <3>2. "state" \in DOMAIN r /\ r.state = "TIME_WAIT"
      BY <1>6 DEF Sock
    <3>3. <<"FIN_WAIT_2", "TIME_WAIT">> \in Diagram
      BY DEF Diagram
    <3> HIDE DEF r
    <3> QED
      BY <1>5, <3>1, <3>2, <3>3
  <2> QED
    BY <1>3, <1>9, <2>1 DEF RxFinWait2
<1>10. ASSUME NEW s \in Socks, NEW st, NEW to, ArrivesIn(h, s, st), sk' = [sk EXCEPT ![s].state = to],
              <<st, to>> \in Diagram, st # "ESTABLISHED", st # "CLOSE_WAIT"
       PROVE  Smooth
  <2> DEFINE r == [sk[s] EXCEPT !.state = to]
  <2>1. "state" \in DOMAIN r /\ r.state = to
    BY <1>6 DEF Sock
  <2>2. sk' = [sk EXCEPT ![s] = r]
    BY <1>10
  <2> HIDE DEF r
  <2> QED
    BY <1>5, <1>10, <2>1, <2>2
<1>11. ASSUME NEW s \in Socks, RxSynRecv(h, s) \/ RxFinWait1(h, s) \/ RxLastAck(h, s) PROVE Smooth
  <2>1. /\ <<"SYN_RECV", "ESTABLISHED">> \in Diagram /\ <<"FIN_WAIT_1", "FIN_WAIT_2">> \in Diagram
        /\ <<"LAST_ACK", "CLOSED">> \in Diagram
    BY DEF Diagram
  <2>2. CASE RxSynRecv(h, s)
    BY <1>10, <2>1, <2>2 DEF RxSynRecv
  <2>3. CASE RxFinWait1(h, s)
    BY <1>3, <1>10, <2>1, <2>3 DEF RxFinWait1
  <2>4. CASE RxLastAck(h, s)
    BY <1>3, <1>10, <2>1, <2>4 DEF RxLastAck
  <2> QED
    BY <1>11, <2>2, <2>3, <2>4
<1>12. ASSUME NEW s \in Socks, RxListen(h, s) PROVE Smooth
  <2>1. MakesChild(h) /\ NoChild /\ sk["L"].state = "LISTEN"
    BY <1>12, RxListenDoes
  <2>2. PICK n \in {"C", "X"}, l \in Sock, a \in Sock, c \in Sock :
          /\ n = Child(Head(net[h]).conn) /\ sk["L"].ref_cnt \in Int
          /\ sk'["L"] = l /\ sk'[n] = a /\ \A x \in Socks \ {"L", n} : sk'[x] = sk[x]
          /\ l.state = "SYN_RECV" /\ l.timer = sk["L"].timer /\ l.hashed = sk["L"].hashed
          /\ l.bound = sk["L"].bound /\ l.ref_cnt = sk["L"].ref_cnt /\ l.freed = sk["L"].freed
          /\ a.state = "SYN_RECV" /\ a.timer = sk["L"].timer /\ a.hashed = "established"
          /\ a.bound = FALSE /\ a.ref_cnt = sk["L"].ref_cnt + 1 /\ a.freed = sk["L"].freed
          /\ listen_queue' = Append(listen_queue, n)
          /\ net' = Emit(Rest(h), h, ControlPacket(n, c, {"SYN", "ACK"}))
    BY <2>1, Zenon DEF MakesChild
  <2>3. sk[n].state = "none" /\ sk'["L"].state = "SYN_RECV" /\ sk'[n].state = "SYN_RECV"
    BY <2>1, <2>2 DEF NoChild
  <2>4. <<"LISTEN", "SYN_RECV">> \in Diagram /\ <<"none", "SYN_RECV">> \in Diagram
    BY DEF Diagram
  <2> QED
    BY <2>1, <2>2, <2>3, <2>4 DEF Smooth
<1>13. CASE \/ RxNoSock(h) \/ RxUsesFreed(h) \/ RxWakeConnect(h) \/ RxCount(h) \/ RxWakeAccept(h)
            \/ \E s \in Socks : RxClosed(h, s) \/ RxIgnored(h, s)
  BY <1>3, <1>13 DEF RxNoSock, RxUsesFreed, RxWakeConnect, RxCount, RxWakeAccept, RxClosed, RxIgnored
<1> QED
  BY <1>2, <1>7, <1>8, <1>9, <1>11, <1>12, <1>13 DEF RxStep

\* The timer thread and the applications, but for the write of close.
LEMMA AppAndTimerSmooth ==
  ASSUME ConnAssumption, Inv1, NEW h \in Hosts, TimerScan(h) \/ (AppStep(h) /\ ~ CloseSetState(h))
  PROVE  Smooth
<1>1. TypeOK
  BY DEF Inv1
<1>2. CASE sk' = sk
  BY <1>2 DEF Smooth
<1>3. CASE TimerScan(h) /\ sk' # sk
  <2>1. sk' = [s \in Socks |-> IF s \in OnTimer(h) THEN Scan(s) ELSE sk[s]]
    BY <1>3 DEF TimerScan
  <2>2. ASSUME NEW s \in Socks
        PROVE  \/ sk'[s] = sk[s]
               \/ sk[s].state = "TIME_WAIT" /\ sk'[s].state \in {"TIME_WAIT", "CLOSED"}
    <3>1. CASE s \in OnTimer(h)
      <4>1. sk[s].timer > 0 /\ sk'[s] = Scan(s)
        BY <2>1, <3>1 DEF OnTimer
      <4>2. sk[s].state = "TIME_WAIT"
        BY <4>1 DEF Inv1, Roles, Role
      <4>3. Scan(s).state \in {"TIME_WAIT", "CLOSED"}
        BY <1>1, <4>1, <4>2, Scanned
      <4> QED
        BY <4>1, <4>2, <4>3
    <3>2. CASE s \notin OnTimer(h)
      BY <2>1, <3>2
    <3> QED
      BY <3>1, <3>2
  <2>3. <<"TIME_WAIT", "CLOSED">> \in Diagram
    BY DEF Diagram
  <2> QED
    BY <2>2, <2>3 DEF Smooth
<1>4. CASE Connect
  <2>1. sk'["K"].state = "SYN_SENT" /\ \A x \in Socks \ {"K"} : sk'[x] = sk[x]
    BY <1>4, ConnectDoes DEF Looks
  <2>2. sk["K"].state = "none"
    BY <1>4 DEF Inv1, Accepting, Connect
  <2>3. <<"none", "SYN_SENT">> \in Diagram
    BY DEF Diagram
  <2> QED
    BY <2>1, <2>2, <2>3 DEF Smooth
<1>5. CASE Listen
  <2> DEFINE r == tcp_hash([tcp_bind_hash(alloc_tcp_sock(ServerISS)) EXCEPT !.state = "LISTEN"])
  <2>1. "state" \in DOMAIN r /\ r.state = "LISTEN"
    BY DEF tcp_hash, tcp_bind_hash, alloc_tcp_sock, NoSock
  <2>2. sk' = [sk EXCEPT !["L"] = r] /\ sk["L"].state = "none"
    BY <1>5 DEF Inv1, Accepting, Listen
  <2>3. <<"none", "LISTEN">> \in Diagram /\ "L" \in Socks
    BY DEF Diagram, Socks
  <2> HIDE DEF r
  <2> QED
    BY <1>1, <2>1, <2>2, <2>3, OneSmooth
<1>6. CASE CloseSendFin(h)
  <2>1. PICK s \in Socks : s = MySock(h)
    BY <1>6, Mine DEF CloseSendFin
  <2> DEFINE r == AfterControl(sk[s], {"FIN", "ACK"})
  <2>2. sk' = [sk EXCEPT ![s] = r]
    BY <1>6, <2>1 DEF CloseSendFin
  <2>3. sk[s] \in Sock
    BY <1>1 DEF TypeOK
  <2>4. "state" \in DOMAIN r /\ r.state = sk[s].state
    BY <2>3 DEF AfterControl, Sock
  <2> HIDE DEF r
  <2>5. sk'[s].state = sk[s].state /\ \A x \in Socks \ {s} : sk'[x] = sk[x]
    BY <1>1, <2>2, <2>4, Written
  <2> QED
    BY <2>5 DEF Smooth
<1>7. CASE \/ ConnectSleep \/ ConnectWake \/ AcceptTest \/ AcceptSleep \/ AcceptWake \/ AcceptDequeue \/ AcceptUncount
           \/ CloseSwitch(h)
  BY <1>2, <1>7 DEF ConnectSleep, ConnectWake, AcceptTest, AcceptSleep, AcceptWake, AcceptDequeue, AcceptUncount,
         CloseSwitch
<1> QED
  BY <1>2, <1>3, <1>4, <1>5, <1>6, <1>7 DEF AppStep

\* While the client has not closed, nobody is about to write CLOSE_WAIT there.
LEMMA ClientNotTold ==
  ASSUME Inv1, InOrder, app["client"] # "done"
  PROVE  ~ ServerPast /\ rx["client"].pc # "close_wait" /\ ~ Carries("client", "FIN")
<1>1. ~ ServerPast
  BY DEF InOrder
<1>2. FinLate("client") /\ Other("client") = "server"
  BY DEF Inv1, Hosts, Other
<1> QED
  BY <1>1, <1>2 DEF FinLate, ServerPast

\* tcp_sock_close reads the state ...
LEMMA SwitchInOrder ==
  ASSUME ConnAssumption, Inv1, Inv2, env.timely, env.dups = 0, InOrder, NEW h \in Hosts, CloseSwitch(h)
  PROVE  InOrder'
<1>1. /\ UNCHANGED <<sk, rx, net, csk>> /\ app[h] = "sleep"
      /\ \/ app' = [app EXCEPT ![h] = "set_state"]
         \/ app' = [app EXCEPT ![h] = "done"]
      /\ closeTo' = [closeTo EXCEPT ![h] = CloseBranch(sk[MySock(h)].state)]
  BY DEF CloseSwitch, Goto
<1>2. /\ app'[h] \in {"set_state", "done"} /\ closeTo'[h] = CloseBranch(sk[MySock(h)].state)
      /\ app'[Other(h)] = app[Other(h)] /\ closeTo'[Other(h)] = closeTo[Other(h)]
  <2>1. DOMAIN app = Hosts /\ DOMAIN closeTo = Hosts /\ Other(h) \in Hosts \ {h}
    BY TwoHosts DEF Inv1, TypeOK
  <2> QED
    BY <1>1, <2>1
<1>3. \A g \in Hosts : MySock(g)' = MySock(g)
  BY <1>1 DEF MySock
<1>4. ASSUME NEW g \in Hosts
      PROVE  /\ rx'[g].pc = "close_wait" => sk'[rx'[g].sock].state = "ESTABLISHED"
             /\ app'[g] = "set_state" => closeTo'[g] = CloseBranch(sk'[MySock(g)'].state)
  <2>1. CASE g = h
    BY <1>1, <1>2, <1>3, <2>1 DEF InOrder
  <2>2. CASE g = Other(h)
    BY <1>1, <1>2, <1>3, <2>2 DEF InOrder
  <2> QED
    BY <2>1, <2>2, TwoHosts
<1>5. CASE h = "server"
  <2>1. app["client"] = "done" /\ net["server"] = <<>> /\ rx["server"] = RxIdle
    BY <1>5 DEF CloseSwitch
  <2>2. app'["client"] = "done" /\ ~ Carries("server", "FIN")' /\ rx'["server"].pc # "close_wait"
    BY <1>1, <1>2, <1>5, <2>1 DEF Carries, RxIdle, Other
  <2> QED
    BY <1>4, <2>2 DEF InOrder
<1>6. CASE h = "client"
  <2>1. ~ ServerPast
    BY <1>1, <1>6, ClientNotTold
  <2>2. app'["server"] = app["server"]
    BY <1>2, <1>6 DEF Other
  <2>3. ~ ServerPast'
    BY <2>1, <2>2 DEF ServerPast
  <2> QED
    BY <1>4, <2>3 DEF InOrder
<1> QED
  BY <1>5, <1>6 DEF Hosts

\* ... writes the new one, ...
LEMMA SetStateInOrder ==
  ASSUME ConnAssumption, Inv1, Inv2, env.timely, env.dups = 0, InOrder, NEW h \in Hosts, CloseSetState(h)
  PROVE  InOrder' /\ rx[h].pc # "close_wait"
<1>1. UNCHANGED <<rx, net, csk, closeTo>> /\ app[h] = "set_state" /\ app' = [app EXCEPT ![h] = "send_fin"]
  BY DEF CloseSetState, Goto
<1>2. app'[h] = "send_fin" /\ app'[Other(h)] = app[Other(h)]
  BY <1>1, TwoHosts DEF Inv1, TypeOK
<1>3. PICK s \in Socks : s = MySock(h)
  BY <1>1, Mine
<1>4. Host(s) = h /\ sk' = [sk EXCEPT ![s].state = closeTo[h]]
  BY <1>1, <1>3, Mine DEF CloseSetState
<1>5. \A x \in Socks \ {s} : sk'[x] = sk[x]
  BY <1>4 DEF Inv1, TypeOK
<1>6. \A g \in Hosts : MySock(g)' = MySock(g)
  BY <1>1 DEF MySock
<1>7. rx[h].pc # "close_wait"
  <2>1. CASE h = "client"
    BY <1>1, <2>1, ClientNotTold
  <2>2. CASE h = "server"
    BY <1>1, <2>2 DEF InOrder, ServerPast
  <2> QED
    BY <2>1, <2>2 DEF Hosts
<1>8. ASSUME NEW g \in Hosts
      PROVE  /\ rx'[g].pc = "close_wait" => sk'[rx'[g].sock].state = "ESTABLISHED"
             /\ app'[g] = "set_state" => closeTo'[g] = CloseBranch(sk'[MySock(g)'].state)
  <2>1. CASE g = h
    BY <1>1, <1>2, <1>7, <2>1
  <2>2. CASE g = Other(h)
    <3>1. rx[g].pc = "close_wait" => rx[g].sock \in Socks \ {s}
      BY <1>4, <2>2, TwoHosts DEF Inv1, Packet, RxIdle
    <3>2. app[g] = "set_state" => MySock(g) \in Socks \ {s}
      BY <1>4, <2>2, TwoHosts, Mine
    <3> QED
      BY <1>1, <1>2, <1>5, <1>6, <2>2, <3>1, <3>2 DEF InOrder
  <2> QED
    BY <2>1, <2>2, TwoHosts
<1>9. ServerPast' => app'["client"] = "done" /\ ~ Carries("server", "FIN")' /\ rx'["server"].pc # "close_wait"
  <2>1. CASE h = "server"
    <3>1. app["client"] = "done" /\ ~ Carries("server", "FIN") /\ rx["server"].pc # "close_wait"
      BY <1>1, <2>1 DEF InOrder, ServerPast
    <3> QED
      BY <1>1, <1>2, <2>1, <3>1 DEF Carries, Other
  <2>2. CASE h = "client"
    <3>1. ~ ServerPast /\ app'["server"] = app["server"]
      BY <1>1, <1>2, <2>2, ClientNotTold DEF Other
    <3> QED
      BY <3>1 DEF ServerPast
  <2> QED
    BY <2>1, <2>2 DEF Hosts
<1> QED
  BY <1>7, <1>8, <1>9 DEF InOrder

\* ... and sends the FIN.
LEMMA SendFinInOrder ==
  ASSUME ConnAssumption, Inv1, Inv2, env.timely, env.dups = 0, InOrder, NEW h \in Hosts, CloseSendFin(h)
  PROVE  InOrder'
<1>1. UNCHANGED <<rx, csk, closeTo>> /\ app[h] = "send_fin" /\ app' = [app EXCEPT ![h] = "done"]
  BY DEF CloseSendFin, Goto
<1>2. app'[h] = "done" /\ app'[Other(h)] = app[Other(h)]
  BY <1>1, TwoHosts DEF Inv1, TypeOK
<1>3. PICK s \in Socks : s = MySock(h)
  BY <1>1, Mine
<1>4. \A x \in Socks : sk'[x].state = sk[x].state
  <2> DEFINE r == AfterControl(sk[s], {"FIN", "ACK"})
  <2>1. sk' = [sk EXCEPT ![s] = r]
    BY <1>3 DEF CloseSendFin
  <2>2. sk[s] \in Sock /\ TypeOK
    BY DEF Inv1, TypeOK
  <2>3. "state" \in DOMAIN r /\ r.state = sk[s].state
    BY <2>2 DEF AfterControl, Sock
  <2> HIDE DEF r
  <2> QED
    BY <2>1, <2>2, <2>3, Written
<1>5. \A g \in Hosts : MySock(g)' = MySock(g)
  BY <1>1 DEF MySock
<1>6. ASSUME NEW g \in Hosts
      PROVE  /\ rx'[g].pc = "close_wait" => sk'[rx'[g].sock].state = "ESTABLISHED"
             /\ app'[g] = "set_state" => closeTo'[g] = CloseBranch(sk'[MySock(g)'].state)
  <2>1. rx[g].pc = "close_wait" => rx[g].sock \in Socks
    BY DEF Inv1, Packet, RxIdle
  <2>2. app[g] = "set_state" => MySock(g) \in Socks
    BY Mine
  <2>3. app'[g] = "set_state" => app[g] = "set_state"
    BY <1>2, TwoHosts
  <2> QED
    BY <1>1, <1>4, <1>5, <2>1, <2>2, <2>3 DEF InOrder
<1>7. ServerPast' => app'["client"] = "done" /\ ~ Carries("server", "FIN")' /\ rx'["server"].pc # "close_wait"
  <2>1. CASE h = "server"
    <3>1. app["client"] = "done" /\ ~ Carries("server", "FIN") /\ rx["server"].pc # "close_wait"
      BY <1>1, <2>1 DEF InOrder, ServerPast
    <3>2. net' = Emit(net, "server", ControlPacket(s, sk[s], {"FIN", "ACK"}))
      BY <1>3, <2>1 DEF CloseSendFin
    <3>3. net'["server"] = net["server"]
      <4>1. PICK g : g = ControlPacket(s, sk[s], {"FIN", "ACK"})
        OBVIOUS
      <4>2. Other("server") # "server" /\ DOMAIN net = Hosts
        BY DEF Other, Inv1, TypeOK
      <4>3. net' = net \/ net' = [net EXCEPT ![Other("server")] = Append(@, g)]
        BY <3>2, <4>1 DEF Emit
      <4> QED
        BY <4>2, <4>3 DEF Hosts
    <3> QED
      BY <1>1, <1>2, <2>1, <3>1, <3>3 DEF Carries, Other
  <2>2. CASE h = "client"
    <3>1. ~ ServerPast /\ app'["server"] = app["server"]
      BY <1>1, <1>2, <2>2, ClientNotTold DEF Other
    <3> QED
      BY <3>1 DEF ServerPast
  <2> QED
    BY <2>1, <2>2 DEF Hosts
<1> QED
  BY <1>6, <1>7 DEF InOrder

\* The packet threads leave the applications' variables alone.
LEMMA RxLeavesApps ==
  ASSUME NEW h \in Hosts, RxStep(h)
  PROVE  UNCHANGED appVars
BY DEF RxStep, RxNoSock, RxUsesFreed, RxClosed, RxListen, RxSynSent, RxSynRecv, RxEstablished, RxFinWait1,
       RxFinWait2, RxLastAck, RxIgnored, RxWakeConnect, RxCount, RxWakeAccept, RxCloseWait, RxReset

\* A smooth step, for those who are about to write a state.
LEMMA SmoothInOrder ==
  ASSUME Inv1, InOrder, Smooth, NEW g \in Hosts
  PROVE  /\ rx[g].pc = "close_wait" /\ rx'[g] = rx[g] => sk'[rx'[g].sock].state = "ESTABLISHED"
         /\ app[g] = "set_state" => sk'[MySock(g)].state = sk[MySock(g)].state
<1>1. rx[g].pc = "close_wait" => rx[g].sock \in Socks
  BY DEF Inv1, Packet, RxIdle
<1>2. app[g] = "set_state" => MySock(g) \in Socks /\ sk[MySock(g)].state \in {"ESTABLISHED", "CLOSE_WAIT"}
  BY Mine DEF Inv1, Closing
<1> QED
  BY <1>1, <1>2 DEF Smooth, InOrder

\* The packet threads.
LEMMA RxInOrder ==
  ASSUME ConnAssumption, Inv1, Inv2, env.timely, env.dups = 0, InOrder, NEW h \in Hosts, RxStep(h),
         ~ RxCloseWait(h)
  PROVE  InOrder'
<1>1. UNCHANGED <<app, csk, closeTo>> /\ Smooth
  BY RxLeavesApps, RxSmooth DEF appVars
<1>2. \A g \in Hosts : MySock(g)' = MySock(g)
  BY <1>1 DEF MySock
<1>3. /\ rx'[Other(h)] = rx[Other(h)]
      /\ rx'[h].pc = "close_wait" => Carries(h, "FIN") /\ sk'[rx'[h].sock].state = "ESTABLISHED"
  BY FinTakenInEstablished
<1>4. ASSUME NEW g \in Hosts
      PROVE  /\ rx'[g].pc = "close_wait" => sk'[rx'[g].sock].state = "ESTABLISHED"
             /\ app'[g] = "set_state" => closeTo'[g] = CloseBranch(sk'[MySock(g)'].state)
  <2>1. app'[g] = "set_state" => closeTo'[g] = CloseBranch(sk'[MySock(g)'].state)
    BY <1>1, <1>2, SmoothInOrder DEF InOrder
  <2>2. CASE g = h
    BY <1>3, <2>1, <2>2
  <2>3. CASE g = Other(h)
    BY <1>1, <1>3, <2>1, <2>3, SmoothInOrder
  <2> QED
    BY <2>2, <2>3, TwoHosts
<1>5. ASSUME ServerPast'
      PROVE  app'["client"] = "done" /\ ~ Carries("server", "FIN")' /\ rx'["server"].pc # "close_wait"
  <2>1. app["client"] = "done" /\ ~ Carries("server", "FIN") /\ rx["server"].pc # "close_wait"
    BY <1>1, <1>5 DEF InOrder, ServerPast
  <2>2. ~ Carries("server", "FIN")'
    BY <2>1, NoFinSent DEF Hosts
  <2>3. rx'["server"].pc # "close_wait"
    BY <1>3, <2>1 DEF Hosts, Other
  <2> QED
    BY <1>1, <2>1, <2>2, <2>3
<1> QED
  BY <1>4, <1>5 DEF InOrder

\* The write of CLOSE_WAIT meets no close of the same host.
LEMMA CloseWaitInOrder ==
  ASSUME ConnAssumption, Inv1, Inv2, env.timely, env.dups = 0, InOrder, NEW h \in Hosts, RxCloseWait(h)
  PROVE  InOrder' /\ app[h] # "set_state"
<1>1. /\ UNCHANGED <<app, csk, closeTo, net>> /\ rx[h].pc = "close_wait"
      /\ Then(h, rx[h].sock, "end", rx[h].rst)
  BY DEF RxCloseWait, appVars
<1>2. \A g \in Hosts : MySock(g)' = MySock(g)
  BY <1>1 DEF MySock
<1>3. rx'[Other(h)] = rx[Other(h)] /\ rx'[h].pc # "close_wait"
  <2>1. TypeOK /\ "end" # "close_wait" /\ "idle" # "close_wait"
    BY DEF Inv1
  <2> QED
    BY <1>1, <2>1, GoesOn
<1>4. PICK s \in Socks : s = rx[h].sock /\ Host(s) = h
  BY <1>1 DEF Inv1, Packet, RxIdle
<1>5. \A x \in Socks \ {s} : sk'[x] = sk[x]
  BY <1>4 DEF Inv1, TypeOK, RxCloseWait
<1>6. app[h] # "set_state"
  <2>1. CASE h = "client"
    <3>1. app["client"] = "done"
      BY <1>1, <2>1, ClientNotTold
    <3> QED
      BY <2>1, <3>1
  <2>2. CASE h = "server"
    BY <1>1, <2>2 DEF InOrder, ServerPast
  <2> QED
    BY <2>1, <2>2 DEF Hosts
<1>7. ASSUME NEW g \in Hosts
      PROVE  /\ rx'[g].pc = "close_wait" => sk'[rx'[g].sock].state = "ESTABLISHED"
             /\ app'[g] = "set_state" => closeTo'[g] = CloseBranch(sk'[MySock(g)'].state)
  <2>1. CASE g = h
    BY <1>1, <1>3, <1>6, <2>1
  <2>2. CASE g = Other(h)
    <3>1. rx[g].pc = "close_wait" => rx[g].sock \in Socks \ {s}
      BY <1>4, <2>2, TwoHosts DEF Inv1, Packet, RxIdle
    <3>2. app[g] = "set_state" => MySock(g) \in Socks \ {s}
      BY <1>4, <2>2, TwoHosts, Mine
    <3> QED
      BY <1>1, <1>2, <1>3, <1>5, <2>2, <3>1, <3>2 DEF InOrder
  <2> QED
    BY <2>1, <2>2, TwoHosts
<1>8. ServerPast' => app'["client"] = "done" /\ ~ Carries("server", "FIN")' /\ rx'["server"].pc # "close_wait"
  <2>1. ServerPast' => ServerPast
    BY <1>1 DEF ServerPast
  <2>2. Carries("server", "FIN")' = Carries("server", "FIN")
    BY <1>1 DEF Carries
  <2>3. rx["server"].pc # "close_wait" => rx'["server"].pc # "close_wait"
    BY <1>3, TwoHosts DEF Hosts
  <2> QED
    BY <1>1, <2>1, <2>2, <2>3 DEF InOrder
<1> QED
  BY <1>6, <1>7, <1>8 DEF InOrder

\* The applications before the close, and the timer thread.
LEMMA AppAndTimerInOrder ==
  ASSUME ConnAssumption, Inv1, Inv2, env.timely, env.dups = 0, InOrder, NEW h \in Hosts,
         TimerScan(h) \/ (AppStep(h) /\ ~ CloseSwitch(h) /\ ~ CloseSetState(h) /\ ~ CloseSendFin(h))
  PROVE  InOrder'
<1>1. Smooth
  BY AppAndTimerSmooth
<1>2. UNCHANGED <<rx, closeTo>>
  BY DEF TimerScan, AppStep, Connect, ConnectSleep, ConnectWake, Listen, AcceptTest, AcceptSleep, AcceptWake,
         AcceptDequeue, AcceptUncount, appVars
<1>3. CASE UNCHANGED <<app, csk, net>>
  <2>1. \A g \in Hosts : MySock(g)' = MySock(g)
    BY <1>3 DEF MySock
  <2>2. ASSUME NEW g \in Hosts
        PROVE  /\ rx'[g].pc = "close_wait" => sk'[rx'[g].sock].state = "ESTABLISHED"
               /\ app'[g] = "set_state" => closeTo'[g] = CloseBranch(sk'[MySock(g)'].state)
    BY <1>1, <1>2, <1>3, <2>1, SmoothInOrder DEF InOrder
  <2>3. (ServerPast' <=> ServerPast) /\ (Carries("server", "FIN")' <=> Carries("server", "FIN"))
    BY <1>3 DEF ServerPast, Carries
  <2> QED
    BY <1>2, <1>3, <2>2, <2>3 DEF InOrder
<1>4. CASE h = "client" /\ (Connect \/ ConnectSleep \/ ConnectWake)
  <2>1. /\ app["client"] \in {"start", "sleep_on", "blocked"} /\ csk' = csk
        /\ \E p \in {"sleep_on", "blocked", "sleep"} : app' = [app EXCEPT !["client"] = p]
    BY <1>4 DEF Connect, ConnectSleep, ConnectWake, Goto
  <2>2. app'["server"] = app["server"] /\ app'["client"] # "set_state"
    BY <2>1 DEF Inv1, TypeOK, Hosts
  <2>3. ~ ServerPast'
    BY <2>1, <2>2, ClientNotTold DEF ServerPast
  <2>4. MySock("server")' = MySock("server")
    BY <2>1 DEF MySock
  <2>5. ASSUME NEW g \in Hosts
        PROVE  /\ rx'[g].pc = "close_wait" => sk'[rx'[g].sock].state = "ESTABLISHED"
               /\ app'[g] = "set_state" => closeTo'[g] = CloseBranch(sk'[MySock(g)'].state)
    <3>1. rx'[g].pc = "close_wait" => sk'[rx'[g].sock].state = "ESTABLISHED"
      BY <1>1, <1>2, SmoothInOrder
    <3>2. CASE g = "client"
      BY <2>2, <3>1, <3>2
    <3>3. CASE g = "server"
      BY <1>1, <1>2, <2>2, <2>4, <3>1, <3>3, SmoothInOrder DEF InOrder
    <3> QED
      BY <3>2, <3>3 DEF Hosts
  <2> QED
    BY <2>3, <2>5 DEF InOrder
<1>5. CASE h = "server" /\ (Listen \/ AcceptTest \/ AcceptSleep \/ AcceptWake \/ AcceptDequeue \/ AcceptUncount)
  <2>1. \E p \in {"accept", "sleep_on", "blocked", "dequeue", "uncount_load", "uncount_store", "sleep"} :
          app' = [app EXCEPT !["server"] = p]
    BY <1>5 DEF Listen, AcceptTest, AcceptSleep, AcceptWake, AcceptDequeue, AcceptUncount, Goto
  <2>2. app'["client"] = app["client"] /\ app'["server"] \notin {"set_state", "send_fin", "done"}
    BY <2>1 DEF Inv1, TypeOK, Hosts
  <2>3. MySock("client")' = MySock("client")
    BY DEF MySock
  <2>4. ASSUME NEW g \in Hosts
        PROVE  /\ rx'[g].pc = "close_wait" => sk'[rx'[g].sock].state = "ESTABLISHED"
               /\ app'[g] = "set_state" => closeTo'[g] = CloseBranch(sk'[MySock(g)'].state)
    <3>1. rx'[g].pc = "close_wait" => sk'[rx'[g].sock].state = "ESTABLISHED"
      BY <1>1, <1>2, SmoothInOrder
    <3>2. CASE g = "server"
      BY <2>2, <3>1, <3>2
    <3>3. CASE g = "client"
      BY <1>1, <1>2, <2>2, <2>3, <3>1, <3>3, SmoothInOrder DEF InOrder
    <3> QED
      BY <3>2, <3>3 DEF Hosts
  <2> QED
    BY <2>2, <2>4 DEF InOrder, ServerPast
<1>6. CASE TimerScan(h)
  BY <1>3, <1>6 DEF TimerScan, appVars
<1> QED
  BY <1>4, <1>5, <1>6 DEF AppStep

\* Orderly is invariant.
LEMMA OrderlyKept ==
  ASSUME ConnAssumption, Inv1, Inv2, Orderly, [Next]_vars
  PROVE  Orderly'
<1>0. env' = env
  BY SameEnv
<1> SUFFICES ASSUME env.timely, env.dups = 0, InOrder PROVE InOrder'
  BY <1>0 DEF Orderly
<1>1. CASE UNCHANGED <<app, csk, closeTo, rx, sk, net>>
  <2>1. /\ ServerPast' <=> ServerPast
        /\ Carries("server", "FIN")' <=> Carries("server", "FIN")
        /\ \A h \in Hosts : MySock(h)' = MySock(h)
    BY <1>1 DEF ServerPast, Carries, MySock
  <2> QED
    BY <1>1, <2>1 DEF InOrder
<1>2. CASE ForeignSyn
  <2> DEFINE g == [conn |-> "x", flags |-> {"SYN"}, seq |-> 0, ack |-> 0]
  <2>1. UNCHANGED <<app, csk, closeTo, rx, sk>> /\ net' = [net EXCEPT !["server"] = Append(@, g)]
    BY <1>2 DEF ForeignSyn, appVars
  <2>2. "FIN" \notin g.flags
    OBVIOUS
  <2> HIDE DEF g
  <2>3. net["server"] \in Seq(Segment) /\ net'["server"] = Append(net["server"], g)
    BY <2>1 DEF Inv1, TypeOK, Hosts
  <2>4. Carries("server", "FIN")' => Carries("server", "FIN")
    <3>1. \A i \in DOMAIN net'["server"] :
            \/ i \in DOMAIN net["server"] /\ net'["server"][i] = net["server"][i]
            \/ net'["server"][i] = g
      BY <2>3
    <3> QED
      BY <2>2, <3>1 DEF Carries
  <2>5. (ServerPast' <=> ServerPast) /\ \A h \in Hosts : MySock(h)' = MySock(h)
    BY <2>1 DEF ServerPast, MySock
  <2> QED
    BY <2>1, <2>4, <2>5 DEF InOrder
<1>3. ~ \E h \in Hosts : Duplicate(h)
  BY DEF Duplicate, Inv2, Numbered
<1>4. ASSUME NEW h \in Hosts, AppStep(h) \/ RxStep(h) \/ TimerScan(h)
      PROVE  InOrder'
  <2>1. CASE CloseSwitch(h) \/ CloseSetState(h) \/ CloseSendFin(h)
    BY <2>1, SwitchInOrder, SetStateInOrder, SendFinInOrder
  <2>2. CASE RxStep(h)
    BY <2>2, RxInOrder, CloseWaitInOrder
  <2>3. CASE \/ TimerScan(h)
             \/ AppStep(h) /\ ~ CloseSwitch(h) /\ ~ CloseSetState(h) /\ ~ CloseSendFin(h)
    BY <2>3, AppAndTimerInOrder
  <2> QED
    BY <1>4, <2>1, <2>2, <2>3
<1> QED
  BY <1>1, <1>2, <1>3, <1>4 DEF Next, NetStep, vars

\* What a step does to the state of a sock is an edge of the diagram.
LEMMA StepOnDiagram ==
  ASSUME ConnAssumption, Inv1, Inv2, Orderly, [Next]_vars, env.timely, env.dups = 0, NEW s \in Socks,
         sk'[s].state # sk[s].state
  PROVE  <<sk[s].state, sk'[s].state>> \in Diagram
<1>0. InOrder /\ TypeOK
  BY DEF Orderly, Inv1
<1>1. CASE Smooth
  BY <1>1 DEF Smooth
<1>2. ASSUME NEW h \in Hosts, CloseSetState(h)
      PROVE  <<sk[s].state, sk'[s].state>> \in Diagram
  <2>1. PICK x \in Socks : x = MySock(h)
    BY <1>2, Mine DEF CloseSetState
  <2>2. app[h] = "set_state" /\ sk' = [sk EXCEPT ![x].state = closeTo[h]]
    BY <1>2, <2>1 DEF CloseSetState
  <2>3. closeTo[h] = CloseBranch(sk[x].state) /\ sk[x].state \in {"ESTABLISHED", "CLOSE_WAIT"}
    BY <1>0, <2>1, <2>2 DEF InOrder, Inv1, Closing
  <2>4. sk'[x].state = closeTo[h] /\ \A y \in Socks \ {x} : sk'[y] = sk[y]
    <3> DEFINE r == [sk[x] EXCEPT !.state = closeTo[h]]
    <3>1. sk[x] \in Sock
      BY <1>0 DEF TypeOK
    <3>2. "state" \in DOMAIN r /\ r.state = closeTo[h] /\ sk' = [sk EXCEPT ![x] = r]
      BY <2>2, <3>1 DEF Sock
    <3> HIDE DEF r
    <3> QED
      BY <1>0, <3>2, Written
  <2>5. <<sk[x].state, sk'[x].state>> \in Diagram
    BY <2>3, <2>4, Branches DEF Diagram
  <2> QED
    BY <2>4, <2>5
<1>3. ASSUME NEW h \in Hosts, RxCloseWait(h)
      PROVE  <<sk[s].state, sk'[s].state>> \in Diagram
  <2>1. PICK x \in Socks : x = rx[h].sock
    BY <1>3 DEF RxCloseWait, Inv1, Packet, RxIdle
  <2>2. sk[x].state = "ESTABLISHED" /\ sk' = [sk EXCEPT ![x].state = "CLOSE_WAIT"]
    BY <1>0, <1>3, <2>1 DEF RxCloseWait, InOrder
  <2>3. sk'[x].state = "CLOSE_WAIT" /\ \A y \in Socks \ {x} : sk'[y] = sk[y]
    <3> DEFINE r == [sk[x] EXCEPT !.state = "CLOSE_WAIT"]
    <3>1. sk[x] \in Sock
      BY <1>0 DEF TypeOK
    <3>2. "state" \in DOMAIN r /\ r.state = "CLOSE_WAIT" /\ sk' = [sk EXCEPT ![x] = r]
      BY <2>2, <3>1 DEF Sock
    <3> HIDE DEF r
    <3> QED
      BY <1>0, <3>2, Written
  <2> QED
    BY <2>2, <2>3 DEF Diagram
<1>4. ASSUME NEW h \in Hosts, AppStep(h) \/ RxStep(h) \/ TimerScan(h), ~ CloseSetState(h), ~ RxCloseWait(h)
      PROVE  Smooth
  BY <1>4, RxSmooth, AppAndTimerSmooth
<1>5. CASE NetStep \/ UNCHANGED vars
  BY <1>5 DEF NetStep, ForeignSyn, Duplicate, vars
<1> QED
  BY <1>1, <1>2, <1>3, <1>4, <1>5 DEF Next

\* When the closes do not race, no step of either thread, of either host, takes
\* a sock off the state diagram of TCP.
THEOREM DiagramFollowed ==
  ASSUME ConnAssumption
  PROVE  Spec => FollowsDiagram
<1>1. Init => Orderly
  <2>1. ASSUME Init PROVE ~ ServerPast /\ \A h \in Hosts : rx[h].pc = "idle" /\ app[h] = "start"
    BY <2>1 DEF Init, ServerPast, Hosts, RxIdle
  <2> QED
    BY <2>1 DEF Orderly, InOrder
<1>2. Inv1 /\ Inv2 /\ Orderly /\ [Next]_vars => Orderly'
  BY OrderlyKept
<1>3. Inv1 /\ Inv2 /\ Orderly /\ [Next]_vars =>
        [env.timely /\ env.dups = 0 =>
           \A s \in Socks : sk'[s].state # sk[s].state =>
                              <<sk[s].state, sk'[s].state>> \in Diagram]_vars
  BY StepOnDiagram
<1> QED
  BY <1>1, <1>2, <1>3, BothHold, PTL DEF Spec, FollowsDiagram

-----------------------------------------------------------------------------
(* The shutdown of a connection that nothing disturbs.                      *)

\* The server closes a second after the client, and the environment is the one the
\* two programs are meant for.
Undisturbed == env.timely /\ Friendly

\* The k-th packet sent to h: SYN or SYN|ACK, ACK, FIN|ACK and, to the server, ACK.
FirstSeq(h) == IF h = "client" THEN ClientISS ELSE ServerISS
IsPacket(h, k, seg) ==
  /\ seg.conn = "k" /\ k \in 1 .. 4
  /\ k = 1 => /\ seg.flags = IF h = "server" THEN {"SYN"} ELSE {"SYN", "ACK"}
              /\ seg.seq = FirstSeq(Other(h))
  /\ k \in {2, 4} => seg.flags = {"ACK"}
  /\ k = 3 => seg.flags = {"FIN", "ACK"} /\ seg.seq = SeqInc(FirstSeq(Other(h)))

\* How many packets each side has sent and taken, from the state of its sock and from
\* where its threads are.
ClientSaid(a, st) ==
  IF st \in {"TIME_WAIT", "CLOSED"} THEN 4
  ELSE IF st \in {"none", "SYN_SENT"} THEN One(st # "none")
  ELSE IF a = "done" THEN 3 ELSE 2
ClientGot(st) ==
  IF st \in {"TIME_WAIT", "CLOSED"} THEN 3
  ELSE IF st = "FIN_WAIT_2" THEN 2 ELSE One(st \notin {"none", "SYN_SENT"})
ServerGot(st, pc) ==
  IF st = "CLOSED" THEN 4
  ELSE IF st \in {"CLOSE_WAIT", "LAST_ACK"} \/ pc = "close_wait" THEN 3
  ELSE IF st = "ESTABLISHED" THEN 2 ELSE One(st # "none")
ServerSaid(a, st, pc) ==
  IF a = "done" THEN 3 ELSE IF ServerGot(st, pc) >= 3 THEN 2 ELSE One(st # "none")

\* What is on its way to h is exactly what has been sent and not been taken.
Underway(h, q, m, n) ==
  /\ m <= n /\ Len(q) = n - m
  /\ \A i \in 1 .. Len(q) : IsPacket(h, m + i, q[i])

\* Packets taken and sent by host h.
Got(h) == IF h = "client" THEN ClientGot(sk["K"].state)
            ELSE ServerGot(sk["C"].state, rx["server"].pc)
Said(h) == IF h = "client" THEN ClientSaid(app["client"], sk["K"].state)
           ELSE ServerSaid(app["server"], sk["C"].state, rx["server"].pc)

\* The packets underway are the ones expected, in order.
Packets == \A h \in Hosts : Underway(h, net[h], Got(h), Said(Other(h)))

\* The client: its application, its sock and the numbers in it.
ClientSide ==
  LET a  == app["client"]
      k  == sk["K"]
      isOpen == k.state \notin {"none", "SYN_SENT"}
  IN  /\ \/ a = "start" /\ k.state = "none"
         \/ a \in {"sleep_on", "blocked"} /\ k.state \in {"SYN_SENT", "ESTABLISHED"}
         \/ a \in {"sleep", "set_state"} /\ k.state = "ESTABLISHED"
         \/ a = "send_fin" /\ k.state = "FIN_WAIT_1"
         \/ a = "done" /\ k.state \in {"FIN_WAIT_1", "FIN_WAIT_2", "TIME_WAIT", "CLOSED"}
      /\ a \in {"set_state", "send_fin", "done"} => closeTo["client"] = "FIN_WAIT_1"
      /\ rx["client"].pc \in {"idle", "wake_connect"}
      /\ ~ wait_connect.dead
      /\ wait_connect.notified \/ wait_connect.signaled # {} \/ rx["client"].pc = "wake_connect"
           => isOpen
      /\ k.state # "none" =>
           k.snd_nxt = IF a = "done" THEN SeqInc(SeqInc(ClientISS)) ELSE SeqInc(ClientISS)
      /\ isOpen => k.rcv_nxt = IF k.state \in {"TIME_WAIT", "CLOSED"} THEN SeqInc(SeqInc(ServerISS))
                           ELSE SeqInc(ServerISS)

\* The server: its application, the child sock and the numbers in it.
ServerSide ==
  LET a == app["server"]
      c == sk["C"]
      pc == rx["server"].pc
  IN  /\ \/ a \notin {"set_state", "send_fin", "done"}
              /\ c.state \in {"none", "SYN_RECV", "ESTABLISHED", "CLOSE_WAIT"}
         \/ a = "set_state" /\ c.state = "CLOSE_WAIT"
         \/ a = "send_fin" /\ c.state = "LAST_ACK"
         \/ a = "done" /\ c.state \in {"LAST_ACK", "CLOSED"}
      /\ a \in {"set_state", "send_fin", "done"} => closeTo["server"] = "LAST_ACK"
      /\ pc # "wake_connect"
      /\ pc = "close_wait" => rx["server"].sock = "C" /\ c.state = "ESTABLISHED"
      /\ sk["L"].state # "none" => sk["L"].snd_nxt = ServerISS
      /\ c.state # "none" =>
           /\ c.snd_nxt = IF a = "done" THEN SeqInc(SeqInc(ServerISS)) ELSE SeqInc(ServerISS)
           /\ c.rcv_nxt = IF ServerGot(c.state, pc) >= 3 THEN SeqInc(SeqInc(ClientISS))
                          ELSE SeqInc(ClientISS)


\* What the invariants say of such an environment.
LEMMA Calm ==
  ASSUME Inv1, Inv2, HostsSurvive, Undisturbed
  PROVE  /\ TypeOK /\ Numbered /\ env.timely /\ env.dups = 0 /\ ~ env.spurious
         /\ left.dups = 0 /\ ~ left.foreign /\ sk["X"].state = "none"
         /\ \A h \in Hosts : Running(h) /\ rx[h].pc # "end" /\ ~ rx[h].rst
<1>1. env.timely /\ env.dups = 0 /\ ~ env.spurious /\ ~ env.foreign
  BY DEF Undisturbed, Friendly
<1>2. Numbered /\ TypeOK
  BY <1>1 DEF Inv2, Inv1
<1>3. left.dups = 0 /\ ~ left.foreign /\ sk["X"].state = "none"
  BY <1>1, <1>2 DEF Numbered, Stranger
<1>4. \A h \in Hosts : Running(h)
  BY DEF HostsSurvive, Undisturbed, Running
<1> QED
  BY <1>1, <1>2, <1>3, <1>4, NoReset

\* The numbers of packets are small.
LEMMA SmallNumbers ==
  \A h \in Hosts : Got(h) \in 0 .. 4 /\ Said(h) \in 0 .. 4
  BY DEF Got, Said, ClientGot, ClientSaid, ServerGot, ServerSaid, One

\* One packet more, and one less.
LEMMA OneMore ==
  ASSUME NEW h, NEW q \in Seq(Segment), NEW m \in Nat, NEW n \in Nat, Underway(h, q, m, n),
         NEW seg \in Segment, IsPacket(h, n + 1, seg)
  PROVE  Underway(h, Append(q, seg), m, n + 1)
<1>1. /\ Len(Append(q, seg)) = Len(q) + 1
      /\ \A i \in 1 .. Len(q) : Append(q, seg)[i] = q[i]
      /\ Append(q, seg)[Len(q) + 1] = seg
  OBVIOUS
<1>2. m <= n /\ Len(q) = n - m /\ \A i \in 1 .. Len(q) : IsPacket(h, m + i, q[i])
  BY DEF Underway
<1>3. PICK p : p = Append(q, seg)
  OBVIOUS
<1>4. ASSUME NEW i \in 1 .. Len(p) PROVE IsPacket(h, m + i, p[i])
  <2>1. CASE i \in 1 .. Len(q)
    BY <1>1, <1>2, <1>3, <2>1
  <2>2. CASE i = Len(q) + 1
    <3>1. m + i = n + 1
      BY <1>2, <2>2
    <3> QED
      BY <1>1, <1>3, <2>2, <3>1
  <2> QED
    BY <1>1, <1>2, <1>3, <2>1, <2>2
<1>5. m <= n + 1 /\ Len(p) = n + 1 - m
  BY <1>1, <1>2, <1>3
<1> QED
  BY <1>3, <1>4, <1>5 DEF Underway

\* What is left after the head has been taken, which is the packet expected next.
LEMMA OneLess ==
  ASSUME NEW h, NEW q \in Seq(Segment), NEW m \in Nat, NEW n \in Nat, Underway(h, q, m, n), q # <<>>
  PROVE  /\ Underway(h, Tail(q), m + 1, n) /\ m < n /\ IsPacket(h, m + 1, Head(q))
<1>1. /\ Len(q) \in Nat \ {0} /\ Head(q) = q[1] /\ Len(Tail(q)) = Len(q) - 1
      /\ \A i \in 1 .. Len(q) - 1 : Tail(q)[i] = q[i + 1]
  OBVIOUS
<1>2. m <= n /\ Len(q) = n - m /\ \A i \in 1 .. Len(q) : IsPacket(h, m + i, q[i])
  BY DEF Underway
<1>3. PICK p : p = Tail(q)
  OBVIOUS
<1>4. ASSUME NEW i \in 1 .. Len(p) PROVE IsPacket(h, m + 1 + i, p[i])
  <2>1. i + 1 \in 1 .. Len(q) /\ p[i] = q[i + 1] /\ m + (i + 1) = m + 1 + i
    BY <1>1, <1>3
  <2>2. IsPacket(h, m + (i + 1), q[i + 1])
    BY <1>2, <2>1
  <2> QED
    BY <2>1, <2>2
<1>5. m + 1 <= n /\ Len(p) = n - (m + 1) /\ m < n
  BY <1>1, <1>2, <1>3
<1>6. IsPacket(h, m + 1, Head(q))
  BY <1>1, <1>2
<1> QED
  BY <1>3, <1>4, <1>5, <1>6 DEF Underway

\* What host h has taken and sent in a step, and what the other one has not.
TakesOnePacket(h, n) == net[h] # <<>> /\ n = Rest(h) /\ Got(h)' = Got(h) + 1
SendsPacket(h, n, seg) ==
  /\ seg \in Segment /\ net' = Emit(n, h, seg)
  /\ IsPacket(Other(h), Said(h) + 1, seg) /\ Said(h)' = Said(h) + 1
OtherQuiet(h) == Got(Other(h))' = Got(Other(h)) /\ Said(Other(h))' = Said(Other(h))

\* Packets that are taken and sent in this way are the ones expected.
LEMMA Traffic ==
  ASSUME TypeOK, Packets, NEW h \in Hosts, NEW n, NEW seg, OtherQuiet(h),
         TakesOnePacket(h, n) \/ (n = net /\ Got(h)' = Got(h)),
         SendsPacket(h, n, seg) \/ (net' = n /\ Said(h)' = Said(h))
  PROVE  Packets'
<1>1. PICK o \in Hosts : o = Other(h) /\ o # h /\ Other(o) = h /\ \A g \in Hosts : g = h \/ g = o
  BY DEF Hosts, Other
<1>2. /\ Got(h) \in Nat /\ Said(h) \in Nat /\ Got(o) \in Nat /\ Said(o) \in Nat
      /\ net \in [Hosts -> Seq(Segment)] /\ net[h] \in Seq(Segment) /\ net[o] \in Seq(Segment)
  <2>1. \A k \in 0 .. 4 : k \in Nat
    OBVIOUS
  <2>2. Got(h) \in 0 .. 4 /\ Said(h) \in 0 .. 4 /\ Got(o) \in 0 .. 4 /\ Said(o) \in 0 .. 4
    BY <1>1, SmallNumbers
  <2>3. net \in [Hosts -> Seq(Segment)]
    BY DEF TypeOK
  <2> QED
    BY <1>1, <2>1, <2>2, <2>3
<1>3. Underway(h, net[h], Got(h), Said(o)) /\ Underway(o, net[o], Got(o), Said(h))
  BY <1>1 DEF Packets
<1>4. Got(o)' = Got(o) /\ Said(o)' = Said(o)
  BY <1>1 DEF OtherQuiet
<1>5. n \in [Hosts -> Seq(Segment)] /\ n[o] = net[o] /\ Underway(h, n[h], Got(h)', Said(o))
  <2>1. CASE TakesOnePacket(h, n)
    <3>1. n = [net EXCEPT ![h] = Tail(net[h])] /\ net[h] # <<>> /\ Got(h)' = Got(h) + 1
      BY <2>1 DEF TakesOnePacket, Rest
    <3>2. Tail(net[h]) \in Seq(Segment)
      BY <1>2, <3>1
    <3>3. n \in [Hosts -> Seq(Segment)] /\ n[o] = net[o] /\ n[h] = Tail(net[h])
      BY <1>1, <1>2, <3>1, <3>2
    <3>4. Underway(h, Tail(net[h]), Got(h) + 1, Said(o))
      BY <1>2, <1>3, <3>1, OneLess
    <3> QED
      BY <3>1, <3>3, <3>4
  <2>2. CASE n = net /\ Got(h)' = Got(h)
    BY <1>2, <1>3, <2>2
  <2> QED
    BY <2>1, <2>2
<1>6. net'[h] = n[h] /\ Underway(o, net'[o], Got(o), Said(h)')
  <2>1. CASE SendsPacket(h, n, seg)
    <3>1. /\ seg \in Segment /\ net' = Emit(n, h, seg)
          /\ IsPacket(o, Said(h) + 1, seg) /\ Said(h)' = Said(h) + 1
      BY <1>1, <2>1 DEF SendsPacket
    <3>2. net' = [n EXCEPT ![o] = Append(@, seg)]
      BY <1>1, <3>1 DEF Emit, IsPacket
    <3>3. net'[h] = n[h] /\ net'[o] = Append(net[o], seg)
      BY <1>1, <1>5, <3>2
    <3>4. Underway(o, Append(net[o], seg), Got(o), Said(h) + 1)
      BY <1>2, <1>3, <3>1, OneMore
    <3> QED
      BY <3>1, <3>3, <3>4
  <2>2. CASE net' = n /\ Said(h)' = Said(h)
    BY <1>3, <1>5, <2>2
  <2> QED
    BY <2>1, <2>2
<1>7. Underway(h, net'[h], Got(h)', Said(o)') /\ Underway(o, net'[o], Got(o)', Said(h)')
  BY <1>4, <1>5, <1>6
<1>8. ASSUME NEW g \in Hosts PROVE Underway(g, net'[g], Got(g)', Said(Other(g))')
  BY <1>1, <1>7
<1> QED
  BY <1>8 DEF Packets

-----------------------------------------------------------------------------
(* Steps of an undisturbed connection.                                      *)

\* One side changes nothing that the other side's part of the invariant speaks of.
ClientRests == /\ UNCHANGED wait_connect /\ sk'["K"] = sk["K"] /\ app'["client"] = app["client"]
               /\ closeTo'["client"] = closeTo["client"] /\ rx'["client"] = rx["client"]
ServerRests == /\ sk'["L"] = sk["L"] /\ sk'["C"] = sk["C"] /\ app'["server"] = app["server"]
               /\ closeTo'["server"] = closeTo["server"] /\ rx'["server"] = rx["server"]

\* Then that part, and the number of packets of that side, stay as they are.
LEMMA ResterKeeps ==
  /\ ClientRests => /\ ClientSide => ClientSide'
                    /\ Got("client")' = Got("client") /\ Said("client")' = Said("client")
  /\ ServerRests => /\ ServerSide => ServerSide'
                    /\ Got("server")' = Got("server") /\ Said("server")' = Said("server")
<1>1. ASSUME ClientRests PROVE Got("client")' = Got("client") /\ Said("client")' = Said("client")
  BY <1>1 DEF ClientRests, Got, Said
<1>2. ASSUME ServerRests PROVE Got("server")' = Got("server") /\ Said("server")' = Said("server")
  BY <1>2 DEF ServerRests, Got, Said
<1>3. ASSUME ClientRests, ClientSide PROVE ClientSide'
  BY <1>3 DEF ClientRests, ClientSide
<1>4. ASSUME ServerRests, ServerSide PROVE ServerSide'
  BY <1>4 DEF ServerRests, ServerSide
<1> QED
  BY <1>1, <1>2, <1>3, <1>4

\* A step of one side leaves the other alone and keeps its own part.
Moves(h) ==
  IF h = "client" THEN ServerRests /\ ClientSide' ELSE ClientRests /\ ServerSide'

\* The two sides and the packets between them.
InStep == ClientSide /\ ServerSide /\ Packets

\* A step of one side, with the packet it takes and the packet it sends.
LEMMA SideMoves ==
  ASSUME TypeOK, InStep, NEW h \in Hosts, Moves(h), NEW n, NEW seg,
         TakesOnePacket(h, n) \/ (n = net /\ Got(h)' = Got(h)),
         SendsPacket(h, n, seg) \/ (net' = n /\ Said(h)' = Said(h))
  PROVE  InStep'
<1>1. OtherQuiet(h)
  BY ResterKeeps DEF Moves, OtherQuiet, Other, Hosts
<1>2. Packets'
  BY <1>1, Traffic DEF InStep
<1>3. ClientSide' /\ ServerSide'
  BY ResterKeeps DEF Moves, InStep, Hosts
<1> QED
  BY <1>2, <1>3 DEF InStep

\* A step that neither takes nor sends a packet.
LEMMA SideStays ==
  ASSUME TypeOK, InStep, NEW h \in Hosts, Moves(h), net' = net, Got(h)' = Got(h), Said(h)' = Said(h)
  PROVE  InStep'
<1>1. PICK n : n = net
  OBVIOUS
<1> QED
  BY <1>1, SideMoves

\* One sock written as a whole.
LEMMA Replaced ==
  ASSUME TypeOK, NEW s \in Socks, NEW r, sk' = [sk EXCEPT ![s] = r]
  PROVE  sk'[s] = r /\ \A x \in Socks \ {s} : sk'[x] = sk[x]
  BY DEF TypeOK

\* The numbers in a sock, and in the packet it sends.
Numbers(r, st, snd, rcv) == r \in Sock /\ r.state = st /\ r.snd_nxt = snd /\ r.rcv_nxt = rcv

\* A control packet carries the sock's number; SYN and FIN take one.
LEMMA NumbersSent ==
  ASSUME ConnAssumption, NEW r, NEW st, NEW snd, NEW rcv, Numbers(r, st, snd, rcv),
         NEW s \in Socks \ {"X"}, NEW flags \in SUBSET Flags
  PROVE  /\ Numbers(AfterControl(r, flags), st, IF Consumes(flags) THEN SeqInc(snd) ELSE snd, rcv)
         /\ ControlPacket(s, r, flags) \in Segment /\ ControlPacket(s, r, flags).flags = flags
         /\ ControlPacket(s, r, flags).seq = snd /\ ControlPacket(s, r, flags).conn = "k"
<1>1. r \in Sock /\ snd \in SeqNo /\ r.snd_nxt = snd /\ r.state = st /\ r.rcv_nxt = rcv
  BY DEF Numbers, Sock
<1>2. SeqInc(snd) \in SeqNo
  BY <1>1, SeqNoRange
<1>3. PICK k \in SeqNo : k = IF Consumes(flags) THEN SeqInc(snd) ELSE snd
  BY <1>1, <1>2
<1>4. AfterControl(r, flags) = [r EXCEPT !.snd_nxt = k]
  BY <1>1, <1>3 DEF AfterControl
<1>5. Numbers([r EXCEPT !.snd_nxt = k], st, k, rcv)
  BY <1>1 DEF Numbers, Sock
<1>6. ControlPacket(s, r, flags) \in Segment /\ ControlPacket(s, r, flags).flags = flags
  BY <1>1, Controls
<1>7. ControlPacket(s, r, flags).seq = snd /\ ControlPacket(s, r, flags).conn = "k"
  BY <1>1 DEF ControlPacket
<1> QED
  BY <1>3, <1>4, <1>5, <1>6, <1>7

\* A new sock starts with the initial number.
LEMMA NumbersAllocated ==
  ASSUME ConnAssumption, NEW n \in SeqNo
  PROVE  Numbers(alloc_tcp_sock(n), "CLOSED", n, 0)
<1>1. Looks(alloc_tcp_sock(n), "CLOSED", "no", FALSE, 0, -1, FALSE)
  BY Allocated
<1>2. alloc_tcp_sock(n).snd_nxt = n /\ alloc_tcp_sock(n).rcv_nxt = 0
  BY DEF alloc_tcp_sock, NoSock
<1> QED
  BY <1>1, <1>2 DEF Looks, Numbers

\* A state is written, ...
LEMMA NumbersMoved ==
  ASSUME NEW r, NEW st, NEW snd, NEW rcv, Numbers(r, st, snd, rcv), NEW to \in States
  PROVE  Numbers([r EXCEPT !.state = to], to, snd, rcv)
  BY DEF Numbers, Sock

\* ... a number is taken from a packet, ...
LEMMA NumbersHeard ==
  ASSUME NEW r, NEW st, NEW snd, NEW rcv, Numbers(r, st, snd, rcv), NEW k \in SeqNo
  PROVE  Numbers([r EXCEPT !.rcv_nxt = k], st, snd, k)
  BY DEF Numbers, Sock

\* ... and neither the tables ...
LEMMA NumbersHashed ==
  ASSUME NEW r, NEW st, NEW snd, NEW rcv, Numbers(r, st, snd, rcv)
  PROVE  Numbers(tcp_hash(r), st, snd, rcv) /\ Numbers(tcp_bind_hash(r), st, snd, rcv)
<1>1. r \in Sock /\ r.ref_cnt + 1 \in Int /\ r.state = st /\ r.snd_nxt = snd /\ r.rcv_nxt = rcv
  BY DEF Numbers, Sock
<1>2. Numbers(tcp_bind_hash(r), st, snd, rcv)
  BY <1>1 DEF tcp_bind_hash, Sock, Numbers
<1>3. CASE r.state = "CLOSED"
  BY <1>2, <1>3 DEF tcp_hash
<1>4. CASE r.state # "CLOSED"
  <2>1. PICK k \in {"no", "listen", "established"} :
                k = IF r.state = "LISTEN" THEN "listen" ELSE "established"
    OBVIOUS
  <2>2. tcp_hash(r) = [r EXCEPT !.hashed = k, !.ref_cnt = r.ref_cnt + 1]
    BY <1>4, <2>1 DEF tcp_hash
  <2>3. Numbers([r EXCEPT !.hashed = k, !.ref_cnt = r.ref_cnt + 1], st, snd, rcv)
    BY <1>1 DEF Numbers, Sock
  <2> QED
    BY <1>2, <2>2, <2>3
<1> QED
  BY <1>3, <1>4

\* ... nor the references touch the numbers.
LEMMA NumbersReleased ==
  ASSUME NEW r, NEW st, NEW snd, NEW rcv, Numbers(r, st, snd, rcv)
  PROVE  /\ Numbers(free_tcp_sock(r), st, snd, rcv) /\ Numbers(tcp_bind_unhash(r), st, snd, rcv)
         /\ \A k \in Int : /\ Numbers([r EXCEPT !.timer = k], st, snd, rcv)
                           /\ Numbers([r EXCEPT !.ref_cnt = k], st, snd, rcv)
<1>1. ASSUME NEW q, Numbers(q, st, snd, rcv) PROVE Numbers(free_tcp_sock(q), st, snd, rcv)
  <2>1. q \in Sock /\ q.state = st /\ q.snd_nxt = snd /\ q.rcv_nxt = rcv
    BY <1>1 DEF Numbers
  <2> DEFINE b == (q.ref_cnt - 1 <= 0)
  <2>2. b \in BOOLEAN /\ q.ref_cnt - 1 \in Int
    BY <2>1 DEF Sock
  <2>3. PICK k \in Int : k = q.ref_cnt - 1
    BY <2>2
  <2>4. free_tcp_sock(q) = [q EXCEPT !.ref_cnt = k, !.freed = b]
    BY <2>3 DEF free_tcp_sock
  <2> HIDE DEF b
  <2>5. Numbers([q EXCEPT !.ref_cnt = k, !.freed = b], st, snd, rcv)
    BY <2>1, <2>2 DEF Numbers, Sock
  <2> QED
    BY <2>4, <2>5
<1>2. Numbers([r EXCEPT !.bound = FALSE], st, snd, rcv)
  BY DEF Numbers, Sock
<1>3. Numbers(tcp_bind_unhash(r), st, snd, rcv)
  BY <1>1, <1>2 DEF tcp_bind_unhash
<1>4. ASSUME NEW k \in Int
      PROVE  /\ Numbers([r EXCEPT !.timer = k], st, snd, rcv)
             /\ Numbers([r EXCEPT !.ref_cnt = k], st, snd, rcv)
  BY DEF Numbers, Sock
<1> QED
  BY <1>1, <1>3, <1>4

-----------------------------------------------------------------------------
(* The applications of an undisturbed connection.                           *)

\* The client connects, ...
LEMMA ConnectInStep ==
  ASSUME ConnAssumption, Inv1, InStep, Connect PROVE InStep'
<1> DEFINE a == alloc_tcp_sock(ClientISS)
           b == [tcp_bind_hash(a) EXCEPT !.state = "SYN_SENT"]
           r == tcp_hash(b)
<1>1. TypeOK
  BY DEF Inv1
<1>2. Numbers(a, "CLOSED", ClientISS, 0)
  BY NumbersAllocated DEF ConnAssumption, SeqNo
<1>3. Numbers(b, "SYN_SENT", ClientISS, 0)
  <2>1. "SYN_SENT" \in States
    BY DEF States
  <2>2. Numbers(tcp_bind_hash(a), "CLOSED", ClientISS, 0)
    BY <1>2, NumbersHashed
  <2> QED
    BY <2>1, <2>2, NumbersMoved
<1>4. Numbers(r, "SYN_SENT", ClientISS, 0)
  <2> HIDE DEF b
  <2> QED
    BY <1>3, NumbersHashed
<1>5. /\ sk' = [sk EXCEPT !["K"] = AfterControl(r, {"SYN"})]
      /\ net' = Emit(net, "client", ControlPacket("K", r, {"SYN"}))
      /\ app["client"] = "start" /\ app' = [app EXCEPT !["client"] = "sleep_on"]
      /\ UNCHANGED <<wait_connect, closeTo, rx>>
  BY DEF Connect, Goto, waits
<1> HIDE DEF r
<1>6. {"SYN"} \in SUBSET Flags /\ "K" \in Socks \ {"X"} /\ Consumes({"SYN"})
  BY DEF Flags, Socks, Consumes
<1>7. PICK seg : seg = ControlPacket("K", r, {"SYN"})
  OBVIOUS
<1>8. seg \in Segment /\ seg.flags = {"SYN"} /\ seg.seq = ClientISS /\ seg.conn = "k"
  BY <1>4, <1>6, <1>7, NumbersSent
<1>9. PICK k : k = AfterControl(r, {"SYN"}) /\ Numbers(k, "SYN_SENT", SeqInc(ClientISS), 0)
  BY <1>4, <1>6, NumbersSent
<1>10. sk'["K"] = k /\ \A x \in Socks \ {"K"} : sk'[x] = sk[x]
  BY <1>1, <1>5, <1>6, <1>9, Replaced
<1>11. app'["client"] = "sleep_on" /\ app'["server"] = app["server"]
  BY <1>1, <1>5 DEF TypeOK, Hosts
<1>12. sk["K"].state = "none"
  BY <1>5 DEF InStep, ClientSide
<1>13. ClientSide'
  BY <1>5, <1>9, <1>10, <1>11, <1>12 DEF InStep, ClientSide, Numbers
<1>14. Moves("client")
  BY <1>5, <1>10, <1>11, <1>13 DEF Moves, ServerRests, Socks
<1>15. Got("client")' = Got("client") /\ Said("client") = 0 /\ Said("client")' = Said("client") + 1
  BY <1>9, <1>10, <1>12 DEF Numbers, Got, Said, ClientGot, ClientSaid, One
<1>16. IsPacket("server", 1, seg)
  BY <1>8 DEF IsPacket, FirstSeq, Other
<1>17. SendsPacket("client", net, seg)
  BY <1>5, <1>7, <1>8, <1>15, <1>16 DEF SendsPacket, Other
<1> QED
  BY <1>1, <1>14, <1>15, <1>17, SideMoves DEF Hosts

\* ... waits until it is told, ...
LEMMA ConnectWaitInStep ==
  ASSUME Inv1, ~ env.spurious, InStep, ConnectSleep \/ ConnectWake PROVE InStep'
<1>1. TypeOK /\ wait_connect \in WaitStruct({"client"})
  BY DEF Inv1, TypeOK
<1>2. /\ UNCHANGED <<sk, closeTo, rx, net>> /\ app["client"] \in {"sleep_on", "blocked"}
      /\ \E p \in {"sleep_on", "blocked", "sleep"} : app' = [app EXCEPT !["client"] = p]
  BY DEF ConnectSleep, ConnectWake, Goto
<1>3. app'["client"] \in {"sleep_on", "blocked", "sleep"} /\ app'["server"] = app["server"]
  BY <1>1, <1>2 DEF TypeOK, Hosts
<1>4. sk["K"].state \in {"SYN_SENT", "ESTABLISHED"}
  BY <1>2 DEF InStep, ClientSide
<1>5. CASE ConnectSleep
  <2>1. /\ wait_connect' = sleep_on(wait_connect, "client")
        /\ app'["client"] = IF "client" \in wait_connect'.waiting THEN "blocked" ELSE "sleep"
    BY <1>1, <1>5 DEF ConnectSleep, Goto, TypeOK, Hosts
  <2>2. ~ wait_connect.dead
    BY DEF InStep, ClientSide
  <2>3. CASE wait_connect.notified
    <3>1. /\ ~ wait_connect'.dead /\ ~ wait_connect'.notified /\ wait_connect'.signaled = wait_connect.signaled
      BY <1>1, <2>1, <2>2, <2>3 DEF sleep_on, WaitStruct
    <3>2. sk["K"].state = "ESTABLISHED"
      BY <1>4, <2>3 DEF InStep, ClientSide
    <3>3. app'["client"] \in {"blocked", "sleep"}
      BY <2>1
    <3> QED
      <4>1. ClientSide'
        BY <1>2, <3>1, <3>2, <3>3 DEF InStep, ClientSide
      <4>2. Moves("client")
        BY <1>2, <1>3, <4>1 DEF Moves, ServerRests
      <4>3. Got("client")' = Got("client") /\ Said("client")' = Said("client")
        BY <1>2, <1>3, <3>2 DEF Got, Said, ClientSaid
      <4> QED
        BY <1>1, <1>2, <4>2, <4>3, SideStays DEF Hosts
  <2>4. CASE ~ wait_connect.notified
    <3>1. /\ ~ wait_connect'.dead /\ ~ wait_connect'.notified /\ wait_connect'.signaled = wait_connect.signaled
          /\ "client" \in wait_connect'.waiting
      BY <1>1, <2>1, <2>2, <2>4 DEF sleep_on, WaitStruct
    <3>2. app'["client"] = "blocked"
      BY <2>1, <3>1
    <3>3. ClientSide'
      BY <1>2, <1>4, <3>1, <3>2 DEF InStep, ClientSide
    <3>4. Moves("client")
      BY <1>2, <1>3, <3>3 DEF Moves, ServerRests
    <3>5. Got("client")' = Got("client") /\ Said("client")' = Said("client")
      BY <1>2, <1>3 DEF Got, Said, ClientSaid
    <3> QED
      BY <1>1, <1>2, <3>4, <3>5, SideStays DEF Hosts
  <2> QED
    BY <2>3, <2>4
<1>6. CASE ConnectWake
  <2>1. /\ wait_connect' = resume(wait_connect, "client") /\ app'["client"] = "sleep"
        /\ "client" \in wait_connect.signaled
    BY <1>1, <1>6 DEF ConnectWake, CanResume, Goto, TypeOK, Hosts
  <2>2. ~ wait_connect'.dead /\ ~ wait_connect'.notified
    BY <1>1, <2>1 DEF resume, WaitStruct, InStep, ClientSide
  <2>3. sk["K"].state = "ESTABLISHED"
    BY <1>4, <2>1 DEF InStep, ClientSide
  <2>4. ClientSide'
    BY <1>2, <2>1, <2>2, <2>3 DEF InStep, ClientSide
  <2>5. Moves("client")
    BY <1>2, <1>3, <2>4 DEF Moves, ServerRests
  <2>6. Got("client")' = Got("client") /\ Said("client")' = Said("client")
    BY <1>2, <1>3, <2>3 DEF Got, Said, ClientSaid
  <2> QED
    BY <1>1, <1>2, <2>5, <2>6, SideStays DEF Hosts
<1> QED
  BY <1>5, <1>6

\* ... and the server listens and accepts.
LEMMA AcceptInStep ==
  ASSUME ConnAssumption, Inv1, InStep,
         Listen \/ AcceptTest \/ AcceptSleep \/ AcceptWake \/ AcceptDequeue \/ AcceptUncount
  PROVE  InStep'
<1>1. TypeOK
  BY DEF Inv1
<1>2. /\ UNCHANGED <<wait_connect, closeTo, rx, net>>
      /\ app["server"] \in {"start", "accept", "sleep_on", "blocked", "dequeue", "uncount_load", "uncount_store"}
      /\ \E p \in {"accept", "sleep_on", "blocked", "dequeue", "uncount_load", "uncount_store", "sleep"} :
           app' = [app EXCEPT !["server"] = p]
  BY DEF Listen, AcceptTest, AcceptSleep, AcceptWake, AcceptDequeue, AcceptUncount, Goto, waits
<1>3. /\ app'["client"] = app["client"]
      /\ app'["server"] \in {"accept", "sleep_on", "blocked", "dequeue", "uncount_load", "uncount_store", "sleep"}
  BY <1>1, <1>2 DEF TypeOK, Hosts
<1>4. /\ \A x \in Socks \ {"L"} : sk'[x] = sk[x]
      /\ sk'["L"].state # "none" => sk'["L"].snd_nxt = ServerISS
  <2>1. CASE Listen
    <3> DEFINE a == alloc_tcp_sock(ServerISS)
               b == [tcp_bind_hash(a) EXCEPT !.state = "LISTEN"]
    <3>1. Numbers(a, "CLOSED", ServerISS, 0)
      BY NumbersAllocated DEF ConnAssumption, SeqNo
    <3>2. Numbers(b, "LISTEN", ServerISS, 0)
      <4>1. "LISTEN" \in States
        BY DEF States
      <4>2. Numbers(tcp_bind_hash(a), "CLOSED", ServerISS, 0)
        BY <3>1, NumbersHashed
      <4> QED
        BY <4>1, <4>2, NumbersMoved
    <3>3. sk' = [sk EXCEPT !["L"] = tcp_hash(b)] /\ "L" \in Socks
      BY <2>1 DEF Listen, Socks
    <3> HIDE DEF b
    <3>4. PICK r : r = tcp_hash(b) /\ Numbers(r, "LISTEN", ServerISS, 0)
      BY <3>2, NumbersHashed
    <3>5. sk'["L"] = r /\ \A x \in Socks \ {"L"} : sk'[x] = sk[x]
      BY <1>1, <3>3, <3>4, Replaced
    <3> QED
      BY <3>4, <3>5 DEF Numbers
  <2>2. CASE AcceptTest \/ AcceptSleep \/ AcceptWake \/ AcceptDequeue \/ AcceptUncount
    <3>1. sk' = sk
      BY <2>2 DEF AcceptTest, AcceptSleep, AcceptWake, AcceptDequeue, AcceptUncount
    <3> QED
      BY <3>1 DEF InStep, ServerSide
  <2> QED
    BY <2>1, <2>2
<1>5. sk'["C"] = sk["C"] /\ sk'["K"] = sk["K"]
  BY <1>4 DEF Socks
<1>6. ServerSide'
  BY <1>2, <1>3, <1>4, <1>5 DEF InStep, ServerSide
<1>7. Moves("server")
  BY <1>2, <1>3, <1>5, <1>6 DEF Moves, ClientRests
<1>8. Got("server")' = Got("server") /\ Said("server")' = Said("server")
  BY <1>2, <1>3, <1>5 DEF Got, Said, ServerSaid
<1> QED
  BY <1>1, <1>2, <1>7, <1>8, SideStays DEF Hosts

\* What the server's application holds is C.
LEMMA HoldsC ==
  ASSUME Inv1, Inv2, HostsSurvive, Undisturbed,
         app["server"] \in {"sleep", "set_state", "send_fin"}
  PROVE  csk = "C" /\ sk["C"].state \in Opened
<1>1. sk["X"].state = "none" /\ \A h \in Hosts : Running(h)
  BY Calm
<1>2. csk = MySock("server") /\ sk[csk].state \in Opened /\ csk \in Socks \ {"L"} /\ Host(csk) = "server"
  BY <1>1, Mine DEF Hosts
<1>3. "none" \notin Opened
  BY DEF Opened
<1> QED
  BY <1>1, <1>2, <1>3 DEF Socks, Host

\* The client closes while it is ESTABLISHED, and the server after it, when the client's
\* FIN has been taken; ...
LEMMA CloseSwitchInStep ==
  ASSUME Inv1, Inv2, HostsSurvive, Undisturbed, InStep, NEW h \in Hosts, CloseSwitch(h)
  PROVE  InStep'
<1>1. TypeOK /\ env.timely
  BY Calm
<1>2. /\ UNCHANGED <<sk, wait_connect, csk, rx, net>> /\ app[h] = "sleep"
      /\ closeTo' = [closeTo EXCEPT ![h] = CloseBranch(sk[MySock(h)].state)]
      /\ app' = [app EXCEPT ![h] = IF CloseBranch(sk[MySock(h)].state) = "none" THEN "done" ELSE "set_state"]
  BY DEF CloseSwitch, Goto, waits
<1>3. /\ closeTo'[h] = CloseBranch(sk[MySock(h)].state)
      /\ app'[h] = IF CloseBranch(sk[MySock(h)].state) = "none" THEN "done" ELSE "set_state"
      /\ \A g \in Hosts \ {h} : closeTo'[g] = closeTo[g] /\ app'[g] = app[g]
  BY <1>1, <1>2 DEF TypeOK
<1>4. CASE h = "client"
  <2>1. sk["K"].state = "ESTABLISHED" /\ MySock(h) = "K"
    BY <1>2, <1>4 DEF InStep, ClientSide, MySock
  <2>2. closeTo'["client"] = "FIN_WAIT_1" /\ app'["client"] = "set_state"
    BY <1>3, <1>4, <2>1, Branches
  <2>3. ClientSide'
    BY <1>2, <1>4, <2>1, <2>2 DEF InStep, ClientSide
  <2>4. Moves("client")
    BY <1>2, <1>3, <1>4, <2>3 DEF Moves, ServerRests, Hosts
  <2>5. Got("client")' = Got("client") /\ Said("client")' = Said("client")
    BY <1>2, <1>4, <2>1, <2>2 DEF Got, Said, ClientSaid
  <2> QED
    BY <1>1, <1>2, <2>4, <2>5, SideStays DEF Hosts
<1>5. CASE h = "server"
  <2>1. csk = "C" /\ sk["C"].state \in Opened /\ MySock(h) = "C"
    BY <1>2, <1>5, HoldsC DEF MySock
  <2>2. app["client"] = "done" /\ net["server"] = <<>>
    BY <1>1, <1>5 DEF CloseSwitch
  <2>3. sk["C"].state = "CLOSE_WAIT"
    <3>1. Underway("server", net["server"], Got("server"), Said("client"))
      BY DEF InStep, Packets, Hosts, Other
    <3>2. Len(net["server"]) = 0
      BY <2>2
    <3>3. Got("server") = Said("client")
      BY <3>1, <3>2, SmallNumbers DEF Underway, Hosts
    <3>4. Said("client") >= 3
      BY <2>2 DEF InStep, ClientSide, Said, ClientSaid
    <3>5. sk["C"].state \in {"none", "SYN_RECV", "ESTABLISHED", "CLOSE_WAIT"} /\ rx["server"] = RxIdle
      BY <1>1, <1>2, <1>5 DEF InStep, ServerSide, CloseSwitch
    <3> QED
      BY <3>3, <3>4, <3>5 DEF Got, ServerGot, One, RxIdle
  <2>4. closeTo'["server"] = "LAST_ACK" /\ app'["server"] = "set_state"
    BY <1>3, <1>5, <2>1, <2>3, Branches
  <2>5. ServerSide'
    BY <1>2, <1>5, <2>3, <2>4 DEF InStep, ServerSide
  <2>6. Moves("server")
    BY <1>2, <1>3, <1>5, <2>5 DEF Moves, ClientRests, Hosts
  <2>7. Got("server")' = Got("server") /\ Said("server")' = Said("server")
    BY <1>2, <1>5, <2>4 DEF Got, Said, ServerSaid
  <2> QED
    BY <1>1, <1>2, <2>6, <2>7, SideStays DEF Hosts
<1> QED
  BY <1>4, <1>5 DEF Hosts

\* ... each writes the state it has chosen ...
LEMMA CloseSetStateInStep ==
  ASSUME Inv1, Inv2, HostsSurvive, Undisturbed, InStep, NEW h \in Hosts, CloseSetState(h)
  PROVE  InStep'
<1>1. TypeOK
  BY Calm
<1>2. /\ UNCHANGED <<wait_connect, closeTo, rx, net>> /\ app[h] = "set_state"
      /\ sk' = [sk EXCEPT ![MySock(h)].state = closeTo[h]]
      /\ app' = [app EXCEPT ![h] = "send_fin"]
  BY DEF CloseSetState, Goto, waits
<1>3. app'[h] = "send_fin" /\ \A g \in Hosts \ {h} : app'[g] = app[g]
  BY <1>1, <1>2 DEF TypeOK
<1>4. CASE h = "client"
  <2>1. /\ sk["K"].state = "ESTABLISHED" /\ MySock(h) = "K" /\ closeTo["client"] = "FIN_WAIT_1"
        /\ "K" \in Socks /\ "FIN_WAIT_1" \in States
    BY <1>2, <1>4 DEF InStep, ClientSide, MySock, Socks, States
  <2>2. PICK snd, rcv : Numbers(sk["K"], "ESTABLISHED", snd, rcv)
    BY <1>1, <2>1 DEF TypeOK, Numbers
  <2>3. PICK r : /\ r = [sk["K"] EXCEPT !.state = "FIN_WAIT_1"]
                 /\ Numbers(r, "FIN_WAIT_1", snd, rcv)
    BY <2>1, <2>2, NumbersMoved
  <2>4. sk' = [sk EXCEPT !["K"] = r]
    BY <1>2, <1>4, <2>1, <2>3
  <2>5. sk'["K"] = r /\ sk'["L"] = sk["L"] /\ sk'["C"] = sk["C"]
    BY <1>1, <2>1, <2>4, Replaced DEF Socks
  <2>6. r.state = "FIN_WAIT_1" /\ r.snd_nxt = sk["K"].snd_nxt /\ r.rcv_nxt = sk["K"].rcv_nxt
    BY <2>2, <2>3 DEF Numbers
  <2>7. ClientSide'
    BY <1>2, <1>3, <1>4, <2>1, <2>5, <2>6 DEF InStep, ClientSide
  <2>8. Moves("client")
    BY <1>2, <1>3, <1>4, <2>5, <2>7 DEF Moves, ServerRests, Hosts
  <2>9. Got("client")' = Got("client") /\ Said("client")' = Said("client")
    BY <1>2, <1>3, <1>4, <2>1, <2>3, <2>5 DEF Got, Said, ClientGot, ClientSaid, One, Numbers
  <2> QED
    BY <1>1, <1>2, <2>8, <2>9, SideStays DEF Hosts
<1>5. CASE h = "server"
  <2>1. /\ sk["C"].state = "CLOSE_WAIT" /\ MySock(h) = "C" /\ closeTo["server"] = "LAST_ACK"
        /\ "C" \in Socks /\ "LAST_ACK" \in States
    BY <1>2, <1>5, HoldsC DEF InStep, ServerSide, MySock, Socks, States
  <2>2. PICK snd, rcv : Numbers(sk["C"], "CLOSE_WAIT", snd, rcv)
    BY <1>1, <2>1 DEF TypeOK, Numbers
  <2>3. PICK r : /\ r = [sk["C"] EXCEPT !.state = "LAST_ACK"]
                 /\ Numbers(r, "LAST_ACK", snd, rcv)
    BY <2>1, <2>2, NumbersMoved
  <2>4. sk' = [sk EXCEPT !["C"] = r]
    BY <1>2, <1>5, <2>1, <2>3
  <2>5. sk'["C"] = r /\ sk'["L"] = sk["L"] /\ sk'["K"] = sk["K"]
    BY <1>1, <2>1, <2>4, Replaced DEF Socks
  <2>6. r.state = "LAST_ACK" /\ r.snd_nxt = sk["C"].snd_nxt /\ r.rcv_nxt = sk["C"].rcv_nxt
    BY <2>2, <2>3 DEF Numbers
  <2>7. ServerSide'
    BY <1>2, <1>3, <1>5, <2>1, <2>5, <2>6 DEF InStep, ServerSide, ServerGot
  <2>8. Moves("server")
    BY <1>2, <1>3, <1>5, <2>5, <2>7 DEF Moves, ClientRests, Hosts
  <2>9. Got("server")' = Got("server") /\ Said("server")' = Said("server")
    BY <1>2, <1>3, <1>5, <2>1, <2>3, <2>5 DEF Got, Said, ServerGot, ServerSaid, One, Numbers
  <2> QED
    BY <1>1, <1>2, <2>8, <2>9, SideStays DEF Hosts
<1> QED
  BY <1>4, <1>5 DEF Hosts

\* ... and sends its FIN.
LEMMA CloseSendFinInStep ==
  ASSUME ConnAssumption, Inv1, Inv2, HostsSurvive, Undisturbed, InStep, NEW h \in Hosts, CloseSendFin(h)
  PROVE  InStep'
<1>1. TypeOK
  BY Calm
<1>2. /\ UNCHANGED <<wait_connect, closeTo, rx>> /\ app[h] = "send_fin"
      /\ net' = Emit(net, h, ControlPacket(MySock(h), sk[MySock(h)], {"FIN", "ACK"}))
      /\ sk' = [sk EXCEPT ![MySock(h)] = AfterControl(sk[MySock(h)], {"FIN", "ACK"})]
      /\ app' = [app EXCEPT ![h] = "done"]
  BY DEF CloseSendFin, Goto, waits
<1>3. app'[h] = "done" /\ \A g \in Hosts \ {h} : app'[g] = app[g]
  BY <1>1, <1>2 DEF TypeOK
<1>4. PICK s \in Socks \ {"X", "L"} : /\ s = MySock(h) /\ s = IF h = "client" THEN "K" ELSE "C"
  BY <1>2, HoldsC DEF MySock, Hosts, Socks
<1>5. {"FIN", "ACK"} \in SUBSET Flags /\ Consumes({"FIN", "ACK"})
  BY DEF Flags, Consumes
<1>6. PICK st, snd, rcv : Numbers(sk[s], st, snd, rcv)
  BY <1>1, <1>4 DEF TypeOK, Numbers
<1>7. PICK seg : seg = ControlPacket(s, sk[s], {"FIN", "ACK"})
  OBVIOUS
<1>8. seg \in Segment /\ seg.flags = {"FIN", "ACK"} /\ seg.seq = snd /\ seg.conn = "k"
  BY <1>4, <1>5, <1>6, <1>7, NumbersSent
<1>9. PICK r : r = AfterControl(sk[s], {"FIN", "ACK"}) /\ Numbers(r, st, SeqInc(snd), rcv)
  BY <1>4, <1>5, <1>6, NumbersSent
<1>10. net' = Emit(net, h, seg) /\ sk' = [sk EXCEPT ![s] = r]
  BY <1>2, <1>4, <1>7, <1>9
<1>11. sk'[s] = r /\ \A x \in Socks \ {s} : sk'[x] = sk[x]
  BY <1>1, <1>4, <1>10, Replaced
<1>12. CASE h = "client"
  <2>1. s = "K" /\ sk["K"].state = "FIN_WAIT_1" /\ closeTo["client"] = "FIN_WAIT_1"
        /\ sk["K"].snd_nxt = SeqInc(ClientISS)
    BY <1>2, <1>4, <1>12 DEF InStep, ClientSide
  <2>2. st = "FIN_WAIT_1" /\ snd = SeqInc(ClientISS) /\ rcv = sk["K"].rcv_nxt
    BY <1>6, <2>1 DEF Numbers
  <2>3. ClientSide'
    BY <1>2, <1>3, <1>9, <1>11, <1>12, <2>1, <2>2 DEF InStep, ClientSide, Numbers
  <2>4. Moves("client")
    BY <1>2, <1>3, <1>11, <1>12, <2>1, <2>3 DEF Moves, ServerRests, Hosts, Socks
  <2>5. Got("client")' = Got("client") /\ Said("client") = 2 /\ Said("client")' = Said("client") + 1
    BY <1>2, <1>3, <1>9, <1>11, <1>12, <2>1, <2>2 DEF Got, Said, ClientGot, ClientSaid, One, Numbers
  <2>6. IsPacket("server", 3, seg)
    BY <1>8, <2>2 DEF IsPacket, FirstSeq, Other
  <2>7. SendsPacket("client", net, seg)
    BY <1>8, <1>10, <1>12, <2>5, <2>6 DEF SendsPacket, Other
  <2> QED
    BY <1>1, <2>4, <2>5, <2>7, SideMoves DEF Hosts
<1>13. CASE h = "server"
  <2>1. s = "C" /\ sk["C"].state = "LAST_ACK" /\ closeTo["server"] = "LAST_ACK"
        /\ sk["C"].snd_nxt = SeqInc(ServerISS)
    BY <1>2, <1>4, <1>13 DEF InStep, ServerSide
  <2>2. st = "LAST_ACK" /\ snd = SeqInc(ServerISS) /\ rcv = sk["C"].rcv_nxt
    BY <1>6, <2>1 DEF Numbers
  <2>3. ServerSide'
    BY <1>2, <1>3, <1>9, <1>11, <1>13, <2>1, <2>2 DEF InStep, ServerSide, Numbers, Socks
  <2>4. Moves("server")
    BY <1>2, <1>3, <1>11, <1>13, <2>1, <2>3 DEF Moves, ClientRests, Hosts, Socks
  <2>5. Got("server")' = Got("server") /\ Said("server") = 2 /\ Said("server")' = Said("server") + 1
    BY <1>2, <1>3, <1>9, <1>11, <1>13, <2>1, <2>2 DEF Got, Said, ServerGot, ServerSaid, One, Numbers
  <2>6. IsPacket("client", 3, seg)
    BY <1>8, <2>2 DEF IsPacket, FirstSeq, Other
  <2>7. SendsPacket("server", net, seg)
    BY <1>8, <1>10, <1>13, <2>5, <2>6 DEF SendsPacket, Other
  <2> QED
    BY <1>1, <2>4, <2>5, <2>7, SideMoves DEF Hosts
<1> QED
  BY <1>12, <1>13 DEF Hosts

-----------------------------------------------------------------------------
(* The packet threads of an undisturbed connection.                         *)

\* A packet that has come is the next one of those sent, and the sock it is for is the
\* one of the connection; L has it as long as there is no C.
LEMMA Reaches ==
  ASSUME Inv1, Inv2, HostsSurvive, Undisturbed, InStep, NEW h \in Hosts, NEW s \in Socks, NEW st,
         ArrivesIn(h, s, st)
  PROVE  /\ sk[s].state = st /\ rx[h].pc = "idle" /\ net[h] # <<>>
         /\ Got(h) < Said(Other(h)) /\ IsPacket(h, Got(h) + 1, Head(net[h]))
         /\ Head(net[h]) \in Segment /\ Head(net[h]).seq \in SeqNo /\ HasRst(h) = FALSE
         /\ h = "client" => s = "K"
         /\ h = "server" => s = "C" \/ (s = "L" /\ sk["C"].state = "none")
<1>1. TypeOK /\ Friendly
  BY Calm DEF Undisturbed
<1>2. /\ sk[s].state = st /\ rx[h] = RxIdle /\ net[h] # <<>> /\ Head(net[h]) \in Segment
      /\ Host(s) = h /\ s = tcp_sock_lookup(h, Head(net[h]).conn) /\ Arrives(h)
  BY <1>1, Arrival DEF ArrivesIn
<1>3. Got(h) < Said(Other(h)) /\ IsPacket(h, Got(h) + 1, Head(net[h]))
  <2>1. Underway(h, net[h], Got(h), Said(Other(h))) /\ net[h] \in Seq(Segment)
    BY <1>1 DEF InStep, Packets, TypeOK
  <2>2. Got(h) \in Nat /\ Said(Other(h)) \in Nat
    BY SmallNumbers, TwoHosts
  <2> QED
    BY <1>2, <2>1, <2>2, OneLess
<1>4. Head(net[h]).conn = "k" /\ "RST" \notin Head(net[h]).flags
  BY <1>3 DEF IsPacket
<1>5. s = "L" => sk["C"].state = "none"
  BY <1>1, <1>2, LookupFinds
<1>6. s # "X"
  BY <1>2, <1>4 DEF tcp_sock_lookup, Child
<1>7. Head(net[h]).seq \in SeqNo
  BY <1>2 DEF Segment
<1> QED
  BY <1>2, <1>3, <1>4, <1>5, <1>6, <1>7 DEF RxIdle, HasRst, Hosts, Socks, Host

\* Where the packet thread goes when the packet has no RST.
LEMMA ThenGoes ==
  ASSUME TypeOK, NEW h \in Hosts, NEW s, NEW p, Then(h, s, p, FALSE)
  PROVE  /\ rx'[Other(h)] = rx[Other(h)]
         /\ rx'[h].pc = IF p = "end" THEN "idle" ELSE p
         /\ rx'[h].sock = IF p = "end" THEN "none" ELSE s
<1>1. rx' = [rx EXCEPT ![h] = IF p = "end" THEN RxIdle ELSE [pc |-> p, sock |-> s, rst |-> FALSE]]
  BY DEF Then
<1>2. PICK r : r = IF p = "end" THEN RxIdle ELSE [pc |-> p, sock |-> s, rst |-> FALSE]
  OBVIOUS
<1>3. rx'[h] = r /\ rx'[Other(h)] = rx[Other(h)]
  BY <1>1, <1>2, TwoHosts DEF TypeOK
<1>4. r.pc = (IF p = "end" THEN "idle" ELSE p) /\ r.sock = IF p = "end" THEN "none" ELSE s
  BY <1>2 DEF RxIdle
<1> QED
  BY <1>3, <1>4

\* SYN_SENT: the client's connection is open, ...
LEMMA RxSynSentInStep ==
  ASSUME ConnAssumption, Inv1, Inv2, HostsSurvive, Undisturbed, InStep, NEW h \in Hosts, NEW s \in Socks,
         RxSynSent(h, s)
  PROVE  InStep'
<1>1. TypeOK /\ ArrivesIn(h, s, "SYN_SENT")
  BY Calm DEF RxSynSent
<1>2. PICK g \in Segment : g = Head(net[h])
  BY <1>1, Reaches
<1>3. /\ sk[s].state = "SYN_SENT" /\ net[h] # <<>> /\ g.seq \in SeqNo /\ rx[h].pc = "idle"
      /\ Got(h) < Said(Other(h)) /\ IsPacket(h, Got(h) + 1, g)
      /\ h = "client" => s = "K"
      /\ h = "server" => s \in {"C", "L"}
  BY <1>1, <1>2, Reaches
<1>4. h = "client" /\ s = "K"
  BY <1>3 DEF Inv1, Roles, Role, Socks, Hosts, Opened
<1>5. Got("client") = 0 /\ Said("client") = 1
  BY <1>3, <1>4 DEF Got, Said, ClientGot, ClientSaid, One
<1>6. g.flags = {"SYN", "ACK"} /\ g.seq = ServerISS
  BY <1>3, <1>4, <1>5 DEF IsPacket, FirstSeq, Other
<1>7. PICK snd, rcv : Numbers(sk["K"], "SYN_SENT", snd, rcv) /\ snd = sk["K"].snd_nxt
  BY <1>1, <1>3, <1>4 DEF TypeOK, Numbers
<1>8. SeqInc(g.seq) \in SeqNo
  BY <1>3, SeqNoRange
<1>9. PICK r : r = [sk["K"] EXCEPT !.rcv_nxt = SeqInc(g.seq)] /\ Numbers(r, "SYN_SENT", snd, SeqInc(ServerISS))
  BY <1>6, <1>7, <1>8, NumbersHeard
<1>10. PICK q : q = [r EXCEPT !.state = "ESTABLISHED"] /\ Numbers(q, "ESTABLISHED", snd, SeqInc(ServerISS))
  BY <1>9, NumbersMoved DEF States
<1>11. PICK seg : seg = ControlPacket("K", r, {"ACK"})
  OBVIOUS
<1>12. seg \in Segment /\ seg.flags = {"ACK"} /\ seg.conn = "k"
  BY <1>4, <1>9, <1>11, NumbersSent DEF Flags, Socks
<1>13. /\ sk' = [sk EXCEPT !["K"] = q] /\ net' = Emit(Rest("client"), "client", seg)
       /\ Then("client", "K", "wake_connect", FALSE)
       /\ UNCHANGED <<wait_connect, app, closeTo>>
  BY <1>2, <1>4, <1>6, <1>9, <1>10, <1>11 DEF RxSynSent, waits, appVars
<1>14. sk'["K"] = q /\ \A x \in Socks \ {"K"} : sk'[x] = sk[x]
  BY <1>1, <1>4, <1>13, Replaced
<1>15. rx'["client"].pc = "wake_connect" /\ rx'["server"] = rx["server"]
  BY <1>1, <1>4, <1>13, ThenGoes DEF Other
<1>16. q.state = "ESTABLISHED" /\ q.snd_nxt = sk["K"].snd_nxt /\ q.rcv_nxt = SeqInc(ServerISS)
  BY <1>7, <1>10 DEF Numbers
<1>17. sk["K"].state = "SYN_SENT"
  BY <1>3, <1>4
<1>18. ClientSide'
  BY <1>13, <1>14, <1>15, <1>16, <1>17 DEF InStep, ClientSide
<1>19. Moves("client")
  BY <1>13, <1>14, <1>15, <1>18 DEF Moves, ServerRests, Socks
<1>20. app["client"] # "done"
  BY <1>17 DEF InStep, ClientSide
<1>21. Got("client")' = Got("client") + 1 /\ Said("client")' = Said("client") + 1
  BY <1>5, <1>13, <1>14, <1>16, <1>20 DEF Got, Said, ClientGot, ClientSaid, One
<1>22. TakesOnePacket("client", Rest("client"))
  BY <1>3, <1>4, <1>21 DEF TakesOnePacket
<1>23. IsPacket("server", 2, seg)
  BY <1>12 DEF IsPacket
<1>24. SendsPacket("client", Rest("client"), seg)
  BY <1>5, <1>12, <1>13, <1>21, <1>23 DEF SendsPacket, Other
<1> QED
  BY <1>1, <1>4, <1>19, <1>22, <1>24, SideMoves

\* ... and SYN_RECV: the server's.
LEMMA RxSynRecvInStep ==
  ASSUME ConnAssumption, Inv1, Inv2, HostsSurvive, Undisturbed, InStep, NEW h \in Hosts, NEW s \in Socks,
         RxSynRecv(h, s)
  PROVE  InStep'
<1>1. TypeOK /\ ArrivesIn(h, s, "SYN_RECV") /\ sk["X"].state = "none"
  BY Calm DEF RxSynRecv
<1>2. /\ sk[s].state = "SYN_RECV" /\ net[h] # <<>> /\ rx[h].pc = "idle"
      /\ h = "client" => s = "K"
      /\ h = "server" => s = "C" \/ (s = "L" /\ sk["C"].state = "none")
      /\ HasRst(h) = FALSE
  BY <1>1, Reaches
<1>3. h = "server"
  BY <1>2 DEF Inv1, Roles, Role, Socks, Hosts, Opened
<1>4. s = "C"
  BY <1>1, <1>2, <1>3 DEF Inv1, Queues, NoChild, OneChild, Opened
<1>5. PICK snd, rcv : /\ Numbers(sk["C"], "SYN_RECV", snd, rcv)
                      /\ snd = sk["C"].snd_nxt /\ rcv = sk["C"].rcv_nxt
  BY <1>1, <1>2, <1>4 DEF TypeOK, Numbers
<1>6. PICK q : q = [sk["C"] EXCEPT !.state = "ESTABLISHED"] /\ Numbers(q, "ESTABLISHED", snd, rcv)
  BY <1>5, NumbersMoved DEF States
<1>7. /\ sk' = [sk EXCEPT !["C"] = q] /\ net' = Rest("server")
      /\ Then("server", "C", "count_load", FALSE)
      /\ UNCHANGED <<wait_connect, app, closeTo>>
  BY <1>2, <1>3, <1>4, <1>6 DEF RxSynRecv, waits, appVars, HasParent
<1>8. sk'["C"] = q /\ \A x \in Socks \ {"C"} : sk'[x] = sk[x]
  BY <1>1, <1>4, <1>7, Replaced
<1>9. rx'["server"].pc = "count_load" /\ rx'["client"] = rx["client"]
  <2>1. /\ rx'[Other("server")] = rx[Other("server")]
        /\ rx'["server"].pc = IF "count_load" = "end" THEN "idle" ELSE "count_load"
    BY <1>1, <1>7, ThenGoes DEF Hosts
  <2> QED
    BY <2>1 DEF Other
<1>10. q.state = "ESTABLISHED" /\ q.snd_nxt = sk["C"].snd_nxt /\ q.rcv_nxt = sk["C"].rcv_nxt
  BY <1>5, <1>6 DEF Numbers
<1>11. sk["C"].state = "SYN_RECV" /\ rx["server"].pc = "idle" /\ sk'["L"] = sk["L"] /\ sk'["K"] = sk["K"]
  BY <1>2, <1>3, <1>4, <1>8 DEF Socks
<1>12. ServerSide'
  BY <1>7, <1>8, <1>9, <1>10, <1>11 DEF InStep, ServerSide, ServerGot, One
<1>13. Moves("server")
  BY <1>7, <1>9, <1>11, <1>12 DEF Moves, ClientRests
<1>14. app["server"] # "done"
  BY <1>11 DEF InStep, ServerSide
<1>15. Got("server")' = Got("server") + 1 /\ Said("server")' = Said("server")
  BY <1>7, <1>8, <1>9, <1>10, <1>11, <1>14 DEF Got, Said, ServerGot, ServerSaid, One
<1>16. TakesOnePacket("server", Rest("server"))
  BY <1>2, <1>3, <1>15 DEF TakesOnePacket
<1> QED
  BY <1>1, <1>3, <1>7, <1>13, <1>15, <1>16, SideMoves

\* A packet after its first one comes to the client when it is done, ...
LEMMA ClientIsDone ==
  ASSUME InStep, Said("server") >= 2
  PROVE  app["client"] = "done"
<1>1. Got("server") >= 3
  BY DEF InStep, ServerSide, Said, ServerSaid, Got, ServerGot, One
<1>2. Got("server") <= Said("client")
  BY DEF InStep, Packets, Underway, Hosts, Other
<1>3. Said("client") >= 3
  BY <1>1, <1>2, SmallNumbers DEF Hosts
<1> QED
  BY <1>3 DEF InStep, ClientSide, Said, ClientSaid, One

\* ... and the last one to the server when it is.
LEMMA ServerIsDone ==
  ASSUME InStep, Said("client") >= 4
  PROVE  app["server"] = "done"
<1>1. Got("client") = 3
  BY DEF Said, ClientSaid, Got, ClientGot, One
<1>2. Got("client") <= Said("server")
  BY DEF InStep, Packets, Underway, Hosts, Other
<1>3. Said("server") >= 3
  BY <1>1, <1>2, SmallNumbers DEF Hosts
<1> QED
  BY <1>3 DEF Said, ServerSaid, One

\* ESTABLISHED: the FIN of the client; none has come for K, the server closes later.
LEMMA RxEstablishedInStep ==
  ASSUME ConnAssumption, Inv1, Inv2, HostsSurvive, Undisturbed, InStep, NEW h \in Hosts, NEW s \in Socks,
         RxEstablished(h, s)
  PROVE  InStep'
<1>1. TypeOK /\ ArrivesIn(h, s, "ESTABLISHED") /\ Running("server")
  BY Calm DEF RxEstablished, Hosts
<1>2. PICK g \in Segment : g = Head(net[h])
  BY <1>1, Reaches
<1>3. /\ sk[s].state = "ESTABLISHED" /\ net[h] # <<>> /\ g.seq \in SeqNo /\ rx[h].pc = "idle"
      /\ Got(h) < Said(Other(h)) /\ IsPacket(h, Got(h) + 1, g) /\ HasRst(h) = FALSE
      /\ h = "client" => s = "K"
      /\ h = "server" => s \in {"C", "L"}
  BY <1>1, <1>2, Reaches
<1>4. s # "L"
  BY <1>1, <1>3 DEF Inv1, Roles, Role
<1>5. h # "client"
  <2> SUFFICES ASSUME h = "client" PROVE FALSE
    OBVIOUS
  <2>1. sk["K"].state = "ESTABLISHED" /\ Got("client") < Said("server")
    BY <1>3 DEF Other
  <2>2. Got("client") = 1 /\ app["client"] # "done"
    BY <2>1 DEF InStep, ClientSide, Got, ClientGot, One
  <2>3. Said("server") >= 2
    BY <2>1, <2>2, SmallNumbers DEF Hosts
  <2> QED
    BY <2>2, <2>3, ClientIsDone
<1>6. h = "server" /\ s = "C"
  BY <1>3, <1>4, <1>5 DEF Hosts
<1>7. app["server"] # "done" /\ Got("server") = 2 /\ Said("server") = 1
  BY <1>3, <1>6 DEF InStep, ServerSide, Got, Said, ServerGot, ServerSaid, One
<1>8. g.flags = {"FIN", "ACK"} /\ g.seq = SeqInc(ClientISS)
  BY <1>3, <1>6, <1>7 DEF IsPacket, FirstSeq, Other
<1>9. PICK snd, rcv : /\ Numbers(sk["C"], "ESTABLISHED", snd, rcv)
                      /\ snd = sk["C"].snd_nxt
  BY <1>1, <1>3, <1>6 DEF TypeOK, Numbers
<1>10. SeqInc(g.seq) \in SeqNo
  BY <1>3, SeqNoRange
<1>11. PICK r : /\ r = [sk["C"] EXCEPT !.rcv_nxt = SeqInc(g.seq)]
                /\ Numbers(r, "ESTABLISHED", snd, SeqInc(SeqInc(ClientISS)))
  BY <1>8, <1>9, <1>10, NumbersHeard
<1>12. PICK seg : seg = ControlPacket("C", r, {"ACK"})
  OBVIOUS
<1>13. seg \in Segment /\ seg.flags = {"ACK"} /\ seg.conn = "k"
  BY <1>6, <1>11, <1>12, NumbersSent DEF Flags, Socks
<1>14. /\ sk' = [sk EXCEPT !["C"] = r] /\ net' = Emit(Rest("server"), "server", seg)
       /\ Then("server", "C", "close_wait", FALSE)
       /\ UNCHANGED <<wait_connect, app, closeTo>>
  <2>1. "FIN" \in g.flags
    BY <1>8
  <2> QED
    BY <1>2, <1>3, <1>6, <1>11, <1>12, <2>1 DEF RxEstablished, waits, appVars
<1>15. sk'["C"] = r /\ sk'["L"] = sk["L"] /\ sk'["K"] = sk["K"]
  BY <1>1, <1>6, <1>14, Replaced DEF Socks
<1>16. rx'["server"].pc = "close_wait" /\ rx'["server"].sock = "C" /\ rx'["client"] = rx["client"]
  <2>1. /\ rx'[Other("server")] = rx[Other("server")]
        /\ rx'["server"].pc = IF "close_wait" = "end" THEN "idle" ELSE "close_wait"
        /\ rx'["server"].sock = IF "close_wait" = "end" THEN "none" ELSE "C"
    BY <1>1, <1>14, ThenGoes DEF Hosts
  <2> QED
    BY <2>1 DEF Other
<1>17. r.state = "ESTABLISHED" /\ r.snd_nxt = sk["C"].snd_nxt /\ r.rcv_nxt = SeqInc(SeqInc(ClientISS))
  BY <1>9, <1>11 DEF Numbers
<1>18. sk["C"].state = "ESTABLISHED"
  BY <1>3, <1>6
<1>19. ServerSide'
  BY <1>14, <1>15, <1>16, <1>17, <1>18 DEF InStep, ServerSide, ServerGot
<1>20. Moves("server")
  BY <1>14, <1>15, <1>16, <1>19 DEF Moves, ClientRests
<1>21. Got("server")' = Got("server") + 1 /\ Said("server")' = Said("server") + 1
  BY <1>7, <1>14, <1>15, <1>16, <1>17 DEF Got, Said, ServerGot, ServerSaid, One
<1>22. TakesOnePacket("server", Rest("server"))
  BY <1>3, <1>6, <1>21 DEF TakesOnePacket
<1>23. IsPacket("client", 2, seg)
  BY <1>13 DEF IsPacket
<1>24. SendsPacket("server", Rest("server"), seg)
  BY <1>7, <1>13, <1>14, <1>21, <1>23 DEF SendsPacket, Other
<1> QED
  BY <1>1, <1>6, <1>20, <1>22, <1>24, SideMoves

\* FIN_WAIT_1: the ACK of the FIN.
LEMMA RxFinWait1InStep ==
  ASSUME ConnAssumption, Inv1, Inv2, HostsSurvive, Undisturbed, InStep, NEW h \in Hosts, NEW s \in Socks,
         RxFinWait1(h, s)
  PROVE  InStep'
<1>1. TypeOK /\ ArrivesIn(h, s, "FIN_WAIT_1")
  BY Calm DEF RxFinWait1
<1>2. PICK g \in Segment : g = Head(net[h])
  BY <1>1, Reaches
<1>3. /\ sk[s].state = "FIN_WAIT_1" /\ net[h] # <<>> /\ rx[h].pc = "idle"
      /\ Got(h) < Said(Other(h)) /\ IsPacket(h, Got(h) + 1, g) /\ HasRst(h) = FALSE
      /\ h = "client" => s = "K"
      /\ h = "server" => s \in {"C", "L"}
  BY <1>1, <1>2, Reaches
<1>4. h = "client" /\ s = "K"
  <2>1. sk["C"].state # "FIN_WAIT_1"
    BY DEF InStep, ServerSide
  <2>2. sk["L"].state # "FIN_WAIT_1"
    BY DEF Inv1, Roles, Role, Socks
  <2> QED
    BY <1>3, <2>1, <2>2 DEF Hosts
<1>5. Got("client") = 1
  BY <1>3, <1>4 DEF Got, ClientGot, One
<1>6. Said("server") >= 2
  BY <1>3, <1>4, <1>5, SmallNumbers DEF Other, Hosts
<1>7. app["client"] = "done"
  BY <1>6, ClientIsDone
<1>8. g.flags = {"ACK"}
  BY <1>3, <1>4, <1>5 DEF IsPacket
<1>9. PICK snd, rcv : /\ Numbers(sk["K"], "FIN_WAIT_1", snd, rcv)
                      /\ snd = sk["K"].snd_nxt /\ rcv = sk["K"].rcv_nxt
  BY <1>1, <1>3, <1>4 DEF TypeOK, Numbers
<1>10. PICK q : q = [sk["K"] EXCEPT !.state = "FIN_WAIT_2"] /\ Numbers(q, "FIN_WAIT_2", snd, rcv)
  BY <1>9, NumbersMoved DEF States
<1>11. /\ sk' = [sk EXCEPT !["K"] = q] /\ net' = Rest("client")
       /\ Then("client", "K", "end", FALSE)
       /\ UNCHANGED <<wait_connect, app, closeTo>>
  <2>1. "ACK" \in g.flags
    BY <1>8
  <2> QED
    BY <1>2, <1>3, <1>4, <1>10, <2>1 DEF RxFinWait1, waits, appVars
<1>12. sk'["K"] = q /\ sk'["L"] = sk["L"] /\ sk'["C"] = sk["C"]
  BY <1>1, <1>4, <1>11, Replaced DEF Socks
<1>13. rx'["client"].pc = "idle" /\ rx'["server"] = rx["server"]
  <2>1. /\ rx'[Other("client")] = rx[Other("client")]
        /\ rx'["client"].pc = IF "end" = "end" THEN "idle" ELSE "end"
    BY <1>1, <1>11, ThenGoes DEF Hosts
  <2> QED
    BY <2>1 DEF Other
<1>14. q.state = "FIN_WAIT_2" /\ q.snd_nxt = sk["K"].snd_nxt /\ q.rcv_nxt = sk["K"].rcv_nxt
  BY <1>9, <1>10 DEF Numbers
<1>15. sk["K"].state = "FIN_WAIT_1"
  BY <1>3, <1>4
<1>16. ClientSide'
  BY <1>7, <1>11, <1>12, <1>13, <1>14, <1>15 DEF InStep, ClientSide
<1>17. Moves("client")
  BY <1>11, <1>12, <1>13, <1>16 DEF Moves, ServerRests
<1>18. Got("client")' = Got("client") + 1 /\ Said("client")' = Said("client")
  BY <1>5, <1>7, <1>11, <1>12, <1>14, <1>15 DEF Got, Said, ClientGot, ClientSaid, One
<1>19. TakesOnePacket("client", Rest("client"))
  BY <1>3, <1>4, <1>18 DEF TakesOnePacket
<1> QED
  BY <1>1, <1>4, <1>11, <1>17, <1>18, <1>19, SideMoves

\* FIN_WAIT_2: the FIN of the server.
LEMMA RxFinWait2InStep ==
  ASSUME ConnAssumption, Inv1, Inv2, HostsSurvive, Undisturbed, InStep, NEW h \in Hosts, NEW s \in Socks,
         RxFinWait2(h, s)
  PROVE  InStep'
<1>1. TypeOK /\ ArrivesIn(h, s, "FIN_WAIT_2")
  BY Calm DEF RxFinWait2
<1>2. PICK g \in Segment : g = Head(net[h])
  BY <1>1, Reaches
<1>3. /\ sk[s].state = "FIN_WAIT_2" /\ net[h] # <<>> /\ g.seq \in SeqNo /\ rx[h].pc = "idle"
      /\ IsPacket(h, Got(h) + 1, g) /\ HasRst(h) = FALSE
      /\ h = "client" => s = "K"
      /\ h = "server" => s \in {"C", "L"}
  BY <1>1, <1>2, Reaches
<1>4. h = "client" /\ s = "K"
  <2>1. sk["C"].state # "FIN_WAIT_2"
    BY DEF InStep, ServerSide
  <2>2. sk["L"].state # "FIN_WAIT_2"
    BY DEF Inv1, Roles, Role, Socks
  <2> QED
    BY <1>3, <2>1, <2>2 DEF Hosts
<1>5. Got("client") = 2 /\ app["client"] = "done" /\ Said("client") = 3
  BY <1>3, <1>4 DEF InStep, ClientSide, Got, Said, ClientGot, ClientSaid
<1>6. g.flags = {"FIN", "ACK"} /\ g.seq = SeqInc(ServerISS)
  BY <1>3, <1>4, <1>5 DEF IsPacket, FirstSeq, Other
<1>7. PICK snd, rcv : Numbers(sk["K"], "FIN_WAIT_2", snd, rcv) /\ snd = sk["K"].snd_nxt
  BY <1>1, <1>3, <1>4 DEF TypeOK, Numbers
<1>8. SeqInc(g.seq) \in SeqNo
  BY <1>3, SeqNoRange
<1>9. PICK r : /\ r = [sk["K"] EXCEPT !.rcv_nxt = SeqInc(g.seq)]
               /\ Numbers(r, "FIN_WAIT_2", snd, SeqInc(SeqInc(ServerISS)))
  BY <1>6, <1>7, <1>8, NumbersHeard
<1>10. PICK q : /\ q = [r EXCEPT !.state = "TIME_WAIT", !.timer = TimeWaitScans, !.ref_cnt = r.ref_cnt + 1]
                /\ Numbers(q, "TIME_WAIT", snd, SeqInc(SeqInc(ServerISS)))
  <2>1. r.ref_cnt + 1 \in Int /\ TimeWaitScans \in Int
    BY <1>9 DEF Numbers, Sock, ConnAssumption
  <2>2. PICK k \in Int : k = r.ref_cnt + 1
    BY <2>1
  <2>3. Numbers([r EXCEPT !.state = "TIME_WAIT", !.timer = TimeWaitScans, !.ref_cnt = k],
                "TIME_WAIT", snd, SeqInc(SeqInc(ServerISS)))
    BY <1>9, <2>1 DEF Numbers, Sock, States
  <2> QED
    BY <2>2, <2>3
<1>11. PICK seg : seg = ControlPacket("K", r, {"ACK"})
  OBVIOUS
<1>12. seg \in Segment /\ seg.flags = {"ACK"} /\ seg.conn = "k"
  BY <1>4, <1>9, <1>11, NumbersSent DEF Flags, Socks
<1>13. /\ sk' = [sk EXCEPT !["K"] = q] /\ net' = Emit(Rest("client"), "client", seg)
       /\ Then("client", "K", "end", FALSE)
       /\ UNCHANGED <<wait_connect, app, closeTo>>
  <2>1. "FIN" \in g.flags
    BY <1>6
  <2> QED
    BY <1>2, <1>3, <1>4, <1>9, <1>10, <1>11, <2>1 DEF RxFinWait2, waits, appVars
<1>14. sk'["K"] = q /\ sk'["L"] = sk["L"] /\ sk'["C"] = sk["C"]
  BY <1>1, <1>4, <1>13, Replaced DEF Socks
<1>15. rx'["client"].pc = "idle" /\ rx'["server"] = rx["server"]
  <2>1. /\ rx'[Other("client")] = rx[Other("client")]
        /\ rx'["client"].pc = IF "end" = "end" THEN "idle" ELSE "end"
    BY <1>1, <1>13, ThenGoes DEF Hosts
  <2> QED
    BY <2>1 DEF Other
<1>16. q.state = "TIME_WAIT" /\ q.snd_nxt = sk["K"].snd_nxt /\ q.rcv_nxt = SeqInc(SeqInc(ServerISS))
  BY <1>7, <1>10 DEF Numbers
<1>17. sk["K"].state = "FIN_WAIT_2"
  BY <1>3, <1>4
<1>18. ClientSide'
  BY <1>5, <1>13, <1>14, <1>15, <1>16, <1>17 DEF InStep, ClientSide
<1>19. Moves("client")
  BY <1>13, <1>14, <1>15, <1>18 DEF Moves, ServerRests
<1>20. Got("client")' = Got("client") + 1 /\ Said("client")' = Said("client") + 1
  BY <1>5, <1>14, <1>16 DEF Got, Said, ClientGot, ClientSaid
<1>21. TakesOnePacket("client", Rest("client"))
  BY <1>3, <1>4, <1>20 DEF TakesOnePacket
<1>22. IsPacket("server", 4, seg)
  BY <1>12 DEF IsPacket
<1>23. SendsPacket("client", Rest("client"), seg)
  BY <1>5, <1>12, <1>13, <1>20, <1>22 DEF SendsPacket, Other
<1> QED
  BY <1>1, <1>4, <1>19, <1>21, <1>23, SideMoves

\* LAST_ACK: the ACK of the server's FIN.
LEMMA RxLastAckInStep ==
  ASSUME ConnAssumption, Inv1, Inv2, HostsSurvive, Undisturbed, InStep, NEW h \in Hosts, NEW s \in Socks,
         RxLastAck(h, s)
  PROVE  InStep'
<1>1. TypeOK /\ ArrivesIn(h, s, "LAST_ACK")
  BY Calm DEF RxLastAck
<1>2. PICK g \in Segment : g = Head(net[h])
  BY <1>1, Reaches
<1>3. /\ sk[s].state = "LAST_ACK" /\ net[h] # <<>> /\ rx[h].pc = "idle"
      /\ Got(h) < Said(Other(h)) /\ IsPacket(h, Got(h) + 1, g) /\ HasRst(h) = FALSE
      /\ h = "client" => s = "K"
      /\ h = "server" => s \in {"C", "L"}
  BY <1>1, <1>2, Reaches
<1>4. h = "server" /\ s = "C"
  <2>1. sk["K"].state # "LAST_ACK"
    BY DEF InStep, ClientSide
  <2>2. sk["L"].state # "LAST_ACK"
    BY DEF Inv1, Roles, Role, Socks
  <2> QED
    BY <1>3, <2>1, <2>2 DEF Hosts
<1>5. Got("server") = 3
  BY <1>3, <1>4 DEF Got, ServerGot
<1>6. Said("client") >= 4
  BY <1>3, <1>4, <1>5, SmallNumbers DEF Other, Hosts
<1>7. app["server"] = "done"
  BY <1>6, ServerIsDone
<1>8. g.flags = {"ACK"}
  BY <1>3, <1>4, <1>5 DEF IsPacket
<1>9. PICK snd, rcv : /\ Numbers(sk["C"], "LAST_ACK", snd, rcv)
                      /\ snd = sk["C"].snd_nxt /\ rcv = sk["C"].rcv_nxt
  BY <1>1, <1>3, <1>4 DEF TypeOK, Numbers
<1>10. PICK q : q = [sk["C"] EXCEPT !.state = "CLOSED"] /\ Numbers(q, "CLOSED", snd, rcv)
  BY <1>9, NumbersMoved DEF States
<1>11. /\ sk' = [sk EXCEPT !["C"] = q] /\ net' = Rest("server")
       /\ Then("server", "C", "end", FALSE)
       /\ UNCHANGED <<wait_connect, app, closeTo>>
  <2>1. "ACK" \in g.flags
    BY <1>8
  <2> QED
    BY <1>2, <1>3, <1>4, <1>10, <2>1 DEF RxLastAck, waits, appVars
<1>12. sk'["C"] = q /\ sk'["L"] = sk["L"] /\ sk'["K"] = sk["K"]
  BY <1>1, <1>4, <1>11, Replaced DEF Socks
<1>13. rx'["server"].pc = "idle" /\ rx'["client"] = rx["client"]
  <2>1. /\ rx'[Other("server")] = rx[Other("server")]
        /\ rx'["server"].pc = IF "end" = "end" THEN "idle" ELSE "end"
    BY <1>1, <1>11, ThenGoes DEF Hosts
  <2> QED
    BY <2>1 DEF Other
<1>14. q.state = "CLOSED" /\ q.snd_nxt = sk["C"].snd_nxt /\ q.rcv_nxt = sk["C"].rcv_nxt
  BY <1>9, <1>10 DEF Numbers
<1>15. sk["C"].state = "LAST_ACK"
  BY <1>3, <1>4
<1>16. ServerSide'
  BY <1>7, <1>11, <1>12, <1>13, <1>14, <1>15 DEF InStep, ServerSide, ServerGot
<1>17. Moves("server")
  BY <1>11, <1>12, <1>13, <1>16 DEF Moves, ClientRests
<1>18. Got("server")' = Got("server") + 1 /\ Said("server")' = Said("server")
  BY <1>5, <1>7, <1>11, <1>12, <1>14 DEF Got, Said, ServerGot, ServerSaid
<1>19. TakesOnePacket("server", Rest("server"))
  BY <1>3, <1>4, <1>18 DEF TakesOnePacket
<1> QED
  BY <1>1, <1>4, <1>11, <1>17, <1>18, <1>19, SideMoves

\* In CLOSE_WAIT and TIME_WAIT nothing comes any more.
LEMMA NothingIgnored ==
  ASSUME Inv1, Inv2, HostsSurvive, Undisturbed, InStep, NEW h \in Hosts, NEW s \in Socks
  PROVE  ~ RxIgnored(h, s)
<1> SUFFICES ASSUME NEW st \in {"CLOSE_WAIT", "TIME_WAIT"}, ArrivesIn(h, s, st) PROVE FALSE
  BY DEF RxIgnored
<1>1. /\ sk[s].state = st /\ Got(h) < Said(Other(h))
      /\ h = "client" => s = "K"
      /\ h = "server" => s \in {"C", "L"}
  BY Reaches
<1>2. s # "L"
  BY <1>1 DEF Inv1, Roles, Role
<1>3. CASE h = "client"
  <2>1. sk["K"].state = "TIME_WAIT"
    BY <1>1, <1>3 DEF InStep, ClientSide
  <2>2. Got("client") = 3 /\ Got("client") < Said("server")
    BY <1>1, <1>3, <2>1 DEF Got, ClientGot, Other
  <2>3. Said("server") <= 3
    BY DEF Said, ServerSaid, One
  <2> QED
    BY <2>2, <2>3, SmallNumbers DEF Hosts
<1>4. CASE h = "server"
  <2>1. sk["C"].state = "CLOSE_WAIT"
    BY <1>1, <1>2, <1>4 DEF InStep, ServerSide
  <2>2. Got("server") = 3 /\ Got("server") < Said("client")
    BY <1>1, <1>4, <2>1 DEF Got, ServerGot, Other
  <2>3. Said("client") >= 4
    BY <2>2, SmallNumbers DEF Hosts
  <2> QED
    BY <2>1, <2>3, ServerIsDone DEF InStep, ServerSide
<1> QED
  BY <1>3, <1>4 DEF Hosts

\* LISTEN: the child of L is made for the client's SYN.
LEMMA RxListenInStep ==
  ASSUME ConnAssumption, Inv1, Inv2, HostsSurvive, Undisturbed, InStep, NEW h \in Hosts, NEW s \in Socks,
         RxListen(h, s)
  PROVE  InStep'
<1>1. TypeOK /\ ArrivesIn(h, s, "LISTEN") /\ s = "L" /\ h = "server" /\ sk["C"].state = "none"
  BY Calm, RxListenDoes DEF RxListen, NoChild
<1>2. PICK g \in Segment : g = Head(net["server"])
  BY <1>1, Reaches
<1>3. /\ sk["L"].state = "LISTEN" /\ net["server"] # <<>> /\ g.seq \in SeqNo /\ rx["server"].pc = "idle"
      /\ IsPacket("server", Got("server") + 1, g) /\ HasRst("server") = FALSE
  BY <1>1, <1>2, Reaches
<1>4. Got("server") = 0 /\ Said("server") = 0 /\ app["server"] # "done"
  BY <1>1, <1>3 DEF InStep, ServerSide, Got, Said, ServerGot, ServerSaid, One
<1>5. g.seq = ClientISS /\ Child(g.conn) = "C"
  BY <1>3, <1>4 DEF IsPacket, FirstSeq, Other, Child
<1>6. PICK rcv : Numbers(sk["L"], "LISTEN", ServerISS, rcv)
  BY <1>1, <1>3 DEF TypeOK, Numbers, InStep, ServerSide, Socks
<1>7. PICK l : l = [sk["L"] EXCEPT !.state = "SYN_RECV"] /\ Numbers(l, "SYN_RECV", ServerISS, rcv)
  BY <1>6, NumbersMoved DEF States
<1>8. SeqInc(g.seq) \in SeqNo
  BY <1>3, SeqNoRange
<1>9. PICK b : /\ b = [l EXCEPT !.rcv_nxt = SeqInc(g.seq), !.bound = FALSE]
               /\ Numbers(b, "SYN_RECV", ServerISS, SeqInc(ClientISS))
  <2>1. PICK k \in SeqNo : k = SeqInc(g.seq)
    BY <1>8
  <2>2. Numbers([l EXCEPT !.rcv_nxt = k, !.bound = FALSE], "SYN_RECV", ServerISS, k)
    BY <1>7 DEF Numbers, Sock
  <2> QED
    BY <1>5, <2>1, <2>2
<1>10. PICK c : c = tcp_hash(b) /\ Numbers(c, "SYN_RECV", ServerISS, SeqInc(ClientISS))
  BY <1>9, NumbersHashed
<1>11. {"SYN", "ACK"} \in SUBSET Flags /\ Consumes({"SYN", "ACK"}) /\ "C" \in Socks \ {"X"}
  BY DEF Flags, Consumes, Socks
<1>12. PICK a : /\ a = AfterControl(c, {"SYN", "ACK"})
                /\ Numbers(a, "SYN_RECV", SeqInc(ServerISS), SeqInc(ClientISS))
  BY <1>10, <1>11, NumbersSent
<1>13. PICK seg : seg = ControlPacket("C", c, {"SYN", "ACK"})
  OBVIOUS
<1>14. seg \in Segment /\ seg.flags = {"SYN", "ACK"} /\ seg.seq = ServerISS /\ seg.conn = "k"
  BY <1>10, <1>11, <1>13, NumbersSent
<1>15. /\ sk' = [sk EXCEPT !["L"] = l, !["C"] = a] /\ net' = Emit(Rest("server"), "server", seg)
       /\ Then("server", "L", "end", FALSE)
       /\ UNCHANGED <<wait_connect, app, closeTo>>
  BY <1>1, <1>2, <1>3, <1>5, <1>7, <1>9, <1>10, <1>12, <1>13 DEF RxListen, waits, appVars
<1>16. sk'["C"] = a /\ sk'["L"] = l /\ sk'["K"] = sk["K"]
  BY <1>1, <1>15 DEF TypeOK, Socks
<1>17. rx'["server"].pc = "idle" /\ rx'["client"] = rx["client"]
  <2>1. /\ rx'[Other("server")] = rx[Other("server")]
        /\ rx'["server"].pc = IF "end" = "end" THEN "idle" ELSE "end"
    BY <1>1, <1>15, ThenGoes DEF Hosts
  <2> QED
    BY <2>1 DEF Other
<1>18. /\ a.state = "SYN_RECV" /\ a.snd_nxt = SeqInc(ServerISS) /\ a.rcv_nxt = SeqInc(ClientISS)
       /\ l.snd_nxt = ServerISS
  BY <1>7, <1>12 DEF Numbers
<1>19. ServerSide'
  BY <1>1, <1>15, <1>16, <1>17, <1>18 DEF InStep, ServerSide, ServerGot, One
<1>20. Moves("server")
  BY <1>15, <1>16, <1>17, <1>19 DEF Moves, ClientRests
<1>21. Got("server")' = Got("server") + 1 /\ Said("server")' = Said("server") + 1
  BY <1>4, <1>15, <1>16, <1>17, <1>18 DEF Got, Said, ServerGot, ServerSaid, One
<1>22. TakesOnePacket("server", Rest("server"))
  BY <1>3, <1>21 DEF TakesOnePacket
<1>23. IsPacket("client", 1, seg)
  BY <1>14 DEF IsPacket, FirstSeq, Other
<1>24. SendsPacket("server", Rest("server"), seg)
  BY <1>4, <1>14, <1>15, <1>21, <1>23 DEF SendsPacket, Other
<1> QED
  BY <1>1, <1>20, <1>22, <1>24, SideMoves

\* The second steps of the handlers.
LEMMA WakesInStep ==
  ASSUME Inv1, Inv2, HostsSurvive, Undisturbed, InStep, NEW h \in Hosts,
         RxWakeConnect(h) \/ RxWakeAccept(h)
  PROVE  InStep'
<1>1. TypeOK /\ rx[h].rst = FALSE
  <2>1. TypeOK /\ ~ rx[h].rst
    BY Calm
  <2> QED
    BY <2>1 DEF TypeOK
<1>2. /\ UNCHANGED <<sk, app, closeTo, net>> /\ Then(h, rx[h].sock, "end", FALSE)
      /\ rx[h].pc \in {"wake_connect", "wake_accept"}
  BY <1>1 DEF RxWakeConnect, RxWakeAccept, appVars
<1>3. rx'[h].pc = "idle" /\ rx'[Other(h)] = rx[Other(h)]
  <2>1. /\ rx'[Other(h)] = rx[Other(h)]
        /\ rx'[h].pc = IF "end" = "end" THEN "idle" ELSE "end"
    BY <1>1, <1>2, ThenGoes
  <2> QED
    BY <2>1
<1>4. CASE h = "client"
  <2>1. rx["client"].pc = "wake_connect"
    BY <1>2, <1>4 DEF InStep, ClientSide
  <2>2. wait_connect' \in wake_up(wait_connect) /\ wait_connect \in WaitStruct({"client"})
    BY <1>1, <1>4, <2>1 DEF RxWakeConnect, RxWakeAccept, TypeOK
  <2>3. wait_connect'.dead = wait_connect.dead
    BY <2>2, Woken
  <2>4. ClientSide'
    BY <1>2, <1>3, <1>4, <2>1, <2>3 DEF InStep, ClientSide
  <2>5. Moves("client")
    BY <1>2, <1>3, <1>4, <2>4 DEF Moves, ServerRests, Other
  <2>6. Got("client")' = Got("client") /\ Said("client")' = Said("client")
    BY <1>2 DEF Got, Said
  <2> QED
    BY <1>1, <1>2, <2>5, <2>6, SideStays DEF Hosts
<1>5. CASE h = "server"
  <2>1. wait_connect' = wait_connect
    <3>1. CASE RxWakeAccept(h)
      BY <3>1 DEF RxWakeAccept
    <3>2. CASE RxWakeConnect(h)
      <4>1. rx["server"].pc = "wake_connect"
        BY <1>5, <3>2 DEF RxWakeConnect
      <4> QED
        BY <4>1 DEF InStep, ServerSide
    <3> QED
      BY <3>1, <3>2
  <2>2. ServerSide'
    BY <1>2, <1>3, <1>5 DEF InStep, ServerSide, ServerGot
  <2>3. Moves("server")
    BY <1>2, <1>3, <1>5, <2>1, <2>2 DEF Moves, ClientRests, Other
  <2>4. Got("server")' = Got("server") /\ Said("server")' = Said("server")
    BY <1>2, <1>3, <1>5 DEF Got, Said, ServerGot, ServerSaid
  <2> QED
    BY <1>1, <1>2, <2>3, <2>4, SideStays DEF Hosts
<1> QED
  BY <1>4, <1>5 DEF Hosts

\* The count of accept_backlog is no concern of the connection.
LEMMA CountInStep ==
  ASSUME Inv1, Inv2, HostsSurvive, Undisturbed, InStep, NEW h \in Hosts, RxCount(h)
  PROVE  InStep'
<1>1. TypeOK /\ rx[h].rst = FALSE
  <2>1. TypeOK /\ ~ rx[h].rst
    BY Calm
  <2> QED
    BY <2>1 DEF TypeOK
<1>2. /\ UNCHANGED <<sk, app, closeTo, net, wait_connect>>
      /\ rx[h].pc \in {"count_load", "count_store"}
  BY DEF RxCount, appVars, waits
<1>3. rx'[h].pc \in {"count_store", "wake_accept"} /\ rx'[Other(h)] = rx[Other(h)]
  <2>1. PICK p \in {"count_store", "wake_accept"} : Then(h, rx[h].sock, p, FALSE)
    BY <1>1 DEF RxCount
  <2>2. rx'[Other(h)] = rx[Other(h)] /\ rx'[h].pc = IF p = "end" THEN "idle" ELSE p
    BY <1>1, <2>1, ThenGoes
  <2> QED
    BY <2>2
<1>4. h = "server"
  BY <1>2 DEF InStep, ClientSide, Hosts
<1>5. ServerSide'
  BY <1>2, <1>3, <1>4 DEF InStep, ServerSide, ServerGot
<1>6. Moves("server")
  BY <1>2, <1>3, <1>4, <1>5 DEF Moves, ClientRests, Other
<1>7. Got("server")' = Got("server") /\ Said("server")' = Said("server")
  BY <1>2, <1>3, <1>4 DEF Got, Said, ServerGot, ServerSaid
<1> QED
  BY <1>1, <1>2, <1>6, <1>7, SideStays DEF Hosts

\* The FIN of the client had been counted when it was acknowledged.
LEMMA CloseWaitInStep ==
  ASSUME Inv1, Inv2, HostsSurvive, Undisturbed, InStep, NEW h \in Hosts, RxCloseWait(h)
  PROVE  InStep'
<1>1. TypeOK /\ rx[h].rst = FALSE
  <2>1. TypeOK /\ ~ rx[h].rst
    BY Calm
  <2> QED
    BY <2>1 DEF TypeOK
<1>2. h = "server" /\ rx["server"].sock = "C" /\ sk["C"].state = "ESTABLISHED" /\ rx["server"].pc = "close_wait"
  <2>1. rx[h].pc = "close_wait"
    BY DEF RxCloseWait
  <2>2. h = "server"
    BY <2>1 DEF InStep, ClientSide, Hosts
  <2> QED
    BY <2>1, <2>2 DEF InStep, ServerSide
<1>3. /\ sk' = [sk EXCEPT !["C"].state = "CLOSE_WAIT"] /\ Then("server", "C", "end", FALSE)
      /\ UNCHANGED <<wait_connect, app, closeTo, net>>
  BY <1>1, <1>2 DEF RxCloseWait, waits, appVars
<1>4. PICK snd, rcv : /\ Numbers(sk["C"], "ESTABLISHED", snd, rcv) /\ "C" \in Socks
                      /\ snd = sk["C"].snd_nxt /\ rcv = sk["C"].rcv_nxt
  BY <1>1, <1>2 DEF TypeOK, Numbers, Socks
<1>5. PICK q : q = [sk["C"] EXCEPT !.state = "CLOSE_WAIT"] /\ Numbers(q, "CLOSE_WAIT", snd, rcv)
  BY <1>4, NumbersMoved DEF States
<1>6. sk'["C"] = q /\ sk'["L"] = sk["L"] /\ sk'["K"] = sk["K"]
  BY <1>1, <1>3, <1>4, <1>5, Replaced DEF Socks
<1>7. rx'["server"].pc = "idle" /\ rx'["client"] = rx["client"]
  <2>1. /\ rx'[Other("server")] = rx[Other("server")]
        /\ rx'["server"].pc = IF "end" = "end" THEN "idle" ELSE "end"
    BY <1>1, <1>3, ThenGoes DEF Hosts
  <2> QED
    BY <2>1 DEF Other
<1>8. q.state = "CLOSE_WAIT" /\ q.snd_nxt = sk["C"].snd_nxt /\ q.rcv_nxt = sk["C"].rcv_nxt
  BY <1>4, <1>5 DEF Numbers
<1>9. ServerSide'
  BY <1>2, <1>3, <1>6, <1>7, <1>8 DEF InStep, ServerSide, ServerGot
<1>10. Moves("server")
  BY <1>3, <1>6, <1>7, <1>9 DEF Moves, ClientRests
<1>11. Got("server")' = Got("server") /\ Said("server")' = Said("server")
  BY <1>2, <1>3, <1>6, <1>7, <1>8 DEF Got, Said, ServerGot, ServerSaid
<1> QED
  BY <1>1, <1>3, <1>10, <1>11, SideStays DEF Hosts

\* The timer closes a sock that is in TIME_WAIT, with the numbers it has.
LEMMA NumbersScanned ==
  ASSUME TypeOK, NEW s \in Socks, NEW snd, NEW rcv, Numbers(sk[s], "TIME_WAIT", snd, rcv)
  PROVE  Numbers(Scan(s), "TIME_WAIT", snd, rcv) \/ Numbers(Scan(s), "CLOSED", snd, rcv)
<1> DEFINE r == [sk[s] EXCEPT !.timer = @ - 1]
           u == IF HasParent(s) THEN r ELSE tcp_bind_unhash(r)
           e == [u EXCEPT !.timer = -1, !.state = "CLOSED"]
<1>1. Numbers(r, "TIME_WAIT", snd, rcv)
  <2>1. PICK k \in Int : k = sk[s].timer - 1
    BY DEF Numbers, Sock
  <2>2. r = [sk[s] EXCEPT !.timer = k]
    BY <2>1
  <2> QED
    BY <2>2, NumbersReleased
<1>2. Scan(s) = IF r.timer > 0 THEN r ELSE free_tcp_sock(e)
  BY DEF Scan
<1> HIDE DEF r
<1>3. Numbers(u, "TIME_WAIT", snd, rcv)
  BY <1>1, NumbersReleased
<1> HIDE DEF u
<1>4. Numbers(e, "CLOSED", snd, rcv)
  <2> DEFINE v == [u EXCEPT !.timer = -1]
  <2>1. Numbers(v, "TIME_WAIT", snd, rcv)
    <3>1. PICK k \in Int : k = -1
      OBVIOUS
    <3>2. Numbers([u EXCEPT !.timer = k], "TIME_WAIT", snd, rcv)
      BY <1>3, NumbersReleased
    <3> QED
      BY <3>1, <3>2
  <2>2. e = [v EXCEPT !.state = "CLOSED"]
    BY <1>3 DEF Numbers, Sock
  <2> HIDE DEF v
  <2>3. Numbers([v EXCEPT !.state = "CLOSED"], "CLOSED", snd, rcv)
    BY <2>1, NumbersMoved DEF States
  <2> QED
    BY <2>2, <2>3
<1> HIDE DEF e
<1> QED
  BY <1>1, <1>2, <1>4, NumbersReleased

\* Only K is ever in TIME_WAIT.
LEMMA ScanInStep ==
  ASSUME Inv1, Inv2, HostsSurvive, Undisturbed, InStep, NEW h \in Hosts, TimerScan(h)
  PROVE  InStep'
<1>1. TypeOK
  BY DEF Inv1
<1>2. UNCHANGED <<app, closeTo, rx, net, wait_connect>>
  BY DEF TimerScan, waits, appVars
<1>3. \A s \in OnTimer(h) : s = "K" /\ sk["K"].state = "TIME_WAIT"
  <2>1. \A s \in OnTimer(h) : s \in Socks /\ sk[s].state = "TIME_WAIT"
    BY DEF OnTimer, Inv1, Roles, Role
  <2>2. sk["C"].state # "TIME_WAIT" /\ sk["L"].state # "TIME_WAIT" /\ sk["X"].state # "TIME_WAIT"
    BY Calm DEF InStep, ServerSide, Inv1, Roles, Role, Socks
  <2> QED
    BY <2>1, <2>2 DEF Socks
<1>4. CASE sk' = sk
  <2>1. ClientRests /\ ServerRests
    BY <1>2, <1>4 DEF ClientRests, ServerRests
  <2>2. Moves("client")
    BY <2>1, ResterKeeps DEF Moves, InStep
  <2> QED
    BY <1>1, <1>2, <2>1, <2>2, ResterKeeps, SideStays DEF Hosts
<1>5. CASE sk' # sk
  <2>1. sk' = [s \in Socks |-> IF s \in OnTimer(h) THEN Scan(s) ELSE sk[s]]
    BY <1>5 DEF TimerScan
  <2>2. \E s \in OnTimer(h) : TRUE
    BY <1>1, <1>5, <2>1 DEF TypeOK
  <2>3. "K" \in OnTimer(h) /\ sk["K"].state = "TIME_WAIT" /\ {"K", "L", "C"} \subseteq Socks
    BY <1>3, <2>2 DEF Socks
  <2>4. sk'["K"] = Scan("K") /\ sk'["L"] = sk["L"] /\ sk'["C"] = sk["C"]
    BY <1>3, <2>1, <2>3
  <2>5. PICK snd, rcv : /\ Numbers(sk["K"], "TIME_WAIT", snd, rcv)
                        /\ snd = sk["K"].snd_nxt /\ rcv = sk["K"].rcv_nxt
    BY <1>1, <2>3 DEF TypeOK, Numbers
  <2>6. Numbers(Scan("K"), "TIME_WAIT", snd, rcv) \/ Numbers(Scan("K"), "CLOSED", snd, rcv)
    BY <1>1, <2>3, <2>5, NumbersScanned
  <2>7. /\ sk'["K"].state \in {"TIME_WAIT", "CLOSED"} /\ sk'["K"].snd_nxt = sk["K"].snd_nxt
        /\ sk'["K"].rcv_nxt = sk["K"].rcv_nxt
    BY <2>4, <2>5, <2>6 DEF Numbers
  <2>8. ClientSide'
    BY <1>2, <2>3, <2>7 DEF InStep, ClientSide
  <2>9. Moves("client")
    BY <1>2, <2>4, <2>8 DEF Moves, ServerRests
  <2>10. Got("client")' = Got("client") /\ Said("client")' = Said("client")
    BY <1>2, <2>3, <2>7 DEF Got, Said, ClientGot, ClientSaid
  <2> QED
    BY <1>1, <1>2, <2>9, <2>10, SideStays DEF Hosts
<1> QED
  BY <1>4, <1>5

-----------------------------------------------------------------------------
(* The shutdown is clean.                                                   *)

\* Such a connection stays one: nothing of what the environment may do otherwise happens.
Synchronized == Undisturbed => InStep

\* At the start nothing has been sent, ...
LEMMA InStepStarts ==
  ASSUME ConnAssumption, Init
  PROVE  Synchronized
<1>1. /\ \A h \in Hosts : app[h] = "start" /\ closeTo[h] = "none" /\ rx[h] = RxIdle /\ net[h] = <<>>
      /\ \A s \in Socks : sk[s].state = "none"
      /\ wait_connect = wait_init
  BY DEF Init, NoSock
<1>2. ClientSide /\ ServerSide
  BY <1>1 DEF ClientSide, ServerSide, RxIdle, wait_init, Hosts, Socks
<1>3. \A h \in Hosts : Got(h) = 0 /\ Said(h) = 0
  BY <1>1 DEF Got, Said, ClientGot, ClientSaid, ServerGot, ServerSaid, One, RxIdle, Hosts, Socks
<1>4. ASSUME NEW h \in Hosts PROVE Underway(h, net[h], Got(h), Said(Other(h)))
  <2>1. Got(h) = 0 /\ Said(Other(h)) = 0 /\ net[h] = <<>>
    BY <1>1, <1>3, TwoHosts
  <2>2. Len(net[h]) = 0
    BY <2>1
  <2> QED
    BY <2>1, <2>2 DEF Underway
<1> QED
  BY <1>2, <1>4 DEF Synchronized, InStep, Packets

\* ... and every step of either host keeps the two in step.
LEMMA InStepKept ==
  ASSUME ConnAssumption, Inv1, Inv2, HostsSurvive, Synchronized, [Next]_vars
  PROVE  Synchronized'
<1>0. env' = env
  BY SameEnv
<1> SUFFICES ASSUME Undisturbed, InStep PROVE InStep'
  BY <1>0 DEF Synchronized, Undisturbed, Friendly
<1>1. TypeOK /\ ~ env.spurious /\ left.dups = 0 /\ ~ left.foreign /\ env.dups = 0
  BY Calm
<1>2. CASE UNCHANGED vars
  <2>1. ClientRests /\ ServerRests /\ net' = net
    BY <1>2 DEF ClientRests, ServerRests, vars
  <2>2. Moves("client")
    BY <2>1, ResterKeeps DEF Moves, InStep
  <2> QED
    BY <1>1, <2>1, <2>2, ResterKeeps, SideStays DEF Hosts
<1>3. ~ NetStep
  BY <1>1 DEF NetStep, ForeignSyn, Duplicate
<1>4. ASSUME NEW h \in Hosts, AppStep(h) PROVE InStep'
  <2>1. CASE Connect
    BY <2>1, ConnectInStep
  <2>2. CASE ConnectSleep \/ ConnectWake
    BY <1>1, <2>2, ConnectWaitInStep
  <2>3. CASE Listen \/ AcceptTest \/ AcceptSleep \/ AcceptWake \/ AcceptDequeue \/ AcceptUncount
    BY <2>3, AcceptInStep
  <2>4. CASE CloseSwitch(h) \/ CloseSetState(h) \/ CloseSendFin(h)
    BY <2>4, CloseSwitchInStep, CloseSetStateInStep, CloseSendFinInStep
  <2> QED
    BY <1>4, <2>1, <2>2, <2>3, <2>4 DEF AppStep
<1>5. ASSUME NEW h \in Hosts, RxStep(h) PROVE InStep'
  <2>1. up' = up /\ Running(h) /\ rx[h].pc # "end"
    BY <1>5, SurvivesStep, Calm DEF Undisturbed
  <2>2. ~ RxNoSock(h) /\ ~ RxUsesFreed(h)
    <3>1. up'[h] = "running"
      BY <2>1 DEF Running
    <3>2. h \in DOMAIN up
      BY <1>1 DEF TypeOK
    <3> QED
      BY <3>1, <3>2 DEF RxNoSock, RxUsesFreed
  <2>3. ~ RxReset(h) /\ \A s \in Socks : ~ RxClosed(h, s)
    BY <1>1, <2>1, NothingLeft DEF RxReset, RxClosed, ClosedIsDeaf
  <2>4. ASSUME NEW s \in Socks,
               \/ RxListen(h, s) \/ RxSynSent(h, s) \/ RxSynRecv(h, s) \/ RxEstablished(h, s)
               \/ RxFinWait1(h, s) \/ RxFinWait2(h, s) \/ RxLastAck(h, s) \/ RxIgnored(h, s)
        PROVE  InStep'
    BY <2>4, RxListenInStep, RxSynSentInStep, RxSynRecvInStep, RxEstablishedInStep,
       RxFinWait1InStep, RxFinWait2InStep, RxLastAckInStep, NothingIgnored
  <2>5. CASE RxWakeConnect(h) \/ RxCount(h) \/ RxWakeAccept(h) \/ RxCloseWait(h)
    BY <2>5, WakesInStep, CountInStep, CloseWaitInStep
  <2> QED
    BY <1>5, <2>2, <2>3, <2>4, <2>5 DEF RxStep
<1>6. ASSUME NEW h \in Hosts, TimerScan(h) PROVE InStep'
  BY <1>6, ScanInStep
<1> QED
  BY <1>2, <1>3, <1>4, <1>5, <1>6 DEF Next

\* What has been sent and taken, and the numbers counted, when a side is past its FIN.
LEMMA InStepIsClean ==
  ASSUME Synchronized
  PROVE  CleanShutdown
<1> SUFFICES ASSUME Undisturbed, InStep
             PROVE  /\ FinTaken
                    /\ sk["K"].state \in {"TIME_WAIT", "CLOSED"} =>
                          /\ sk["C"].state \in {"LAST_ACK", "CLOSED"}
                          /\ sk["K"].rcv_nxt = sk["C"].snd_nxt
                          /\ sk["C"].rcv_nxt = sk["K"].snd_nxt
  BY DEF Synchronized, CleanShutdown, Undisturbed
<1>1. /\ Got("client") <= Said("server")
      /\ \A h \in Hosts : Got(h) \in 0 .. 4 /\ Said(h) \in 0 .. 4
  BY SmallNumbers DEF InStep, Packets, Underway, Hosts, Other
<1>2. ASSUME sk["K"].state \in {"FIN_WAIT_2", "TIME_WAIT", "CLOSED"}
      PROVE  sk["C"].rcv_nxt = sk["K"].snd_nxt /\ sk["C"].state # "none"
  <2>1. Got("client") >= 2
    BY <1>2 DEF Got, ClientGot
  <2>2. Said("server") >= 2
    BY <1>1, <2>1 DEF Hosts
  <2>3. ServerGot(sk["C"].state, rx["server"].pc) >= 3
    BY <2>2 DEF InStep, ServerSide, Said, ServerSaid, ServerGot, One
  <2>4. sk["C"].state # "none"
    BY <2>3 DEF InStep, ServerSide, ServerGot, One
  <2>5. sk["C"].rcv_nxt = SeqInc(SeqInc(ClientISS))
    BY <2>3, <2>4 DEF InStep, ServerSide
  <2>6. app["client"] = "done"
    BY <2>2, ClientIsDone
  <2>7. sk["K"].snd_nxt = SeqInc(SeqInc(ClientISS))
    BY <1>2, <2>6 DEF InStep, ClientSide
  <2> QED
    BY <2>4, <2>5, <2>7
<1>3. FinTaken
  <2>1. sk["C"].state \notin {"FIN_WAIT_2", "TIME_WAIT"}
    BY DEF InStep, ServerSide
  <2> QED
    BY <1>2, <2>1 DEF FinTaken, Peer
<1>4. ASSUME sk["K"].state \in {"TIME_WAIT", "CLOSED"}
      PROVE  sk["C"].state \in {"LAST_ACK", "CLOSED"} /\ sk["K"].rcv_nxt = sk["C"].snd_nxt
  <2>1. Got("client") >= 3
    BY <1>4 DEF Got, ClientGot
  <2>2. Said("server") >= 3
    BY <1>1, <2>1 DEF Hosts
  <2>3. app["server"] = "done"
    BY <2>2 DEF Said, ServerSaid, One
  <2>4. sk["C"].state \in {"LAST_ACK", "CLOSED"}
    BY <2>3 DEF InStep, ServerSide
  <2>5. sk["C"].snd_nxt = SeqInc(SeqInc(ServerISS))
    BY <2>3, <2>4 DEF InStep, ServerSide
  <2>6. sk["K"].rcv_nxt = SeqInc(SeqInc(ServerISS))
    BY <1>4 DEF InStep, ClientSide
  <2> QED
    BY <2>4, <2>5, <2>6
<1> QED
  BY <1>2, <1>3, <1>4

\* When the server closes a second after the client and nothing disturbs the two, the
\* client's FIN_WAIT_2 means that its FIN has been taken, and once it is in TIME_WAIT both
\* ends agree on every number: for any initial sequence numbers, wrapping or not, and
\* every interleaving of the application, packet and timer threads.
THEOREM ShutdownIsClean ==
  ASSUME ConnAssumption
  PROVE  Spec => []CleanShutdown
<1>1. Init => Synchronized /\ HostsSurvive
  BY InStepStarts DEF Init, HostsSurvive
<1>2. Inv1 /\ Inv2 /\ HostsSurvive /\ Synchronized /\ [Next]_vars => Synchronized'
  BY InStepKept
<1>3. Synchronized => CleanShutdown
  BY InStepIsClean
<1> QED
  BY <1>1, <1>2, <1>3, BothHold, HostsDoSurvive, PTL DEF Spec

=============================================================================
