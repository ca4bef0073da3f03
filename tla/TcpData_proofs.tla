--------------------------- MODULE TcpData_proofs ---------------------------
(***************************************************************************)
(* The data transfer of lab 16, for every workload: no byte is lost,       *)
(* repeated or reordered on its way; and with a window that the whole      *)
(* exchange fits into nobody waits, sends nothing or overruns a buffer,    *)
(* and the client gets back what it wrote.                                 *)
(***************************************************************************)
EXTENDS TcpData, DataInduction

-----------------------------------------------------------------------------
(* The inductive invariant.                                                 *)

Opening == {"connect", "listen", "accept", "wait", "waiting"}
Sending == {"sleep", "asleep", "compare", "take", "load", "store"}
Shaking == {"CLOSED", "LISTEN", "SYN_SENT", "SYN_RECV"}

\* Where an application thread is in its loops, and which states its sock has.
Located(h) ==
  /\ app[h].round \in 1 .. load.writes
  /\ app[h].pc \in Sending => app[h].wlen < Len(app[h].buf)
  /\ app[h].pc \notin IF h = "client" THEN {"listen", "accept"} ELSE {"connect", "close", "fin", "done"}
  /\ state[h] \in IF h = "client" THEN {"CLOSED", "SYN_SENT", "ESTABLISHED", "FIN_WAIT_1", "FIN_WAIT_2", "CLOSE_WAIT"}
                                  ELSE {"CLOSED", "LISTEN", "SYN_RECV", "ESTABLISHED", "CLOSE_WAIT"}

\* Since tcp_sock_read has found something in the buffer, nobody else takes from it.
Asked(h) ==
  /\ app[h].pc = "settle" => rcv_buf[h] # <<>>
  /\ app[h].pc = "get" => app[h].seg \in 1 .. Len(rcv_buf[h])

Place(h) == Located(h) /\ Asked(h)

\* An application leaves tcp_sock_connect or tcp_sock_accept once there is a connection.
Handshake(h) ==
  /\ app[h].pc \in {"connect", "listen"} => state[h] = "CLOSED"
  /\ app[h].pc \notin Opening => state[h] \notin Shaking
  /\ ~ wait_conn[h].dead
  /\ wait_conn[h].notified \/ wait_conn[h].signaled # {} \/ rx[h].pc = "opened" => state[h] \notin Shaking
  /\ rx[h].pc = "establish" => state[h] \in {"SYN_SENT", "SYN_RECV"}
  /\ rx[h].pc # "idle" => state[h] \notin {"CLOSED", "LISTEN"}

\* The client has not taken the SYN|ACK yet.
Unanswered == state["client"] \in {"CLOSED", "SYN_SENT"} /\ rx["client"].pc = "idle"

\* The first packets: no data before both ends have taken the peer's.
FirstPackets ==
  /\ state["client"] = "CLOSED" => state["server"] \in {"CLOSED", "LISTEN"} /\ net["server"] = <<>>
  /\ state["server"] \in {"CLOSED", "LISTEN"} => Unanswered /\ net["client"] = <<>> /\ Len(net["server"]) <= 1
  /\ state["server"] = "SYN_RECV" /\ rx["server"].pc = "idle" =>
       IF Unanswered THEN net["server"] = <<>>
       ELSE net["server"] # <<>> /\ Head(net["server"]).data = <<>>

\* The client speaks first.
Speaks ==
  /\ state["client"] \in {"CLOSED", "SYN_SENT"} => sent["client"] = <<>>
  /\ sent["client"] = <<>> => sent["server"] = <<>>
  /\ app["server"].pc \in Sending \cup {"window", "check"} => sent["client"] # <<>>
  /\ \A h \in Hosts : \A i \in DOMAIN net[h] :
       net[h][i].data # <<>> => sent[Other(h)] # <<>> /\ net[h][i].flags = {"PSH", "ACK"}

\* The bytes, as in StreamIntact, but in the states of the handshake too.
Stream(h) ==
  up[h] => LET held == got[h] \o rcv_buf[h]
           IN  IF state[h] \notin {"FIN_WAIT_1", "FIN_WAIT_2"}
               THEN held \o InFlight(h) = sent[Other(h)]
               ELSE IsPrefix(held, sent[Other(h)])

Inv == /\ TypeOK /\ FirstPackets /\ Speaks
       /\ \A h \in Hosts : Place(h) /\ Handshake(h) /\ Stream(h)

-----------------------------------------------------------------------------
(* The window, when it is ample.                                            *)

\* Bytes that the exchange can take in each direction.
Budget == Total * (1 + load.banner)

\* A window of w is more than what h has left to send.
Enough(h, w) == w >= Budget + 1 - Len(sent[h])

\* Every window that h knows or will know is enough.
Windows(h) ==
  /\ Enough(h, rcv_wnd[Other(h)])
  /\ \A i \in DOMAIN net[h] : Enough(h, net[h][i].rwnd)
  /\ rx[h].pc \in {"old", "new"} => Enough(h, rx[h].rwnd)
  /\ state[h] \notin Shaking \/ rx[h].pc \in {"wake", "establish"} => Enough(h, snd_wnd[h])
  /\ app[h].pc = "store" => Enough(h, app[h].wnd)

\* As in WindowSuffices; and a packet with PSH has data.
Segments(h) ==
  /\ up[h]
  /\ app[h].pc \notin {"sleep", "asleep", "take"}
  /\ app[h].wlen <= Len(app[h].buf)
  /\ app[h].pc \in {"load", "store"} => app[h].seg \in 1 .. Len(app[h].buf) - app[h].wlen
  /\ \A i \in DOMAIN net[h] : "PSH" \in net[h][i].flags => net[h][i].data # <<>>

\* How much each side has sent.
ClientSent ==
  /\ Len(app["client"].buf) = load.len
  /\ Len(sent["client"]) = (app["client"].round - 1) * load.len + app["client"].wlen
  /\ app["client"].pc \in {"read", "settle", "get", "window", "close", "fin", "done"} => app["client"].wlen = load.len
ServerSent ==
  Len(sent["server"]) + Len(app["server"].buf) - app["server"].wlen <= Len(got["server"]) * (1 + load.banner)

Amply == ClientSent /\ ServerSent /\ \A h \in Hosts : Windows(h) /\ Segments(h)

InvAmple == Ample => Amply

\* The client sends its bytes in order.
InOrder ==
  /\ app["client"].buf = ClientWrite(app["client"].round)
  /\ sent["client"] = Upto(Len(sent["client"]))

\* The server answers what it has got: what it has sent and what of its answer is left.
Echoing ==
  LET a == app["server"]
  IN  /\ a.pc \in Opening \cup {"read", "settle", "get"} => a.wlen = Len(a.buf)
      /\ Text(sent["server"]) \o Text(Rest(a.buf, a.wlen)) = got["server"]

InvEcho == Ample => InOrder /\ Echoing

-----------------------------------------------------------------------------
(* Facts about the hosts, the bytes and the wait structures.                *)

\* The two hosts.
LEMMA TwoHosts ==
  /\ "client" \in Hosts /\ "server" \in Hosts
  /\ \A h \in Hosts : Other(h) \in Hosts /\ Other(h) # h /\ Other(Other(h)) = h
  /\ \A h \in Hosts : h = "client" \/ h = "server"
  /\ Other("client") = "server" /\ Other("server") = "client"
BY DEF Hosts, Other

\* The length of so many messages.
LEMMA Products ==
  ASSUME NEW a \in Nat, NEW b \in Nat, NEW n \in Nat, a <= b
  PROVE  a * n <= b * n /\ a * n \in Nat /\ b * n \in Nat
<1>1. PICK k \in Nat : b = a + k
  <2>1. b - a \in Nat /\ b = a + (b - a)
    OBVIOUS
  <2> QED
    BY <2>1
<1>2. b * n = a * n + k * n
  BY <1>1
<1>3. k * n \in Nat /\ a * n \in Nat
  OBVIOUS
<1> HIDE <1>1
<1> QED
  BY <1>2, <1>3

\* A window may be any number of 16 bits; which is their largest is used nowhere else.
LEMMA U16 == MaxU16 \in Nat /\ MaxU16 >= 2
  BY DEF MaxU16

\* What the parameters of a behaviour are.
LEMMA LoadTypes ==
  ASSUME load \in Workloads
  PROVE  /\ load.writes \in Nat \ {0} /\ load.len \in Nat \ {0} /\ load.banner \in Nat
         /\ load.readMax \in Nat \ {0} /\ load.window \in 2 .. MaxU16 /\ load.window \in Nat
         /\ MaxSeg \in Nat \ {0}
         /\ Total \in Nat /\ Banner \in Byte /\ Junk \in Byte /\ 1 .. Total \subseteq Byte
<1>1. load \in Workload /\ MaxSeg \in Nat \ {0}
  BY DataAssumption
<1>2. /\ load.writes \in Nat \ {0} /\ load.len \in Nat \ {0} /\ load.banner \in Nat
      /\ load.readMax \in Nat \ {0} /\ load.window \in 2 .. MaxU16
  BY <1>1 DEF Workload
<1>3. Total \in Nat
  BY <1>2 DEF Total
<1> QED
  BY <1>1, <1>2, <1>3, U16 DEF Byte

\* What tcp_client writes.
LEMMA WriteTypes ==
  ASSUME load \in Workloads, NEW r \in 1 .. load.writes
  PROVE  ClientWrite(r) \in Seq(Byte) /\ Len(ClientWrite(r)) = load.len
<1> DEFINE n == load.len
           w == load.writes
<1>1. n \in Nat \ {0} /\ w \in Nat \ {0} /\ Total = w * n /\ 1 .. Total \subseteq Byte
  BY LoadTypes DEF Total
<1>2. ClientWrite(r) = [i \in 1 .. n |-> (r - 1) * n + i]
  BY DEF ClientWrite
<1>3. r \in 1 .. w
  OBVIOUS
<1> HIDE DEF n, w
<1>4. (r - 1) * n \in Nat /\ (r - 1) * n + n <= w * n
  <2>1. r - 1 \in Nat /\ r \in Nat /\ w \in Nat /\ n \in Nat /\ r <= w
    BY <1>1, <1>3
  <2>2. (r - 1) * n \in Nat
    BY <2>1
  <2>3. r * n <= w * n
    BY <2>1, Products
  <2>4. (r - 1) * n + n = r * n
    BY <2>1
  <2> QED
    BY <2>2, <2>3, <2>4
<1>5. \A i \in 1 .. n : (r - 1) * n + i \in 1 .. Total
  <2> TAKE i \in 1 .. n
  <2>1. PICK a \in Nat : a = (r - 1) * n
    BY <1>4
  <2>2. PICK b \in Nat : b = w * n
    BY <1>1
  <2> QED
    BY <1>1, <1>4, <2>1, <2>2
<1>6. \A i \in 1 .. n : (r - 1) * n + i \in Byte
  BY <1>1, <1>5
<1>7. ClientWrite(r) \in [1 .. n -> Byte]
  BY <1>2, <1>6
<1> QED
  BY <1>1, <1>7 DEF n

\* What tcp_send_data copies.
LEMMA PayloadTypes ==
  ASSUME load \in Workloads, NEW buf \in Seq(Byte), NEW wlen \in Nat, NEW seg \in Nat
  PROVE  Payload(buf, wlen, seg) \in Seq(Byte) /\ Len(Payload(buf, wlen, seg)) = seg
<1>1. \A i \in DOMAIN buf : buf[i] \in Byte
  OBVIOUS
<1>2. Junk \in Byte
  BY LoadTypes
<1>3. Payload(buf, wlen, seg) \in [1 .. seg -> Byte]
  BY <1>1, <1>2 DEF Payload
<1> QED
  BY <1>3

\* What tcp_server answers.
LEMMA EchoTypes ==
  ASSUME load \in Workloads, NEW b \in Seq(Byte)
  PROVE  Echo(b) \in Seq(Byte) /\ Len(Echo(b)) = load.banner + Len(b)
<1>1. load.banner \in Nat /\ Banner \in Byte
  BY LoadTypes
<1> DEFINE z == [i \in 1 .. load.banner |-> Banner]
<1>2. z \in [1 .. load.banner -> Byte]
  BY <1>1
<1>3. z \in Seq(Byte) /\ Len(z) = load.banner
  BY <1>1, <1>2
<1> HIDE DEF z
<1>4. z \o b \in Seq(Byte) /\ Len(z \o b) = Len(z) + Len(b)
  BY <1>3, ConcatProperties
<1> QED
  BY <1>3, <1>4 DEF Echo, z

\* The workload does not change, and with it what bytes, threads and packets are.
LEMMA SameBytes ==
  ASSUME load' = load
  PROVE  Byte' = Byte /\ Thread' = Thread /\ Packet' = Packet /\ Total' = Total /\ Ample' = Ample
<1>1. Total' = Total
  BY DEF Total
<1>2. Byte' = Byte
  BY <1>1 DEF Byte, Junk, Banner
<1> QED
  BY <1>1, <1>2 DEF Thread, Packet, Ample

\* The next round of tcp_client's loop.
LEMMA NextRoundTypes ==
  ASSUME load \in Workloads, NEW a \in Thread, a.round \in 1 .. load.writes
  PROVE  /\ NextRound(a) \in Thread
         /\ NextRound(a).round \in 1 .. load.writes
         /\ NextRound(a).pc \in {"check", "close"}
         /\ NextRound(a).seg = a.seg /\ NextRound(a).wnd = a.wnd
<1>1. load.writes \in Nat
  BY LoadTypes
<1>2. CASE a.round < load.writes
  <2>1. a.round + 1 \in 1 .. load.writes /\ a.round + 1 \in Nat
    BY <1>1, <1>2
  <2>2. ClientWrite(a.round + 1) \in Seq(Byte)
    BY <2>1, WriteTypes
  <2>3. NextRound(a) = [a EXCEPT !.round = @ + 1, !.buf = ClientWrite(a.round + 1), !.wlen = 0, !.pc = "check"]
    BY <1>2 DEF NextRound
  <2>4. PICK b \in Seq(Byte) : b = ClientWrite(a.round + 1)
    BY <2>2
  <2>5. PICK r \in Nat : r = a.round + 1
    BY <2>1
  <2>6. NextRound(a) = [a EXCEPT !.round = r, !.buf = b, !.wlen = 0, !.pc = "check"]
    BY <2>3, <2>4, <2>5
  <2>7. r \in 1 .. load.writes
    BY <2>1, <2>5
  <2>8. NextRound(a) \in Thread
    <3>1. NextRound(a) = [pc |-> "check", round |-> r, buf |-> b, wlen |-> 0, seg |-> a.seg, wnd |-> a.wnd]
      BY <2>6 DEF Thread
    <3>2. a.seg \in 0 .. MaxU16 /\ a.wnd \in 0 .. MaxU16
      BY DEF Thread
    <3> QED
      BY <3>1, <3>2 DEF Thread
  <2>9. /\ NextRound(a).round = r /\ NextRound(a).pc = "check"
        /\ NextRound(a).seg = a.seg /\ NextRound(a).wnd = a.wnd
    BY <2>6 DEF Thread
  <2> QED
    BY <2>7, <2>8, <2>9
<1>3. CASE ~ (a.round < load.writes)
  <2>1. NextRound(a) = [a EXCEPT !.pc = "close"]
    BY <1>3 DEF NextRound
  <2> QED
    BY <2>1 DEF Thread
<1> QED
  BY <1>2, <1>3

\* The wait structures: types, and that only wait_exit makes one dead.
LEMMA WaitTypes ==
  ASSUME NEW T, NEW w \in WaitStruct(T), NEW t \in T
  PROVE  /\ wait_init \in WaitStruct(T)
         /\ sleep_on(w, t) \in WaitStruct(T) /\ sleep_on(w, t).dead = w.dead
         /\ sleep_on(w, t).signaled = w.signaled
         /\ sleep_on(w, t).notified => w.notified
         /\ ~ w.dead /\ ~ w.notified => t \in sleep_on(w, t).waiting
         /\ resume(w, t) \in WaitStruct(T) /\ resume(w, t).dead = w.dead
         /\ resume(w, t).signaled \subseteq w.signaled /\ ~ resume(w, t).notified
         /\ \A v \in wake_up(w) : v \in WaitStruct(T) /\ v.dead = w.dead
<1>1. wait_init \in WaitStruct(T)
  BY DEF wait_init, WaitStruct
<1>2. sleep_on(w, t) \in WaitStruct(T) /\ sleep_on(w, t).dead = w.dead /\ sleep_on(w, t).signaled = w.signaled
  BY DEF sleep_on, WaitStruct
<1>3. sleep_on(w, t).notified => w.notified
  BY DEF sleep_on, WaitStruct
<1>4. ~ w.dead /\ ~ w.notified => t \in sleep_on(w, t).waiting
  BY DEF sleep_on, WaitStruct
<1>5. resume(w, t) \in WaitStruct(T) /\ resume(w, t).dead = w.dead
  BY DEF resume, WaitStruct
<1>6. resume(w, t).signaled \subseteq w.signaled /\ ~ resume(w, t).notified
  BY DEF resume, WaitStruct
<1>7. \A v \in wake_up(w) : v \in WaitStruct(T) /\ v.dead = w.dead
  <2> DEFINE n == [w EXCEPT !.notified = TRUE]
  <2>1. n \in WaitStruct(T) /\ n.dead = w.dead
    BY DEF WaitStruct
  <2> HIDE DEF n
  <2>2. \A v \in Signal(n) : v \in WaitStruct(T) /\ v.dead = w.dead
    BY <2>1 DEF Signal, WaitStruct
  <2>3. wake_up(w) \subseteq {w, n} \cup Signal(n)
    BY DEF wake_up, n
  <2> QED
    BY <2>1, <2>2, <2>3
<1> QED
  BY <1>1, <1>2, <1>3, <1>4, <1>5, <1>6, <1>7

\* A thread that only moves on.
LEMMA Moves ==
  ASSUME app \in [Hosts -> Thread], NEW h \in Hosts, NEW pc, Goto(h, pc),
         pc \in {"connect", "listen", "accept", "wait", "waiting", "check", "sleep", "asleep", "compare", "take", "load", "store",
                 "read", "settle", "get", "window", "close", "fin", "done"}
  PROVE  /\ app' \in [Hosts -> Thread]
         /\ app'[h].pc = pc
         /\ \A k \in Hosts : app'[k].pc # app[k].pc => k = h
         /\ \A k \in Hosts : /\ app'[k].round = app[k].round /\ app'[k].buf = app[k].buf /\ app'[k].wlen = app[k].wlen
                             /\ app'[k].seg = app[k].seg /\ app'[k].wnd = app[k].wnd
<1>1. app[h] \in Thread /\ app' = [app EXCEPT ![h] = [app[h] EXCEPT !.pc = pc]]
  BY DEF Goto
<1>2. [app[h] EXCEPT !.pc = pc] \in Thread
  BY <1>1 DEF Thread
<1>3. app' \in [Hosts -> Thread]
  BY <1>1, <1>2
<1>4. /\ [app[h] EXCEPT !.pc = pc].pc = pc
      /\ [app[h] EXCEPT !.pc = pc].round = app[h].round
      /\ [app[h] EXCEPT !.pc = pc].buf = app[h].buf
      /\ [app[h] EXCEPT !.pc = pc].wlen = app[h].wlen
      /\ [app[h] EXCEPT !.pc = pc].seg = app[h].seg
      /\ [app[h] EXCEPT !.pc = pc].wnd = app[h].wnd
  BY <1>1 DEF Thread
<1>5. app'[h] = [app[h] EXCEPT !.pc = pc] /\ \A k \in Hosts \ {h} : app'[k] = app[k]
  BY <1>1
<1> QED
  BY <1>3, <1>4, <1>5

\* A packet sent to the other host.
LEMMA Sends ==
  ASSUME net \in [Hosts -> Seq(Packet)], NEW h \in Hosts, NEW p \in Packet,
         NEW n \in [Hosts -> Seq(Packet)], NEW m, m = [n EXCEPT ![Other(h)] = Append(@, p)]
  PROVE  /\ m \in [Hosts -> Seq(Packet)]
         /\ m[h] = n[h] /\ m[Other(h)] = Append(n[Other(h)], p)
<1>1. Other(h) \in Hosts /\ Other(h) # h
  BY TwoHosts
<1>2. Append(n[Other(h)], p) \in Seq(Packet)
  BY <1>1
<1> QED
  BY <1>1, <1>2

\* A packet taken.
LEMMA Takes ==
  ASSUME net \in [Hosts -> Seq(Packet)], NEW h \in Hosts, net[h] # <<>>
  PROVE  /\ Taken(h) \in [Hosts -> Seq(Packet)]
         /\ Taken(h)[h] = Tail(net[h]) /\ Taken(h)[Other(h)] = net[Other(h)]
         /\ Head(net[h]) \in Packet
<1>1. Other(h) \in Hosts /\ Other(h) # h
  BY TwoHosts
<1>2. net[h] \in Seq(Packet)
  OBVIOUS
<1>3. Tail(net[h]) \in Seq(Packet) /\ Head(net[h]) \in Packet
  BY <1>2
<1> QED
  BY <1>1, <1>3 DEF Taken

\* The packets without data.
LEMMA ControlTypes ==
  ASSUME TypeOK, NEW h \in Hosts, NEW flags \in SUBSET {"SYN", "PSH", "ACK", "FIN"}
  PROVE  /\ Control(h, flags) \in Packet /\ Control(h, flags).data = <<>>
         /\ Control(h, flags).flags = flags /\ Control(h, flags).rwnd = rcv_wnd[h]
BY DEF TypeOK, Control, Packet

-----------------------------------------------------------------------------
(* Types.                                                                   *)

\* No step changes the workload.
LEMMA LoadStays == ASSUME NEW h \in Hosts, AppStep(h) \/ RxStep(h) PROVE load' = load
<1>1. CASE OpenStep(h)
  BY <1>1 DEF OpenStep, Connect, Listen, AcceptTest, OpenSleep, OpenReturn
<1>2. CASE SendStep(h)
  BY <1>2 DEF SendStep, CheckWindow, SleepOn, CondWaitReturn, CompareWindow, TakeWindow, LoadWindow,
              StoreWindow, WriteReturns
<1>3. CASE ReadStep(h) \/ CloseStep(h)
  BY <1>3 DEF ReadStep, CloseStep, ReadNothing, ReadAsk, ReadSettle, ReadGet, UpdateRcvWindow, Close, SendFin
<1>4. CASE RxStep(h)
  BY <1>4 DEF RxStep, ReceiveSyn, ReceiveSynAck, ReceiveAck, Establish, WakeOpened, ReceiveData, AssertFails,
              ReadOldWindow, SetWindow, WakeSender, ReceiveFin, ReceiveInFinWait1, ReceiveInFinWait2
<1> QED
  BY <1>1, <1>2, <1>3, <1>4 DEF AppStep

\* Steps that only move the application thread on.
LEMMA MoveTypes ==
  ASSUME TypeOK, NEW h \in Hosts, NEW pc, Goto(h, pc),
         pc \in {"connect", "listen", "accept", "wait", "waiting", "check", "sleep", "asleep", "compare", "take", "load", "store",
                 "read", "settle", "get", "window", "close", "fin", "done"},
         UNCHANGED <<load, wait_conn, up, sock, rx, net, sent, got>>
  PROVE  TypeOK'
<1>1. app \in [Hosts -> Thread]
  BY DEF TypeOK
<1>2. app' \in [Hosts -> Thread]
  BY <1>1, Moves
<1>3. Byte' = Byte /\ Thread' = Thread /\ Packet' = Packet
  BY SameBytes
<1> QED
  BY <1>2, <1>3 DEF TypeOK, sock

\* Opening the connection.
LEMMA OpenTypes == ASSUME TypeOK, NEW h \in Hosts, OpenStep(h) PROVE TypeOK'
<1>0. /\ app \in [Hosts -> Thread] /\ net \in [Hosts -> Seq(Packet)]
      /\ state \in [Hosts -> {"CLOSED", "LISTEN", "SYN_SENT", "SYN_RECV", "ESTABLISHED",
                         "FIN_WAIT_1", "FIN_WAIT_2", "CLOSE_WAIT"}]
  BY DEF TypeOK
<1>B. Byte' = Byte /\ Thread' = Thread /\ Packet' = Packet
  BY SameBytes, LoadStays DEF AppStep
<1>1. CASE h = "server" /\ Listen
  <2>1. app' \in [Hosts -> Thread]
    BY <1>0, <1>1, Moves, TwoHosts DEF Listen
  <2>2. state' \in [Hosts -> {"CLOSED", "LISTEN", "SYN_SENT", "SYN_RECV", "ESTABLISHED",
                         "FIN_WAIT_1", "FIN_WAIT_2", "CLOSE_WAIT"}]
    BY <1>0, <1>1 DEF Listen
  <2> QED
    BY <1>1, <1>B, <2>1, <2>2 DEF TypeOK, Listen
<1>2. CASE h = "client" /\ Connect
  <2>1. app' \in [Hosts -> Thread]
    BY <1>0, <1>2, Moves, TwoHosts DEF Connect
  <2>2. state' \in [Hosts -> {"CLOSED", "LISTEN", "SYN_SENT", "SYN_RECV", "ESTABLISHED",
                         "FIN_WAIT_1", "FIN_WAIT_2", "CLOSE_WAIT"}]
    BY <1>0, <1>2 DEF Connect
  <2>3. net' \in [Hosts -> Seq(Packet)]
    BY <1>0, <1>2, Sends, ControlTypes, TwoHosts DEF Connect, Send
  <2> QED
    BY <1>2, <1>B, <2>1, <2>2, <2>3 DEF TypeOK, Connect
<1>3. CASE h = "server" /\ AcceptTest
  BY <1>3, MoveTypes, TwoHosts DEF AcceptTest, Opened
<1>4. CASE OpenSleep(h)
  <2>1. PICK pc \in {"waiting", "check", "read"} : Goto(h, pc)
    BY <1>4 DEF OpenSleep, Opened
  <2>2. app' \in [Hosts -> Thread]
    BY <1>0, <2>1, Moves
  <2>3. \A k \in Hosts : wait_conn'[k] \in WaitStruct({k})
    <3>1. \A k \in Hosts : wait_conn[k] \in WaitStruct({k})
      BY DEF TypeOK
    <3>2. sleep_on(wait_conn[h], h) \in WaitStruct({h})
      BY <3>1, WaitTypes
    <3>3. wait_conn' = [wait_conn EXCEPT ![h] = sleep_on(wait_conn[h], h)] /\ DOMAIN wait_conn = Hosts
      BY <1>4 DEF TypeOK, OpenSleep
    <3> QED
      BY <3>1, <3>2, <3>3
  <2> QED
    BY <1>4, <1>B, <2>2, <2>3 DEF TypeOK, OpenSleep, sock
<1>5. CASE OpenReturn(h)
  <2>1. PICK pc \in {"check", "read"} : Goto(h, pc)
    BY <1>5 DEF OpenReturn, Opened
  <2>2. app' \in [Hosts -> Thread]
    BY <1>0, <2>1, Moves
  <2>3. \A k \in Hosts : wait_conn'[k] \in WaitStruct({k})
    <3>1. \A k \in Hosts : wait_conn[k] \in WaitStruct({k})
      BY DEF TypeOK
    <3>2. resume(wait_conn[h], h) \in WaitStruct({h})
      BY <3>1, WaitTypes
    <3>3. wait_conn' = [wait_conn EXCEPT ![h] = resume(wait_conn[h], h)] /\ DOMAIN wait_conn = Hosts
      BY <1>5 DEF TypeOK, OpenReturn
    <3> QED
      BY <3>1, <3>2, <3>3
  <2> QED
    BY <1>5, <1>B, <2>2, <2>3 DEF TypeOK, OpenReturn, sock
<1> QED
  BY <1>1, <1>2, <1>3, <1>4, <1>5 DEF OpenStep

\* A segment of what is left fits into 16 bits: it is less than the window.
LEMMA WantedTypes ==
  ASSUME TypeOK, NEW h \in Hosts, Place(h), app[h].pc = "compare"
  PROVE  /\ Wanted(app[h]) \in Nat /\ Wanted(app[h]) >= 1
         /\ Wanted(app[h]) <= Len(app[h].buf) - app[h].wlen
         /\ Wanted(app[h]) < snd_wnd[h] => Wanted(app[h]) \in 0 .. MaxU16
<1>1. app[h].wlen \in Nat /\ app[h].buf \in Seq(Byte) /\ snd_wnd[h] \in 0 .. MaxU16
  BY DEF TypeOK, Thread
<1>2. app[h].wlen < Len(app[h].buf)
  BY DEF Place, Located, Sending
<1>3. MaxSeg \in Nat \ {0} /\ Len(app[h].buf) \in Nat /\ MaxU16 \in Nat
  BY <1>1, LoadTypes, U16, SMTT(30) DEF TypeOK
<1>4. PICK l \in Nat : l = Len(app[h].buf) - app[h].wlen /\ l >= 1
  BY <1>1, <1>2, <1>3
<1>5. Wanted(app[h]) = IF MaxSeg < l THEN MaxSeg ELSE l
  BY <1>4 DEF Wanted, Smaller
<1>6. PICK w \in Nat : w = Wanted(app[h]) /\ w >= 1 /\ w <= l
  BY <1>3, <1>4, <1>5
<1>7. PICK s \in 0 .. MaxU16 : s = snd_wnd[h]
  BY <1>1
<1>8. w < s => w \in 0 .. MaxU16
  BY <1>3, <1>6, <1>7
<1> QED
  BY <1>4, <1>6, <1>7, <1>8

\* tcp_send_data.
LEMMA SendTypes == ASSUME TypeOK, NEW h \in Hosts, Place(h), SendStep(h) PROVE TypeOK'
<1>0. /\ app \in [Hosts -> Thread] /\ net \in [Hosts -> Seq(Packet)] /\ sent \in [Hosts -> Seq(Byte)]
      /\ snd_wnd \in [Hosts -> 0 .. MaxU16] /\ rcv_wnd \in [Hosts -> 0 .. MaxU16]
      /\ load \in Workloads
  BY DEF TypeOK
<1>1. app[h] \in Thread /\ snd_wnd[h] \in 0 .. MaxU16
  BY <1>0
<1>B. Byte' = Byte /\ Thread' = Thread /\ Packet' = Packet
  BY SameBytes, LoadStays DEF AppStep
<1>2. CASE CheckWindow(h)
  <2>1. PICK pc \in {"sleep", "compare"} : Goto(h, pc)
    BY <1>2 DEF CheckWindow
  <2> QED
    BY <1>2, <2>1, MoveTypes DEF CheckWindow
<1>3. CASE SleepOn(h)
  <2>1. PICK pc \in {"asleep", "compare"} : Goto(h, pc)
    BY <1>3 DEF SleepOn
  <2>2. app' \in [Hosts -> Thread]
    BY <1>0, <2>1, Moves
  <2>3. \A k \in Hosts : wait_send[k] \in WaitStruct({k})
    BY DEF TypeOK
  <2>4. sleep_on(wait_send[h], h) \in WaitStruct({h})
    BY <2>3, WaitTypes
  <2>5. wait_send' = [wait_send EXCEPT ![h] = sleep_on(wait_send[h], h)] /\ DOMAIN wait_send = Hosts
    BY <1>3 DEF TypeOK, SleepOn
  <2>6. \A k \in Hosts : wait_send'[k] \in WaitStruct({k})
    BY <2>3, <2>4, <2>5
  <2> QED
    BY <1>3, <1>B, <2>2, <2>5, <2>6 DEF TypeOK, SleepOn
<1>4. CASE CondWaitReturn(h)
  <2>1. Goto(h, "compare")
    BY <1>4 DEF CondWaitReturn
  <2>2. app' \in [Hosts -> Thread]
    BY <1>0, <2>1, Moves
  <2>3. \A k \in Hosts : wait_send[k] \in WaitStruct({k})
    BY DEF TypeOK
  <2>4. resume(wait_send[h], h) \in WaitStruct({h})
    BY <2>3, WaitTypes
  <2>5. wait_send' = [wait_send EXCEPT ![h] = resume(wait_send[h], h)] /\ DOMAIN wait_send = Hosts
    BY <1>4 DEF TypeOK, CondWaitReturn
  <2>6. \A k \in Hosts : wait_send'[k] \in WaitStruct({k})
    BY <2>3, <2>4, <2>5
  <2> QED
    BY <1>4, <1>B, <2>2, <2>5, <2>6 DEF TypeOK, CondWaitReturn
<1>5. CASE CompareWindow(h)
  <2>1. CASE Wanted(app[h]) < snd_wnd[h]
    <3>1. PICK w \in 0 .. MaxU16 : w = Wanted(app[h])
      BY <1>5, <2>1, WantedTypes DEF CompareWindow, At
    <3>2. app' = [app EXCEPT ![h] = [app[h] EXCEPT !.seg = w, !.pc = "load"]]
      BY <1>0, <1>5, <2>1, <3>1 DEF CompareWindow
    <3>3. [app[h] EXCEPT !.seg = w, !.pc = "load"] \in Thread
      BY <1>1 DEF Thread
    <3>4. app' \in [Hosts -> Thread]
      BY <1>0, <3>2, <3>3
    <3> QED
      BY <1>5, <1>B, <3>4 DEF TypeOK, CompareWindow, sock
  <2>2. CASE ~ (Wanted(app[h]) < snd_wnd[h])
    BY <1>5, <2>2, MoveTypes DEF CompareWindow
  <2> QED
    BY <2>1, <2>2
<1>6. CASE TakeWindow(h)
  <2>1. app' = [app EXCEPT ![h] = [app[h] EXCEPT !.seg = snd_wnd[h], !.pc = "load"]]
    BY <1>0, <1>6 DEF TakeWindow
  <2>2. [app[h] EXCEPT !.seg = snd_wnd[h], !.pc = "load"] \in Thread
    BY <1>1 DEF Thread
  <2>3. app' \in [Hosts -> Thread]
    BY <1>0, <2>1, <2>2
  <2> QED
    BY <1>6, <1>B, <2>3 DEF TypeOK, TakeWindow, sock
<1>7. CASE LoadWindow(h)
  <2>1. app' = [app EXCEPT ![h] = [app[h] EXCEPT !.wnd = snd_wnd[h], !.pc = "store"]]
    BY <1>0, <1>7 DEF LoadWindow
  <2>2. [app[h] EXCEPT !.wnd = snd_wnd[h], !.pc = "store"] \in Thread
    BY <1>1 DEF Thread
  <2>3. app' \in [Hosts -> Thread]
    BY <1>0, <2>1, <2>2
  <2> QED
    BY <1>7, <1>B, <2>3 DEF TypeOK, LoadWindow, sock
<1>8. CASE StoreWindow(h)
  <2>1. /\ app[h].buf \in Seq(Byte) /\ app[h].wlen \in Nat /\ app[h].seg \in Nat /\ app[h].wnd \in Nat
        /\ MaxU16 \in Nat
    BY <1>1, U16 DEF Thread
  <2>2. PICK data \in Seq(Byte) : data = Payload(app[h].buf, app[h].wlen, app[h].seg)
    BY <1>0, <2>1, PayloadTypes
  <2>3. PICK n \in Nat : n = app[h].wlen + app[h].seg
    BY <2>1
  <2>4. PICK w \in 0 .. MaxU16 : w = (app[h].wnd - app[h].seg) % (MaxU16 + 1)
    <3>1. PICK z \in Int : z = app[h].wnd - app[h].seg
      BY <2>1
    <3>2. PICK m \in Nat \ {0} : m = MaxU16 + 1
      BY <2>1
    <3>3. z % m \in 0 .. m - 1
      OBVIOUS
    <3> QED
      BY <2>1, <3>1, <3>2, <3>3
  <2>5. snd_wnd' \in [Hosts -> 0 .. MaxU16]
    BY <1>0, <1>8, <2>4 DEF StoreWindow
  <2>6. sent' \in [Hosts -> Seq(Byte)]
    <3>1. sent[h] \o data \in Seq(Byte)
      BY <1>0, ConcatProperties
    <3>2. sent' = [sent EXCEPT ![h] = sent[h] \o data]
      BY <1>8, <2>2 DEF StoreWindow
    <3> QED
      BY <1>0, <3>1, <3>2
  <2>7. app' \in [Hosts -> Thread]
    <3>1. app' = [app EXCEPT ![h] = [app[h] EXCEPT !.wlen = n, !.pc = "check"]]
      BY <1>0, <1>8, <2>3 DEF StoreWindow
    <3>2. [app[h] EXCEPT !.wlen = n, !.pc = "check"] \in Thread
      BY <1>1 DEF Thread
    <3> QED
      BY <1>0, <3>1, <3>2
  <2>8. net' \in [Hosts -> Seq(Packet)]
    <3>1. PICK p \in Packet : p = [flags |-> {"PSH", "ACK"}, rwnd |-> rcv_wnd[h], data |-> data]
      BY <1>0 DEF Packet
    <3>2. net' = [net EXCEPT ![Other(h)] = Append(@, p)]
      BY <1>8, <2>2, <3>1 DEF StoreWindow, Send
    <3> QED
      BY <1>0, <3>2, Sends
  <2> QED
    BY <1>8, <1>B, <2>5, <2>6, <2>7, <2>8 DEF TypeOK, StoreWindow
<1>9. CASE WriteReturns(h)
  BY <1>9, MoveTypes DEF WriteReturns
<1> QED
  BY <1>2, <1>3, <1>4, <1>5, <1>6, <1>7, <1>8, <1>9 DEF SendStep

\* tcp_sock_read and tcp_sock_close.
LEMMA ReadTypes == ASSUME TypeOK, NEW h \in Hosts, Place(h), ReadStep(h) \/ CloseStep(h) PROVE TypeOK'
<1>0. /\ app \in [Hosts -> Thread] /\ net \in [Hosts -> Seq(Packet)] /\ got \in [Hosts -> Seq(Byte)]
      /\ rcv_wnd \in [Hosts -> 0 .. MaxU16] /\ rcv_buf \in [Hosts -> Seq(Byte)]
      /\ \A k \in Hosts : Len(rcv_buf[k]) < load.window
      /\ state \in [Hosts -> {"CLOSED", "LISTEN", "SYN_SENT", "SYN_RECV", "ESTABLISHED",
                         "FIN_WAIT_1", "FIN_WAIT_2", "CLOSE_WAIT"}]
      /\ load \in Workloads
  BY DEF TypeOK
<1>1. app[h] \in Thread /\ rcv_buf[h] \in Seq(Byte) /\ app[h].round \in 1 .. load.writes
  BY <1>0 DEF Place, Located
<1>2. NextRound(app[h]) \in Thread
  BY <1>0, <1>1, NextRoundTypes
<1>3. /\ load.window \in 2 .. MaxU16 /\ MaxU16 \in Nat /\ load.window \in Nat /\ load.readMax \in Nat \ {0}
  BY <1>0, LoadTypes, U16
<1>L. load' = load
  BY LoadStays DEF AppStep
<1>B. Byte' = Byte /\ Thread' = Thread /\ Packet' = Packet
  BY <1>L, SameBytes
<1>4. CASE ReadNothing(h)
  <2>1. app' \in [Hosts -> Thread]
    BY <1>0, <1>2, <1>4 DEF ReadNothing
  <2> QED
    BY <1>4, <1>B, <2>1 DEF TypeOK, ReadNothing, sock
<1>9. CASE ReadAsk(h) \/ ReadSettle(h)
  <2>1. CASE Goto(h, "settle")
    BY <1>9, <2>1, MoveTypes DEF ReadAsk, ReadSettle
  <2>2. CASE ~ Goto(h, "settle")
    <3>1. PICK l \in Nat : l = Len(rcv_buf[h]) /\ l \in 0 .. MaxU16
      <4>1. Len(rcv_buf[h]) \in Nat /\ Len(rcv_buf[h]) < load.window
        BY <1>0, <1>1
      <4> QED
        BY <1>3, <4>1
    <3>2. PICK m \in Nat : m = ReadMax(h)
      BY <1>3 DEF ReadMax
    <3>3. PICK z \in 0 .. MaxU16 : app' = [app EXCEPT ![h].seg = z, ![h].pc = "get"]
      <4>1. CASE ReadAsk(h)
        <5>1. m <= l /\ app' = [app EXCEPT ![h].seg = m, ![h].pc = "get"]
          BY <2>2, <3>1, <3>2, <4>1 DEF ReadAsk
        <5>2. m \in 0 .. MaxU16
          BY <1>3, <3>1, <5>1
        <5> QED
          BY <5>1, <5>2
      <4>2. CASE ReadSettle(h)
        BY <3>1, <4>2 DEF ReadSettle
      <4> QED
        BY <1>9, <4>1, <4>2
    <3>4. [app[h] EXCEPT !.seg = z, !.pc = "get"] \in Thread
      BY <1>1 DEF Thread
    <3>5. app' \in [Hosts -> Thread]
      BY <1>0, <3>3, <3>4
    <3> QED
      BY <1>9, <1>B, <3>5 DEF TypeOK, ReadAsk, ReadSettle, sock
  <2> QED
    BY <2>1, <2>2
<1>5. CASE ReadGet(h)
  <2>1. PICK n \in 1 .. Len(rcv_buf[h]) : n = app[h].seg
    BY <1>5 DEF ReadGet, At, Place, Asked
  <2>2. PICK bytes \in Seq(Byte) : bytes = SubSeq(rcv_buf[h], 1, n)
    <3>1. \A i \in 1 .. n : rcv_buf[h][i] \in Byte
      BY <1>1
    <3>2. SubSeq(rcv_buf[h], 1, n) \in Seq(Byte)
      BY <3>1, SubSeqProperties
    <3> QED
      BY <3>2
  <2>3. PICK rest \in Seq(Byte) : rest = Rest(rcv_buf[h], n) /\ Len(rest) < load.window
    <3>1. Rest(rcv_buf[h], n) \in Seq(Byte)
      BY <1>1 DEF Rest
    <3>2. Len(Rest(rcv_buf[h], n)) = Len(rcv_buf[h]) - n
      BY <1>1 DEF Rest
    <3>3. Len(rcv_buf[h]) < load.window /\ Len(rcv_buf[h]) \in Nat
      BY <1>0, <1>1
    <3>4. Len(Rest(rcv_buf[h], n)) < load.window
      BY <1>3, <3>2, <3>3, SMTT(30)
    <3> QED
      BY <3>1, <3>4, Zenon
  <2>4. PICK e \in Seq(Byte) : e = Echo(bytes)
    BY <1>0, EchoTypes
  <2>5. rcv_buf' = [rcv_buf EXCEPT ![h] = rest]
    BY <1>5, <2>1, <2>3 DEF ReadGet
  <2>6. rcv_buf' \in [Hosts -> Seq(Byte)] /\ \A k \in Hosts : Len(rcv_buf'[k]) < load.window
    BY <1>0, <2>3, <2>5
  <2>7. got' \in [Hosts -> Seq(Byte)]
    <3>1. got[h] \o bytes \in Seq(Byte)
      BY <1>0, ConcatProperties
    <3>2. got' = [got EXCEPT ![h] = got[h] \o bytes]
      BY <1>5, <2>1, <2>2 DEF ReadGet
    <3> QED
      BY <1>0, <3>1, <3>2
  <2>8. app' \in [Hosts -> Thread]
    <3>1. app' = [app EXCEPT ![h] = [app[h] EXCEPT !.pc = "window", !.buf = IF h = "server" THEN e ELSE @,
                                                   !.wlen = IF h = "server" THEN 0 ELSE @]]
      BY <1>0, <1>5, <2>1, <2>2, <2>4 DEF ReadGet
    <3>2. [app[h] EXCEPT !.pc = "window", !.buf = IF h = "server" THEN e ELSE @,
                         !.wlen = IF h = "server" THEN 0 ELSE @] \in Thread
      BY <1>1 DEF Thread
    <3> QED
      BY <1>0, <3>1, <3>2
  <2> QED
    BY <1>5, <1>L, <1>B, <2>6, <2>7, <2>8 DEF TypeOK, ReadGet
<1>6. CASE UpdateRcvWindow(h)
  <2>1. ring_buffer_free(rcv_buf[h]) \in 0 .. MaxU16
    <3>1. Len(rcv_buf[h]) \in Nat /\ Len(rcv_buf[h]) < load.window
      BY <1>0, <1>1
    <3> QED
      BY <1>3, <3>1 DEF ring_buffer_free
  <2>2. rcv_wnd' \in [Hosts -> 0 .. MaxU16]
    BY <1>0, <1>6, <2>1 DEF UpdateRcvWindow
  <2>3. [app[h] EXCEPT !.pc = "check"] \in Thread
    BY <1>1 DEF Thread
  <2>4. app' = [app EXCEPT ![h] = IF h = "server" THEN [app[h] EXCEPT !.pc = "check"] ELSE NextRound(app[h])]
    BY <1>6 DEF UpdateRcvWindow
  <2>5. app' \in [Hosts -> Thread]
    BY <1>0, <1>2, <2>3, <2>4
  <2> QED
    BY <1>6, <1>B, <2>2, <2>5 DEF TypeOK, UpdateRcvWindow
<1>7. CASE Close(h)
  <2>1. app' \in [Hosts -> Thread]
    BY <1>0, <1>7, Moves DEF Close
  <2>2. state' \in [Hosts -> {"CLOSED", "LISTEN", "SYN_SENT", "SYN_RECV", "ESTABLISHED",
                         "FIN_WAIT_1", "FIN_WAIT_2", "CLOSE_WAIT"}]
    BY <1>0, <1>7 DEF Close
  <2> QED
    BY <1>7, <1>B, <2>1, <2>2 DEF TypeOK, Close
<1>8. CASE SendFin(h)
  <2>1. app' \in [Hosts -> Thread]
    BY <1>0, <1>8, Moves DEF SendFin
  <2>2. net' \in [Hosts -> Seq(Packet)]
    BY <1>0, <1>8, Sends, ControlTypes DEF SendFin, Send
  <2> QED
    BY <1>8, <1>B, <2>1, <2>2 DEF TypeOK, SendFin, sock
<1> QED
  BY <1>4, <1>5, <1>6, <1>7, <1>8, <1>9 DEF ReadStep, CloseStep

\* tcp_process.
LEMMA ReceiveTypes == ASSUME TypeOK, NEW h \in Hosts, RxStep(h) PROVE TypeOK'
<1> DEFINE States == {"CLOSED", "LISTEN", "SYN_SENT", "SYN_RECV", "ESTABLISHED",
                      "FIN_WAIT_1", "FIN_WAIT_2", "CLOSE_WAIT"}
           Rx == [pc : {"idle", "old", "new", "wake", "establish", "opened"}, rwnd : 0 .. MaxU16, old : 0 .. MaxU16]
<1>0. /\ net \in [Hosts -> Seq(Packet)] /\ rx \in [Hosts -> Rx] /\ state \in [Hosts -> States]
      /\ rcv_buf \in [Hosts -> Seq(Byte)] /\ snd_wnd \in [Hosts -> 0 .. MaxU16] /\ load \in Workloads
      /\ up \in [Hosts -> BOOLEAN] /\ \A k \in Hosts : Len(rcv_buf[k]) < load.window
  BY DEF TypeOK
<1>1. rx[h] \in Rx /\ rcv_buf[h] \in Seq(Byte) /\ snd_wnd[h] \in 0 .. MaxU16
  BY <1>0
<1>L. load' = load
  BY LoadStays
<1>B. Byte' = Byte /\ Thread' = Thread /\ Packet' = Packet
  BY <1>L, SameBytes
<1>2. ASSUME Arriving(h)
      PROVE  /\ Taken(h) \in [Hosts -> Seq(Packet)] /\ Head(net[h]) \in Packet
             /\ \A flags \in SUBSET {"SYN", "PSH", "ACK", "FIN"} : Answered(h, flags) \in [Hosts -> Seq(Packet)]
  <2>1. Taken(h) \in [Hosts -> Seq(Packet)] /\ Head(net[h]) \in Packet
    BY <1>0, <1>2, Takes DEF Arriving
  <2>2. \A flags \in SUBSET {"SYN", "PSH", "ACK", "FIN"} : Answered(h, flags) \in [Hosts -> Seq(Packet)]
    BY <1>0, <2>1, Sends, ControlTypes DEF Answered
  <2> QED
    BY <2>1, <2>2
<1>3. ASSUME NEW pc \in {"idle", "old", "new", "wake", "establish", "opened"}, NEW w \in 0 .. MaxU16
      PROVE  /\ [rx EXCEPT ![h].pc = pc] \in [Hosts -> Rx]
             /\ [rx EXCEPT ![h].pc = pc, ![h].rwnd = w] \in [Hosts -> Rx]
             /\ [rx EXCEPT ![h].pc = pc, ![h].old = w] \in [Hosts -> Rx]
  <2>1. /\ [rx[h] EXCEPT !.pc = pc] \in Rx
        /\ [rx[h] EXCEPT !.pc = pc, !.rwnd = w] \in Rx
        /\ [rx[h] EXCEPT !.pc = pc, !.old = w] \in Rx
    BY <1>1
  <2>2. /\ [rx EXCEPT ![h].pc = pc] = [rx EXCEPT ![h] = [rx[h] EXCEPT !.pc = pc]]
        /\ [rx EXCEPT ![h].pc = pc, ![h].rwnd = w] = [rx EXCEPT ![h] = [rx[h] EXCEPT !.pc = pc, !.rwnd = w]]
        /\ [rx EXCEPT ![h].pc = pc, ![h].old = w] = [rx EXCEPT ![h] = [rx[h] EXCEPT !.pc = pc, !.old = w]]
    BY <1>0
  <2> HIDE DEF Rx
  <2> QED
    BY <1>0, <2>1, <2>2
<1>4. ASSUME NEW s \in States PROVE [state EXCEPT ![h] = s] \in [Hosts -> States]
  BY <1>0
<1>5. AfterUpdate(h) \in {"establish", "idle"}
  BY DEF AfterUpdate
<1> HIDE DEF Rx
<1>6. CASE ReceiveSyn(h)
  <2>1. net' \in [Hosts -> Seq(Packet)]
    BY <1>2, <1>6 DEF ReceiveSyn
  <2>2. state' \in [Hosts -> States]
    BY <1>4, <1>6 DEF ReceiveSyn
  <2> QED
    BY <1>6, <1>B, <2>1, <2>2 DEF TypeOK, ReceiveSyn
<1>7. CASE ReceiveSynAck(h)
  <2>1. net' \in [Hosts -> Seq(Packet)] /\ Head(net[h]).rwnd \in 0 .. MaxU16
    BY <1>2, <1>7 DEF ReceiveSynAck, Packet
  <2>2. rx' \in [Hosts -> Rx]
    BY <1>3, <1>7, <2>1 DEF ReceiveSynAck
  <2> QED
    BY <1>7, <1>B, <2>1, <2>2 DEF TypeOK, ReceiveSynAck, sock, Rx
<1>8. CASE ReceiveAck(h)
  <2>1. net' \in [Hosts -> Seq(Packet)] /\ Head(net[h]).rwnd \in 0 .. MaxU16
    BY <1>2, <1>8 DEF ReceiveAck, Packet
  <2>2. rx' \in [Hosts -> Rx]
    BY <1>3, <1>8, <2>1 DEF ReceiveAck
  <2> QED
    BY <1>8, <1>B, <2>1, <2>2 DEF TypeOK, ReceiveAck, sock, Rx
<1>9. CASE Establish(h)
  <2>1. state' \in [Hosts -> States]
    BY <1>4, <1>9 DEF Establish
  <2>2. rx' \in [Hosts -> Rx]
    BY <1>1, <1>3, <1>9 DEF Establish, Rx
  <2> QED
    BY <1>9, <1>B, <2>1, <2>2 DEF TypeOK, Establish, Rx
<1>10. CASE WakeOpened(h)
  <2>1. PICK w \in wake_up(wait_conn[h]) : wait_conn' = [wait_conn EXCEPT ![h] = w]
    BY <1>10 DEF WakeOpened
  <2>2. \A k \in Hosts : wait_conn[k] \in WaitStruct({k})
    BY DEF TypeOK
  <2>3. w \in WaitStruct({h})
    BY <2>2, WaitTypes
  <2>4. DOMAIN wait_conn' = Hosts /\ \A k \in Hosts : wait_conn'[k] \in WaitStruct({k})
    BY <2>1, <2>2, <2>3 DEF TypeOK
  <2>5. rx' \in [Hosts -> Rx]
    BY <1>1, <1>3, <1>10 DEF WakeOpened, Rx
  <2> QED
    BY <1>10, <1>B, <2>4, <2>5 DEF TypeOK, WakeOpened, sock, Rx
<1>11. CASE ReceiveData(h)
  <2>1. PICK p \in Packet : p = Head(net[h])
    BY <1>2, <1>11 DEF ReceiveData
  <2>2. net' \in [Hosts -> Seq(Packet)] /\ p.rwnd \in 0 .. MaxU16 /\ p.data \in Seq(Byte)
    BY <1>2, <1>11 DEF ReceiveData, Packet
  <2>3. rx' \in [Hosts -> Rx]
    BY <1>3, <1>11, <2>1, <2>2 DEF ReceiveData
  <2>4. PICK b \in Seq(Byte) : b = rcv_buf[h] \o p.data /\ Len(b) = Len(rcv_buf[h]) + Len(p.data)
    BY <1>1, <2>2, ConcatProperties
  <2>5. Len(b) < load.window
    <3>1. Fits(rcv_buf[h], p.data)
      BY <1>11, <2>1 DEF ReceiveData
    <3>2. Len(rcv_buf[h]) \in Nat /\ Len(p.data) \in Nat /\ load.window \in Nat
      <4>1. Len(rcv_buf[h]) \in Nat
        BY <1>1
      <4>2. Len(p.data) \in Nat
        BY <2>2
      <4>3. load.window \in Nat
        BY <1>0, LoadTypes
      <4> QED
        BY <4>1, <4>2, <4>3
    <3>3. ring_buffer_free(rcv_buf[h]) >= Len(p.data)
      BY <3>1 DEF Fits
    <3>4. PICK x \in Nat, y \in Nat, z \in Nat : x = Len(rcv_buf[h]) /\ y = Len(p.data) /\ z = load.window
      BY <3>2
    <3>a. ring_buffer_free(rcv_buf[h]) = z - x - 1
      BY <3>4 DEF ring_buffer_free
    <3>5. z - x - 1 >= y
      BY <3>3, <3>4, <3>a
    <3>6. Len(b) = x + y
      BY <2>4, <3>4
    <3>7. x + y < z
      BY <3>5
    <3> QED
      BY <3>4, <3>6, <3>7
  <2>6. rcv_buf' = [rcv_buf EXCEPT ![h] = b]
    BY <1>11, <2>1, <2>4 DEF ReceiveData
  <2>7. rcv_buf' \in [Hosts -> Seq(Byte)] /\ \A k \in Hosts : Len(rcv_buf'[k]) < load.window
    BY <1>0, <2>5, <2>6
  <2> QED
    BY <1>11, <1>L, <1>B, <2>2, <2>3, <2>7 DEF TypeOK, ReceiveData, Rx
<1>12. CASE AssertFails(h)
  <2>1. net' \in [Hosts -> Seq(Packet)] /\ up' \in [Hosts -> BOOLEAN]
    BY <1>0, <1>2, <1>12 DEF AssertFails
  <2> QED
    BY <1>12, <1>B, <2>1 DEF TypeOK, AssertFails, sock
<1>13. CASE ReadOldWindow(h)
  <2>1. rx' \in [Hosts -> Rx]
    BY <1>1, <1>3, <1>13 DEF ReadOldWindow
  <2> QED
    BY <1>13, <1>B, <2>1 DEF TypeOK, ReadOldWindow, sock, Rx
<1>14. CASE SetWindow(h)
  <2>1. rx' \in [Hosts -> Rx]
    BY <1>1, <1>3, <1>5, <1>14 DEF SetWindow
  <2>2. snd_wnd' \in [Hosts -> 0 .. MaxU16]
    BY <1>0, <1>1, <1>14 DEF SetWindow, Rx
  <2> QED
    BY <1>14, <1>B, <2>1, <2>2 DEF TypeOK, SetWindow, Rx
<1>15. CASE WakeSender(h)
  <2>1. PICK w \in wake_up(wait_send[h]) : wait_send' = [wait_send EXCEPT ![h] = w]
    BY <1>15 DEF WakeSender
  <2>2. \A k \in Hosts : wait_send[k] \in WaitStruct({k})
    BY DEF TypeOK
  <2>3. w \in WaitStruct({h})
    BY <2>2, WaitTypes
  <2>4. DOMAIN wait_send' = Hosts /\ \A k \in Hosts : wait_send'[k] \in WaitStruct({k})
    BY <2>1, <2>2, <2>3 DEF TypeOK
  <2>5. rx' \in [Hosts -> Rx]
    BY <1>1, <1>3, <1>5, <1>15 DEF WakeSender
  <2> QED
    BY <1>15, <1>B, <2>4, <2>5 DEF TypeOK, WakeSender, Rx
<1>16. CASE ReceiveFin(h)
  <2>1. net' \in [Hosts -> Seq(Packet)]
    BY <1>2, <1>16 DEF ReceiveFin
  <2>2. state' \in [Hosts -> States]
    BY <1>4, <1>16 DEF ReceiveFin
  <2> QED
    BY <1>16, <1>B, <2>1, <2>2 DEF TypeOK, ReceiveFin
<1>17. CASE ReceiveInFinWait1(h)
  <2>1. net' \in [Hosts -> Seq(Packet)]
    BY <1>2, <1>17 DEF ReceiveInFinWait1
  <2>2. state' \in [Hosts -> States]
    BY <1>4, <1>17 DEF ReceiveInFinWait1
  <2> QED
    BY <1>17, <1>B, <2>1, <2>2 DEF TypeOK, ReceiveInFinWait1
<1>18. CASE ReceiveInFinWait2(h)
  <2>1. net' \in [Hosts -> Seq(Packet)]
    BY <1>2, <1>18 DEF ReceiveInFinWait2
  <2> QED
    BY <1>18, <1>B, <2>1 DEF TypeOK, ReceiveInFinWait2, sock
<1> QED
  BY <1>6, <1>7, <1>8, <1>9, <1>10, <1>11, <1>12, <1>13, <1>14, <1>15, <1>16, <1>17, <1>18 DEF RxStep

\* The types hold at every step.
LEMMA TypeStep ==
  ASSUME TypeOK, NEW h \in Hosts, Place(h), AppStep(h) \/ RxStep(h)
  PROVE  TypeOK'
BY OpenTypes, SendTypes, ReadTypes, ReceiveTypes DEF AppStep

\* A host changes nothing of the other one but what is on its way to it.
LEMMA OnlyMine ==
  ASSUME TypeOK, NEW h \in Hosts, AppStep(h) \/ RxStep(h), NEW k \in Hosts, k # h
  PROVE  /\ app'[k] = app[k] /\ state'[k] = state[k] /\ rx'[k] = rx[k] /\ wait_conn'[k] = wait_conn[k]
         /\ up'[k] = up[k] /\ snd_wnd'[k] = snd_wnd[k] /\ rcv_wnd'[k] = rcv_wnd[k] /\ rcv_buf'[k] = rcv_buf[k]
         /\ wait_send'[k] = wait_send[k] /\ sent'[k] = sent[k] /\ got'[k] = got[k]
<1>0. /\ DOMAIN app = Hosts /\ DOMAIN state = Hosts /\ DOMAIN rx = Hosts /\ DOMAIN wait_conn = Hosts
      /\ DOMAIN up = Hosts /\ DOMAIN snd_wnd = Hosts /\ DOMAIN rcv_wnd = Hosts /\ DOMAIN rcv_buf = Hosts
      /\ DOMAIN wait_send = Hosts /\ DOMAIN sent = Hosts /\ DOMAIN got = Hosts
  BY DEF TypeOK
<1>1. CASE OpenStep(h)
  <2>1. CASE h = "client" /\ Connect
    BY <1>0, <2>1 DEF Connect, Goto
  <2>2. CASE h = "server" /\ Listen
    BY <1>0, <2>2 DEF Listen, Goto
  <2>3. CASE h = "server" /\ AcceptTest
    BY <1>0, <2>3 DEF AcceptTest, Goto, sock
  <2>4. CASE OpenSleep(h)
    BY <1>0, <2>4 DEF OpenSleep, Goto, sock
  <2>5. CASE OpenReturn(h)
    BY <1>0, <2>5 DEF OpenReturn, Goto, sock
  <2> QED
    BY <1>1, <2>1, <2>2, <2>3, <2>4, <2>5 DEF OpenStep
<1>2. CASE SendStep(h)
  BY <1>0, <1>2 DEF SendStep, CheckWindow, SleepOn, CondWaitReturn, CompareWindow, TakeWindow, LoadWindow,
              StoreWindow, WriteReturns, Goto, sock
<1>3. CASE ReadStep(h) \/ CloseStep(h)
  BY <1>0, <1>3 DEF ReadStep, CloseStep, ReadNothing, ReadAsk, ReadSettle, ReadGet, UpdateRcvWindow, Close, SendFin, Goto, sock
<1>4. CASE RxStep(h)
  <2>1. CASE ReceiveSyn(h) \/ ReceiveSynAck(h) \/ ReceiveAck(h) \/ Establish(h) \/ WakeOpened(h)
    BY <1>0, <2>1 DEF ReceiveSyn, ReceiveSynAck, ReceiveAck, Establish, WakeOpened, sock
  <2>2. CASE ReceiveData(h) \/ AssertFails(h) \/ ReceiveFin(h) \/ ReceiveInFinWait1(h) \/ ReceiveInFinWait2(h)
    BY <1>0, <2>2 DEF ReceiveData, AssertFails, ReceiveFin, ReceiveInFinWait1, ReceiveInFinWait2, sock
  <2>3. CASE ReadOldWindow(h) \/ SetWindow(h) \/ WakeSender(h)
    BY <1>0, <2>3 DEF ReadOldWindow, SetWindow, WakeSender, sock
  <2> QED
    BY <1>4, <2>1, <2>2, <2>3 DEF RxStep
<1> QED
  BY <1>1, <1>2, <1>3, <1>4 DEF AppStep

-----------------------------------------------------------------------------
(* Where the threads are, and when there is a connection.                   *)

\* The steps of the application threads.
LEMMA PlaceApp ==
  ASSUME TypeOK, NEW h \in Hosts, Place(h), Handshake(h), AppStep(h)
  PROVE  Located(h)' /\ Handshake(h)'
<1>0. /\ app \in [Hosts -> Thread] /\ DOMAIN state = Hosts /\ DOMAIN wait_conn = Hosts
      /\ wait_conn[h] \in WaitStruct({h}) /\ load \in Workloads
  BY DEF TypeOK
<1>1. app[h] \in Thread /\ load' = load
  BY <1>0, LoadStays DEF AppStep
<1>2. ASSUME NEW pc \in {"connect", "listen", "accept", "wait", "waiting", "check", "sleep", "asleep", "compare", "take", "load", "store",
                 "read", "settle", "get", "window", "close", "fin", "done"}, Goto(h, pc)
      PROVE  app'[h].pc = pc /\ app'[h].round = app[h].round /\ app'[h].wlen = app[h].wlen /\ app'[h].buf = app[h].buf
  BY <1>0, <1>2, Moves
<1>3. CASE h = "server" /\ Listen
  <2>1. app'[h].pc = "accept" /\ app'[h].round = app[h].round /\ state'[h] = "LISTEN"
        /\ rx' = rx /\ wait_conn' = wait_conn /\ app[h].pc = "listen"
    BY <1>0, <1>2, <1>3 DEF Listen, At
  <2> QED
    BY <1>1, <1>3, <2>1 DEF Place, Located, Handshake, Opening, Sending, Shaking
<1>4. CASE h = "client" /\ Connect
  <2>1. app'[h].pc = "wait" /\ app'[h].round = app[h].round /\ state'[h] = "SYN_SENT"
        /\ rx' = rx /\ wait_conn' = wait_conn /\ app[h].pc = "connect"
    BY <1>0, <1>2, <1>4 DEF Connect, At
  <2> QED
    BY <1>1, <1>4, <2>1 DEF Place, Located, Handshake, Opening, Sending, Shaking
<1>5. CASE h = "server" /\ AcceptTest
  <2>1. app'[h].pc = (IF Queued THEN "read" ELSE "wait") /\ app'[h].round = app[h].round /\ state' = state
        /\ rx' = rx /\ wait_conn' = wait_conn /\ app[h].pc = "accept"
    BY <1>0, <1>2, <1>5 DEF AcceptTest, At, Opened, sock
  <2> QED
    BY <1>1, <1>5, <2>1 DEF Place, Located, Handshake, Opening, Sending, Shaking, Queued
<1>6. CASE OpenSleep(h)
  <2>1. PICK w \in WaitStruct({h}) : w = sleep_on(wait_conn[h], h)
    BY <1>0, WaitTypes
  <2>2. w.dead = wait_conn[h].dead /\ w.signaled = wait_conn[h].signaled /\ (w.notified => wait_conn[h].notified)
        /\ (~ wait_conn[h].dead /\ ~ wait_conn[h].notified => h \in w.waiting)
    BY <1>0, <2>1, WaitTypes
  <2>3. wait_conn'[h] = w /\ state' = state /\ rx' = rx /\ app[h].pc = "wait"
    BY <1>0, <1>6, <2>1 DEF OpenSleep, At, sock
  <2>4. app'[h].pc = (IF h \in w.waiting THEN "waiting" ELSE Opened(h)) /\ app'[h].round = app[h].round
    BY <1>2, <1>6, <2>1 DEF OpenSleep, Opened
  <2> QED
    BY <1>1, <2>2, <2>3, <2>4, TwoHosts DEF Place, Located, Handshake, Opening, Sending, Shaking, Opened
<1>7. CASE OpenReturn(h)
  <2>1. PICK w \in WaitStruct({h}) : w = resume(wait_conn[h], h)
    BY <1>0, WaitTypes
  <2>2. w.dead = wait_conn[h].dead /\ w.signaled \subseteq wait_conn[h].signaled /\ ~ w.notified
    BY <1>0, <2>1, WaitTypes
  <2>3. wait_conn'[h] = w /\ state' = state /\ rx' = rx /\ app[h].pc = "waiting" /\ wait_conn[h].signaled # {}
    BY <1>0, <1>7, <2>1 DEF OpenReturn, At, sock, CanResume
  <2>4. app'[h].pc = Opened(h) /\ app'[h].round = app[h].round
    BY <1>2, <1>7, <2>1 DEF OpenReturn, Opened
  <2> QED
    BY <1>1, <2>2, <2>3, <2>4, TwoHosts DEF Place, Located, Handshake, Opening, Sending, Shaking, Opened
<1>8. CASE CheckWindow(h)
  <2>1. app'[h].pc \in {"sleep", "compare"} /\ app'[h].round = app[h].round /\ app'[h].wlen = app[h].wlen /\ app'[h].buf = app[h].buf
        /\ app[h].wlen < Len(app[h].buf) /\ app[h].pc = "check" /\ UNCHANGED <<state, rx, wait_conn>>
    BY <1>2, <1>8 DEF CheckWindow, At, sock
  <2> QED
    BY <1>1, <2>1 DEF Place, Located, Handshake, Opening, Sending
<1>9. CASE SleepOn(h) \/ CondWaitReturn(h) \/ CompareWindow(h) \/ TakeWindow(h) \/ LoadWindow(h)
  <2>1. app'[h].pc \in Sending /\ app'[h].round = app[h].round /\ app'[h].wlen = app[h].wlen /\ app'[h].buf = app[h].buf
    <3>1. CASE SleepOn(h)
      BY <1>2, <3>1 DEF SleepOn, Sending
    <3>2. CASE CondWaitReturn(h)
      BY <1>2, <3>2 DEF CondWaitReturn, Sending
    <3>3. CASE CompareWindow(h)
      BY <1>0, <1>1, <1>2, <3>3 DEF CompareWindow, Sending, Thread
    <3>4. CASE TakeWindow(h)
      BY <1>0, <1>1, <3>4 DEF TakeWindow, Sending, Thread
    <3>5. CASE LoadWindow(h)
      BY <1>0, <1>1, <3>5 DEF LoadWindow, Sending, Thread
    <3> QED
      BY <1>9, <3>1, <3>2, <3>3, <3>4, <3>5
  <2>2. app[h].pc \in Sending /\ UNCHANGED <<state, rx, wait_conn>>
    BY <1>9 DEF SleepOn, CondWaitReturn, CompareWindow, TakeWindow, LoadWindow, At, sock, Sending
  <2> QED
    BY <1>1, <2>1, <2>2 DEF Place, Located, Handshake, Opening, Sending
<1>10. CASE StoreWindow(h) \/ WriteReturns(h)
  <2>1. app'[h].pc \in {"check", "read"} /\ app'[h].round = app[h].round
    <3>1. CASE StoreWindow(h)
      BY <1>0, <1>1, <3>1 DEF StoreWindow, Thread
    <3>2. CASE WriteReturns(h)
      BY <1>2, <3>2 DEF WriteReturns
    <3> QED
      BY <1>10, <3>1, <3>2
  <2>2. app[h].pc \in {"store", "check"} /\ UNCHANGED <<state, rx, wait_conn>>
    BY <1>10 DEF StoreWindow, WriteReturns, At, sock
  <2> QED
    BY <1>1, <2>1, <2>2 DEF Place, Located, Handshake, Opening, Sending
<1>11. CASE ReadStep(h)
  <2>0. app[h].round \in 1 .. load.writes
    BY DEF Place, Located
  <2>1. NextRound(app[h]).round \in 1 .. load.writes /\ NextRound(app[h]).pc \in {"check", "close"}
    BY <1>0, <1>1, <2>0, NextRoundTypes
  <2>2. /\ app'[h].pc \in {"settle", "get", "check", "close", "window"} /\ (h = "server" => app'[h].pc # "close")
        /\ app'[h].round \in 1 .. load.writes
    <3>1. CASE ReadNothing(h)
      BY <1>0, <2>1, <3>1 DEF ReadNothing
    <3>4. CASE ReadAsk(h) \/ ReadSettle(h)
      BY <1>0, <1>1, <2>0, <3>4 DEF ReadAsk, ReadSettle, Goto, Thread
    <3>2. CASE ReadGet(h)
      BY <1>0, <1>1, <2>0, <3>2 DEF ReadGet, Thread
    <3>3. CASE UpdateRcvWindow(h)
      <4>1. app'[h] = IF h = "server" THEN [app[h] EXCEPT !.pc = "check"] ELSE NextRound(app[h])
        BY <1>0, <3>3 DEF UpdateRcvWindow
      <4>2. [app[h] EXCEPT !.pc = "check"].pc = "check" /\ [app[h] EXCEPT !.pc = "check"].round = app[h].round
        BY <1>1 DEF Thread
      <4> QED
        BY <2>0, <2>1, <4>1, <4>2
    <3> QED
      BY <1>11, <3>1, <3>2, <3>3, <3>4 DEF ReadStep
  <2>3. app[h].pc \in {"read", "settle", "get", "window"} /\ UNCHANGED <<state, rx, wait_conn>>
    BY <1>11 DEF ReadStep, ReadNothing, ReadAsk, ReadSettle, ReadGet, UpdateRcvWindow, At, sock
  <2> QED
    BY <1>1, <2>2, <2>3, TwoHosts DEF Place, Located, Handshake, Opening, Sending
<1>12. CASE Close(h)
  <2>1. app'[h].pc = "fin" /\ app'[h].round = app[h].round /\ app[h].pc = "close"
        /\ state'[h] = "FIN_WAIT_1" /\ UNCHANGED <<rx, wait_conn>>
    BY <1>0, <1>2, <1>12 DEF Close, At
  <2> QED
    BY <1>1, <2>1, TwoHosts DEF Place, Located, Handshake, Opening, Sending, Shaking
<1>13. CASE SendFin(h)
  <2>1. app'[h].pc = "done" /\ app'[h].round = app[h].round /\ app[h].pc = "fin" /\ UNCHANGED <<state, rx, wait_conn>>
    BY <1>2, <1>13 DEF SendFin, At, sock
  <2> QED
    BY <1>1, <2>1, TwoHosts DEF Place, Located, Handshake, Opening, Sending, Shaking
<1> QED
  BY <1>3, <1>4, <1>5, <1>6, <1>7, <1>8, <1>9, <1>10, <1>11, <1>12, <1>13 DEF AppStep, OpenStep, SendStep, CloseStep

\* The steps of the packet threads.
LEMMA PlaceRx ==
  ASSUME TypeOK, NEW h \in Hosts, Place(h), Handshake(h), RxStep(h)
  PROVE  Located(h)' /\ Handshake(h)'
<1>0. /\ DOMAIN state = Hosts /\ DOMAIN wait_conn = Hosts /\ DOMAIN rx = Hosts
      /\ wait_conn[h] \in WaitStruct({h})
  BY DEF TypeOK
<1>1. load' = load
  BY LoadStays
<1>2. DOMAIN rx[h] = {"pc", "rwnd", "old"}
  BY DEF TypeOK
<1>3. CASE ReceiveSyn(h)
  <2>1. state[h] = "LISTEN" /\ state'[h] = "SYN_RECV" /\ UNCHANGED <<app, wait_conn, rx>>
    BY <1>0, <1>3 DEF ReceiveSyn
  <2> QED
    BY <1>1, <2>1, TwoHosts DEF Place, Located, Handshake, Opening, Sending, Shaking
<1>4. CASE ReceiveSynAck(h) \/ ReceiveAck(h)
  <2>1. state[h] \in {"SYN_SENT", "SYN_RECV"} /\ UNCHANGED <<app, wait_conn, state>> /\ rx'[h].pc = "old" /\ rx[h].pc = "idle"
    BY <1>0, <1>2, <1>4 DEF ReceiveSynAck, ReceiveAck, Arriving, sock
  <2> QED
    BY <1>1, <2>1 DEF Place, Located, Handshake, Opening, Sending, Shaking
<1>5. CASE Establish(h)
  <2>1. state'[h] = "ESTABLISHED" /\ UNCHANGED <<app, wait_conn>> /\ rx'[h].pc = "opened" /\ rx[h].pc = "establish"
    BY <1>0, <1>2, <1>5 DEF Establish
  <2> QED
    BY <1>1, <2>1 DEF Place, Located, Handshake, Opening, Sending, Shaking
<1>6. CASE WakeOpened(h)
  <2>1. PICK w \in wake_up(wait_conn[h]) : wait_conn' = [wait_conn EXCEPT ![h] = w]
    BY <1>6 DEF WakeOpened
  <2>2. w.dead = wait_conn[h].dead
    BY <1>0, WaitTypes
  <2>3. UNCHANGED <<app, state>> /\ rx'[h].pc = "idle" /\ rx[h].pc = "opened" /\ wait_conn'[h] = w
    BY <1>0, <1>2, <1>6, <2>1 DEF WakeOpened, sock
  <2> QED
    BY <1>1, <2>2, <2>3 DEF Place, Located, Handshake, Opening, Sending, Shaking
<1>7. CASE ReceiveData(h)
  <2>1. UNCHANGED <<app, state, wait_conn>> /\ rx'[h].pc = "old" /\ rx[h].pc = "idle" /\ state[h] = "ESTABLISHED"
    BY <1>0, <1>2, <1>7 DEF ReceiveData, Arriving
  <2> QED
    BY <1>1, <2>1 DEF Place, Located, Handshake, Opening, Sending, Shaking
<1>8. CASE AssertFails(h) \/ ReceiveInFinWait2(h)
  <2>1. UNCHANGED <<app, state, wait_conn, rx>>
    BY <1>8 DEF AssertFails, ReceiveInFinWait2, sock
  <2> QED
    BY <1>1, <2>1 DEF Place, Located, Handshake
<1>9. CASE ReadOldWindow(h) \/ SetWindow(h) \/ WakeSender(h)
  <2>1. UNCHANGED <<app, state, wait_conn>> /\ rx[h].pc \in {"old", "new", "wake"}
        /\ (rx'[h].pc \in {"new", "wake"} \/ rx'[h].pc = AfterUpdate(h))
    BY <1>0, <1>2, <1>9 DEF ReadOldWindow, SetWindow, WakeSender, sock
  <2> QED
    BY <1>1, <2>1 DEF Place, Located, Handshake, Opening, Sending, Shaking, AfterUpdate
<1>10. CASE ReceiveFin(h) \/ ReceiveInFinWait1(h)
  <2>1. UNCHANGED <<app, wait_conn, rx>> /\ rx[h].pc = "idle"
        /\ \/ state[h] = "ESTABLISHED" /\ state'[h] = "CLOSE_WAIT"
           \/ state[h] = "FIN_WAIT_1" /\ state'[h] = "FIN_WAIT_2"
    BY <1>0, <1>10 DEF ReceiveFin, ReceiveInFinWait1, Arriving
  <2> QED
    BY <1>1, <2>1, TwoHosts DEF Place, Located, Handshake, Opening, Sending, Shaking
<1> QED
  BY <1>3, <1>4, <1>5, <1>6, <1>7, <1>8, <1>9, <1>10 DEF RxStep

\* Only something is something with more after it.
LEMMA Nonempty ==
  ASSUME NEW D, NEW a \in Seq(D), NEW b \in Seq(D)
  PROVE  /\ a # <<>> => a \o b # <<>>
         /\ b # <<>> => a \o b # <<>>
         /\ Len(a \o b) = Len(a) + Len(b) /\ Len(a) \in Nat /\ Len(b) \in Nat /\ Len(a \o b) \in Nat
<1>1. Len(a) \in Nat /\ Len(b) \in Nat /\ a \o b \in Seq(D) /\ Len(a \o b) = Len(a) + Len(b)
  OBVIOUS
<1>2. a # <<>> => a \o b # <<>>
  BY <1>1, EmptySeq
<1>3. b # <<>> => a \o b # <<>>
  BY <1>1, EmptySeq
<1> QED
  BY <1>1, <1>2, <1>3

\* What tcp_sock_read has found stays in the buffer until it takes it.
LEMMA AskedMine ==
  ASSUME TypeOK, NEW h \in Hosts, Place(h), AppStep(h) \/ RxStep(h)
  PROVE  Asked(h)'
<1>0. /\ app \in [Hosts -> Thread] /\ app[h] \in Thread /\ DOMAIN app = Hosts /\ DOMAIN rcv_buf = Hosts
      /\ rcv_buf[h] \in Seq(Byte) /\ load \in Workloads /\ app[h].round \in 1 .. load.writes
      /\ net[h] \in Seq(Packet) /\ MaxU16 \in Nat
  BY U16 DEF TypeOK, Place, Located
<1>1. ASSUME NEW pc \in {"connect", "listen", "accept", "wait", "waiting", "check", "sleep", "asleep", "compare",
                         "take", "load", "store", "read", "window", "close", "fin", "done"}, Goto(h, pc)
      PROVE  Asked(h)'
  <2>1. app'[h].pc = pc
    BY <1>0, <1>1, Moves
  <2> QED
    BY <2>1 DEF Asked
<1>2. CASE OpenStep(h)
  <2>1. PICK pc \in {"accept", "wait", "waiting", "check", "read"} : Goto(h, pc)
    BY <1>2 DEF OpenStep, Connect, Listen, AcceptTest, OpenSleep, OpenReturn, Opened
  <2> QED
    BY <1>1, <2>1
<1>3. CASE CheckWindow(h) \/ SleepOn(h) \/ CondWaitReturn(h) \/ WriteReturns(h) \/ CloseStep(h)
  <2>1. PICK pc \in {"sleep", "asleep", "compare", "read", "fin", "done"} : Goto(h, pc)
    BY <1>3 DEF CheckWindow, SleepOn, CondWaitReturn, WriteReturns, CloseStep, Close, SendFin
  <2> QED
    BY <1>1, <2>1
<1>4. CASE CompareWindow(h) \/ TakeWindow(h) \/ LoadWindow(h) \/ StoreWindow(h)
  <2>1. CASE Goto(h, "take")
    BY <1>1, <2>1
  <2>2. CASE ~ Goto(h, "take")
    <3>1. app'[h].pc \in {"load", "store", "check"}
      BY <1>0, <1>4, <2>2 DEF CompareWindow, TakeWindow, LoadWindow, StoreWindow, Thread
    <3> QED
      BY <3>1 DEF Asked
  <2> QED
    BY <2>1, <2>2
<1>5. CASE ReadNothing(h) \/ UpdateRcvWindow(h)
  <2>1. NextRound(app[h]).pc \in {"check", "close"}
    BY <1>0, NextRoundTypes
  <2>2. [app[h] EXCEPT !.pc = "check"].pc = "check"
    BY <1>0 DEF Thread
  <2>3. app'[h] \in {NextRound(app[h]), [app[h] EXCEPT !.pc = "check"]}
    BY <1>0, <1>5 DEF ReadNothing, UpdateRcvWindow
  <2>4. app'[h].pc \in {"check", "close"}
    BY <2>1, <2>2, <2>3
  <2> QED
    BY <2>4 DEF Asked
<1>6. CASE ReadAsk(h)
  <2>1. rcv_buf' = rcv_buf /\ rcv_buf[h] # <<>>
    BY <1>6 DEF ReadAsk, sock
  <2>2. CASE Goto(h, "settle")
    <3>1. app'[h].pc = "settle"
      BY <1>0, <2>2, Moves
    <3> QED
      BY <2>1, <3>1 DEF Asked
  <2>3. CASE ~ Goto(h, "settle")
    <3>1. PICK l \in Nat : l = Len(rcv_buf[h])
      BY <1>0
    <3>2. PICK m \in Nat \ {0} : m = ReadMax(h)
      <4>1. load.readMax \in Nat \ {0}
        BY <1>0, LoadTypes
      <4> QED
        BY <4>1 DEF ReadMax
    <3>3. m \in 1 .. l /\ app' = [app EXCEPT ![h].seg = m, ![h].pc = "get"]
      BY <1>6, <2>3, <3>1, <3>2 DEF ReadAsk
    <3>4. app'[h].pc = "get" /\ app'[h].seg = m
      BY <1>0, <3>3 DEF Thread
    <3> QED
      BY <2>1, <3>1, <3>3, <3>4 DEF Asked
  <2> QED
    BY <2>2, <2>3
<1>7. CASE ReadSettle(h)
  <2>1. /\ rcv_buf' = rcv_buf /\ rcv_buf[h] # <<>>
        /\ app' = [app EXCEPT ![h].seg = Len(rcv_buf[h]), ![h].pc = "get"]
    BY <1>7 DEF ReadSettle, At, sock, Place, Asked
  <2>2. PICK l \in Nat : l = Len(rcv_buf[h]) /\ l \in 1 .. l
    <3>1. Len(rcv_buf[h]) \in Nat \ {0}
      BY <1>0, <2>1, EmptySeq
    <3> QED
      BY <3>1
  <2>3. app'[h].pc = "get" /\ app'[h].seg = l
    BY <1>0, <2>1, <2>2 DEF Thread
  <2> QED
    BY <2>1, <2>2, <2>3 DEF Asked
<1>8. CASE ReadGet(h)
  <2>1. app'[h].pc = "window"
    BY <1>0, <1>8 DEF ReadGet, Thread
  <2> QED
    BY <2>1 DEF Asked
<1>9. CASE RxStep(h)
  <2>1. app' = app
    BY <1>9, Zenon DEF RxStep, ReceiveSyn, ReceiveSynAck, ReceiveAck, Establish, WakeOpened, ReceiveData, AssertFails,
                ReadOldWindow, SetWindow, WakeSender, ReceiveFin, ReceiveInFinWait1, ReceiveInFinWait2
  <2>2. CASE ReceiveData(h)
    <3>1. Arriving(h) /\ rcv_buf' = [rcv_buf EXCEPT ![h] = @ \o Head(net[h]).data]
      BY <2>2 DEF ReceiveData
    <3>2. PICK d \in Seq(Byte) : d = Head(net[h]).data
      <4>1. PICK n : n = net[h]
        OBVIOUS
      <4>2. n \in Seq(Packet) /\ n # <<>>
        BY <1>0, <3>1, <4>1 DEF Arriving
      <4>3. Head(n) \in Packet
        BY <4>2
      <4>4. Head(n).data \in Seq(Byte)
        BY <4>3 DEF Packet
      <4> QED
        BY <4>1, <4>4
    <3>3. PICK b \in Seq(Byte) : b = rcv_buf[h]
      BY <1>0
    <3>4. rcv_buf'[h] = b \o d /\ Len(b \o d) = Len(b) + Len(d) /\ b \o d \in Seq(Byte)
      BY <1>0, <3>1, <3>2, <3>3, ConcatProperties
    <3>5. PICK m \in Nat, l \in Nat : m = Len(b) /\ l = Len(d) /\ Len(rcv_buf'[h]) = m + l
      BY <3>4
    <3>6. b # <<>> => rcv_buf'[h] # <<>>
      BY <3>4, Nonempty
    <3> QED
      BY <2>1, <3>3, <3>5, <3>6 DEF Place, Asked
  <2>3. CASE ~ ReceiveData(h)
    <3>1. rcv_buf' = rcv_buf
      BY <1>9, <2>3, Zenon DEF RxStep, ReceiveSyn, ReceiveSynAck, ReceiveAck, Establish, WakeOpened, AssertFails,
                  ReadOldWindow, SetWindow, WakeSender, ReceiveFin, ReceiveInFinWait1, ReceiveInFinWait2, sock
    <3> QED
      BY <2>1, <3>1 DEF Place, Asked
  <2> QED
    BY <2>2, <2>3
<1> QED
  BY <1>2, <1>3, <1>4, <1>5, <1>6, <1>7, <1>8, <1>9 DEF AppStep, SendStep, ReadStep

\* All of it.
LEMMA PlaceStep ==
  ASSUME TypeOK, \A k \in Hosts : Place(k) /\ Handshake(k), NEW h \in Hosts, AppStep(h) \/ RxStep(h), NEW k \in Hosts
  PROVE  Place(k)' /\ Handshake(k)'
<1>1. CASE k = h
  BY <1>1, PlaceApp, PlaceRx, AskedMine DEF Place
<1>2. CASE k # h
  <2>1. app'[k] = app[k] /\ state'[k] = state[k] /\ rx'[k] = rx[k] /\ wait_conn'[k] = wait_conn[k] /\ load' = load
        /\ rcv_buf'[k] = rcv_buf[k]
    BY <1>2, OnlyMine, LoadStays
  <2>2. Place(k) /\ Handshake(k)
    OBVIOUS
  <2> QED
    BY <2>1, <2>2 DEF Place, Located, Asked, Handshake
<1> QED
  BY <1>1, <1>2

-----------------------------------------------------------------------------
(* The bytes between the applications.                                      *)

\* The data of a queue of packets.
Flight(q) == FlattenSeq([i \in DOMAIN q |-> q[i].data])

\* What sending and taking a packet do to it.
LEMMA Flights ==
  ASSUME NEW q \in Seq(Packet), NEW p \in Packet
  PROVE  /\ Flight(q) \in Seq(Byte) /\ p.data \in Seq(Byte)
         /\ Flight(Append(q, p)) = Flight(q) \o p.data
         /\ q = <<>> => Flight(q) = <<>>
         /\ q # <<>> => /\ Head(q).data \in Seq(Byte) /\ Flight(Tail(q)) \in Seq(Byte)
                        /\ Flight(q) = Head(q).data \o Flight(Tail(q))
<1> DEFINE D(s) == [i \in DOMAIN s |-> s[i].data]
<1>1. ASSUME NEW s \in Seq(Packet) PROVE D(s) \in Seq(Seq(Byte)) /\ Len(D(s)) = Len(s)
  <2>1. \A i \in 1 .. Len(s) : s[i].data \in Seq(Byte)
    <3>1. \A i \in 1 .. Len(s) : s[i] \in Packet
      OBVIOUS
    <3>2. \A m \in Packet : m.data \in Seq(Byte)
      BY DEF Packet
    <3> QED
      BY <3>1, <3>2
  <2>2. D(s) \in [1 .. Len(s) -> Seq(Byte)]
    BY <2>1
  <2>3. Len(s) \in Nat
    OBVIOUS
  <2> HIDE DEF D
  <2> QED
    BY <2>2, <2>3, SMTT(30)
<1>2. p.data \in Seq(Byte)
  BY DEF Packet
<1>3. Append(q, p) \in Seq(Packet) /\ D(Append(q, p)) = Append(D(q), p.data)
  <2>1. Append(q, p) \in Seq(Packet) /\ Len(Append(q, p)) = Len(q) + 1
    OBVIOUS
  <2>2. D(Append(q, p)) \in Seq(Seq(Byte)) /\ Len(D(Append(q, p))) = Len(q) + 1
    BY <1>1, <2>1
  <2>3. D(q) \in Seq(Seq(Byte)) /\ Len(D(q)) = Len(q)
    BY <1>1
  <2>4. Append(D(q), p.data) \in Seq(Seq(Byte)) /\ Len(Append(D(q), p.data)) = Len(q) + 1
    <3> HIDE DEF D
    <3> QED
      BY <1>2, <2>3
  <2>5. \A i \in 1 .. Len(q) + 1 : D(Append(q, p))[i] = Append(D(q), p.data)[i]
    <3> TAKE i \in 1 .. Len(q) + 1
    <3>1. D(Append(q, p))[i] = Append(q, p)[i].data
      BY <2>1
    <3>2. CASE i = Len(q) + 1
      <4>1. Append(q, p)[i] = p
        BY <3>2
      <4>2. Append(D(q), p.data)[i] = p.data
        <5> HIDE DEF D
        <5> QED
          BY <1>2, <2>3, <3>2
      <4> QED
        BY <3>1, <4>1, <4>2
    <3>3. CASE i \in 1 .. Len(q)
      <4>1. Append(q, p)[i] = q[i]
        BY <3>3
      <4>2. D(q)[i] = q[i].data
        BY <3>3
      <4>3. Append(D(q), p.data)[i] = D(q)[i]
        <5> HIDE DEF D
        <5> QED
          BY <1>2, <2>3, <3>3
      <4> QED
        BY <3>1, <4>1, <4>2, <4>3
    <3> QED
      BY <3>2, <3>3
  <2> HIDE DEF D
  <2> QED
    BY <2>1, <2>2, <2>4, <2>5, SeqEqual
<1>4. ASSUME q # <<>>
      PROVE  Tail(q) \in Seq(Packet) /\ Head(D(q)) = Head(q).data /\ Tail(D(q)) = D(Tail(q)) /\ D(q) # <<>>
             /\ Head(q).data \in Seq(Byte)
  <2>1. Tail(q) \in Seq(Packet) /\ Len(Tail(q)) = Len(q) - 1 /\ \A i \in 1 .. Len(Tail(q)) : Tail(q)[i] = q[i + 1]
    BY <1>4, HeadTailProperties
  <2>2. D(q) \in Seq(Seq(Byte)) /\ Len(D(q)) = Len(q) /\ Len(q) \in Nat \ {0}
    BY <1>1, <1>4, EmptySeq
  <2>3. D(q) # <<>>
    <3> HIDE DEF D
    <3> QED
      BY <2>2
  <2>4. Tail(D(q)) \in Seq(Seq(Byte)) /\ Len(Tail(D(q))) = Len(q) - 1
        /\ \A i \in 1 .. Len(Tail(D(q))) : Tail(D(q))[i] = D(q)[i + 1]
    <3> HIDE DEF D
    <3> QED
      BY <2>2, <2>3, HeadTailProperties
  <2>5. D(Tail(q)) \in Seq(Seq(Byte)) /\ Len(D(Tail(q))) = Len(q) - 1
    BY <1>1, <2>1
  <2>6. \A i \in 1 .. Len(q) - 1 : Tail(D(q))[i] = D(Tail(q))[i]
    <3> TAKE i \in 1 .. Len(q) - 1
    <3>1. i + 1 \in 1 .. Len(q)
      BY <2>2
    <3>2. D(q)[i + 1] = q[i + 1].data /\ D(Tail(q))[i] = Tail(q)[i].data
      BY <2>1, <3>1
    <3> QED
      BY <2>1, <2>4, <3>2
  <2>7. Tail(D(q)) = D(Tail(q))
    <3> HIDE DEF D
    <3> QED
      BY <2>4, <2>5, <2>6, SeqEqual
  <2>8. Head(D(q)) = Head(q).data
    <3>1. 1 \in 1 .. Len(q)
      BY <2>2
    <3>2. D(q)[1] = q[1].data
      BY <3>1
    <3> HIDE DEF D
    <3> QED
      BY <2>2, <3>2
  <2>9. Head(q).data \in Seq(Byte)
    <3>1. Head(q) \in Packet
      BY <1>4
    <3> QED
      BY <3>1 DEF Packet
  <2> QED
    BY <2>1, <2>3, <2>7, <2>8, <2>9
<1>5. \A s : Flight(s) = FlattenSeq(D(s))
  BY DEF Flight
<1>6. D(q) \in Seq(Seq(Byte)) /\ (q # <<>> => D(Tail(q)) \in Seq(Seq(Byte)))
  BY <1>1, <1>4
<1>7. q = <<>> => D(q) = <<>>
  OBVIOUS
<1> HIDE DEF D
<1>8. Flight(q) \in Seq(Byte) /\ (q # <<>> => Flight(Tail(q)) \in Seq(Byte))
  BY <1>5, <1>6, FlattenType
<1>9. Flight(Append(q, p)) = Flight(q) \o p.data
  BY <1>2, <1>3, <1>5, <1>6, FlattenAppend
<1>10. q # <<>> => Flight(q) = Head(q).data \o Flight(Tail(q))
  BY <1>4, <1>5, <1>6, FlattenHead
<1>11. q = <<>> => Flight(q) = <<>>
  BY <1>5, <1>7, FlattenEmpty
<1> QED
  BY <1>2, <1>4, <1>8, <1>9, <1>10, <1>11

\* What a prefix is.
LEMMA Prefixed ==
  ASSUME NEW D, NEW x \in Seq(D), NEW y \in Seq(D)
  PROVE  IsPrefix(x, y) <=> Len(x) <= Len(y) /\ \A i \in 1 .. Len(x) : x[i] = y[i]
<1>1. ASSUME Len(x) <= Len(y), \A i \in 1 .. Len(x) : x[i] = y[i]
      PROVE  IsPrefix(x, y)
  <2>1. Len(x) \in Nat /\ Len(y) \in Nat /\ \A i \in 1 .. Len(x) : x[i] \in D /\ y[i] \in D
    BY <1>1
  <2>2. SubSeq(x, 1, Len(x)) \in Seq(D) /\ SubSeq(y, 1, Len(x)) \in Seq(D)
        /\ Len(SubSeq(x, 1, Len(x))) = Len(x) /\ Len(SubSeq(y, 1, Len(x))) = Len(x)
    BY <2>1
  <2>3. \A i \in 1 .. Len(x) : SubSeq(x, 1, Len(x))[i] = x[i] /\ SubSeq(y, 1, Len(x))[i] = y[i]
    BY <2>1
  <2>4. SubSeq(x, 1, Len(x)) = SubSeq(y, 1, Len(x))
    BY <1>1, <2>2, <2>3, SeqEqual
  <2> QED
    BY <1>1, <2>4 DEF IsPrefix
<1>2. ASSUME IsPrefix(x, y)
      PROVE  Len(x) <= Len(y) /\ \A i \in 1 .. Len(x) : x[i] = y[i]
  <2>1. Len(x) <= Len(y) /\ SubSeq(x, 1, Len(x)) = SubSeq(y, 1, Len(x))
    BY <1>2 DEF IsPrefix
  <2>2. Len(x) \in Nat /\ Len(y) \in Nat
    OBVIOUS
  <2>3. \A i \in 1 .. Len(x) : SubSeq(x, 1, Len(x))[i] = x[i] /\ SubSeq(y, 1, Len(x))[i] = y[i]
    BY <2>1, <2>2
  <2> QED
    BY <2>1, <2>3
<1> QED
  BY <1>1, <1>2

\* A sequence is a prefix of itself with more after it, and stays one of what grows.
LEMMA PrefixGrows ==
  ASSUME NEW D, NEW a \in Seq(D), NEW b \in Seq(D), NEW c \in Seq(D)
  PROVE  IsPrefix(a, a \o b) /\ (IsPrefix(a, b) => IsPrefix(a, b \o c))
<1>1. \A x, y \in Seq(D) : /\ x \o y \in Seq(D) /\ Len(x \o y) = Len(x) + Len(y)
                           /\ \A i \in 1 .. Len(x) : (x \o y)[i] = x[i]
  OBVIOUS
<1>2. Len(a) \in Nat /\ Len(b) \in Nat /\ Len(c) \in Nat
  OBVIOUS
<1>3. IsPrefix(a, a \o b)
  <2>1. Len(a) <= Len(a \o b)
    BY <1>1, <1>2
  <2> QED
    BY <1>1, <2>1, Prefixed
<1>4. ASSUME IsPrefix(a, b) PROVE IsPrefix(a, b \o c)
  <2>1. Len(a) <= Len(b) /\ \A i \in 1 .. Len(a) : a[i] = b[i]
    BY <1>4, Prefixed
  <2>2. Len(a) <= Len(b \o c)
    BY <1>1, <1>2, <2>1
  <2>3. \A i \in 1 .. Len(a) : a[i] = (b \o c)[i]
    BY <1>1, <1>2, <2>1
  <2> QED
    BY <1>1, <2>2, <2>3, Prefixed
<1> QED
  BY <1>3, <1>4

\* What a step of h puts on its way to the other host is what it adds to what it has sent.
LEMMA Outgoing ==
  ASSUME TypeOK, NEW h \in Hosts, AppStep(h) \/ RxStep(h)
  PROVE  \/ net'[Other(h)] = net[Other(h)] /\ sent'[h] = sent[h]
         \/ \E p \in Packet : /\ net'[Other(h)] = Append(net[Other(h)], p) /\ sent'[h] = sent[h] \o p.data
                              /\ p.data = <<>> \/ (p.flags = {"PSH", "ACK"} /\ app[h].pc = "store")
                              /\ p.rwnd = rcv_wnd[h]
                              /\ "PSH" \in p.flags => app[h].pc = "store" /\ Len(p.data) = app[h].seg
<1>0. /\ net \in [Hosts -> Seq(Packet)] /\ sent \in [Hosts -> Seq(Byte)] /\ rcv_wnd \in [Hosts -> 0 .. MaxU16]
      /\ app \in [Hosts -> Thread] /\ load \in Workloads
  BY DEF TypeOK
<1>1. Other(h) \in Hosts /\ Other(h) # h /\ sent[h] \in Seq(Byte) /\ rcv_wnd[h] \in 0 .. MaxU16 /\ app[h] \in Thread
  BY <1>0, TwoHosts
<1>2. sent[h] \o <<>> = sent[h]
  BY <1>1, ConcatEmptySeq
<1>3. ASSUME NEW flags \in SUBSET {"SYN", "PSH", "ACK", "FIN"}, "PSH" \notin flags,
             net'[Other(h)] = Append(net[Other(h)], Control(h, flags)), sent' = sent
      PROVE  \E p \in Packet : /\ net'[Other(h)] = Append(net[Other(h)], p) /\ sent'[h] = sent[h] \o p.data
                               /\ p.data = <<>> \/ (p.flags = {"PSH", "ACK"} /\ app[h].pc = "store")
                               /\ p.rwnd = rcv_wnd[h]
                               /\ "PSH" \in p.flags => app[h].pc = "store" /\ Len(p.data) = app[h].seg
  <2>1. PICK p \in Packet : p = Control(h, flags) /\ p.data = <<>> /\ p.flags = flags /\ p.rwnd = rcv_wnd[h]
    BY ControlTypes
  <2> QED
    BY <1>2, <1>3, <2>1
<1>4. ASSUME Arriving(h)
      PROVE  /\ Taken(h)[Other(h)] = net[Other(h)]
             /\ \A flags : Answered(h, flags)[Other(h)] = Append(net[Other(h)], Control(h, flags))
  <2>1. Taken(h) \in [Hosts -> Seq(Packet)] /\ Taken(h)[Other(h)] = net[Other(h)]
    BY <1>0, <1>4, Takes DEF Arriving
  <2> QED
    BY <1>1, <2>1 DEF Answered
<1>5. CASE OpenStep(h)
  <2>1. CASE h = "client" /\ Connect
    <3>1. net'[Other(h)] = Append(net[Other(h)], Control(h, {"SYN"})) /\ sent' = sent
      BY <1>0, <1>1, <2>1 DEF Connect, Send
    <3> QED
      BY <1>3, <3>1
  <2>2. CASE Listen \/ AcceptTest \/ OpenSleep(h) \/ OpenReturn(h)
    BY <2>2 DEF Listen, AcceptTest, OpenSleep, OpenReturn
  <2> QED
    BY <1>5, <2>1, <2>2 DEF OpenStep
<1>6. CASE SendStep(h)
  <2>1. CASE StoreWindow(h)
    <3>1. app[h].buf \in Seq(Byte) /\ app[h].wlen \in Nat /\ app[h].seg \in Nat
      BY <1>1, U16 DEF Thread
    <3>2. PICK data \in Seq(Byte) : data = Payload(app[h].buf, app[h].wlen, app[h].seg) /\ Len(data) = app[h].seg
      BY <1>0, <3>1, PayloadTypes
    <3>3. PICK p \in Packet : p = [flags |-> {"PSH", "ACK"}, rwnd |-> rcv_wnd[h], data |-> data]
      BY <1>1 DEF Packet
    <3>4. p.flags = {"PSH", "ACK"} /\ p.data = data /\ p.rwnd = rcv_wnd[h]
      BY <3>3
    <3>5. net'[Other(h)] = Append(net[Other(h)], p)
      BY <1>0, <1>1, <2>1, <3>2, <3>3 DEF StoreWindow, Send
    <3>6. sent'[h] = sent[h] \o p.data
      BY <1>0, <2>1, <3>2, <3>4 DEF StoreWindow
    <3>7. app[h].pc = "store"
      BY <2>1 DEF StoreWindow, At
    <3> QED
      BY <3>2, <3>4, <3>5, <3>6, <3>7
  <2>2. CASE ~ StoreWindow(h)
    BY <1>6, <2>2 DEF SendStep, CheckWindow, SleepOn, CondWaitReturn, CompareWindow, TakeWindow, LoadWindow, WriteReturns
  <2> QED
    BY <2>1, <2>2
<1>7. CASE ReadStep(h) \/ Close(h)
  BY <1>7 DEF ReadStep, ReadNothing, ReadAsk, ReadSettle, ReadGet, UpdateRcvWindow, Close
<1>8. CASE SendFin(h)
  <2>1. net'[Other(h)] = Append(net[Other(h)], Control(h, {"FIN", "ACK"})) /\ sent' = sent
    BY <1>0, <1>1, <1>8 DEF SendFin, Send
  <2> QED
    BY <1>3, <2>1
<1>9. CASE RxStep(h)
  <2>1. CASE ReceiveSyn(h)
    <3>1. net'[Other(h)] = Append(net[Other(h)], Control(h, {"SYN", "ACK"})) /\ sent' = sent
      BY <1>4, <2>1 DEF ReceiveSyn
    <3> QED
      BY <1>3, <3>1
  <2>2. CASE ReceiveSynAck(h) \/ ReceiveFin(h)
    <3>1. net'[Other(h)] = Append(net[Other(h)], Control(h, {"ACK"})) /\ sent' = sent
      BY <1>4, <2>2 DEF ReceiveSynAck, ReceiveFin
    <3> QED
      BY <1>3, <3>1
  <2>3. CASE ReceiveAck(h) \/ ReceiveData(h) \/ AssertFails(h) \/ ReceiveInFinWait1(h) \/ ReceiveInFinWait2(h)
    BY <1>4, <2>3 DEF ReceiveAck, ReceiveData, AssertFails, ReceiveInFinWait1, ReceiveInFinWait2
  <2>4. CASE Establish(h) \/ WakeOpened(h) \/ ReadOldWindow(h) \/ SetWindow(h) \/ WakeSender(h)
    BY <2>4, Zenon DEF Establish, WakeOpened, ReadOldWindow, SetWindow, WakeSender
  <2> QED
    BY <1>9, <2>1, <2>2, <2>3, <2>4 DEF RxStep
<1> QED
  BY <1>5, <1>6, <1>7, <1>8, <1>9 DEF AppStep, CloseStep

\* What an application takes from its buffer it has got.
LEMMA ReadKeeps ==
  ASSUME NEW D, NEW g \in Seq(D), NEW b \in Seq(D), NEW n \in 1 .. Len(b)
  PROVE  (g \o SubSeq(b, 1, n)) \o Rest(b, n) = g \o b
<1>1. \A i \in 1 .. Len(b) : b[i] \in D
  OBVIOUS
<1>2. Len(b) \in Nat
  OBVIOUS
<1>3. SubSeq(b, 1, n) \in Seq(D)
  BY <1>1, <1>2, SubSeqProperties
<1>4. SubSeq(b, n + 1, Len(b)) \in Seq(D)
  BY <1>1, <1>2, SubSeqProperties
<1>5. SubSeq(b, 1, n) \o SubSeq(b, n + 1, Len(b)) = SubSeq(b, 1, Len(b))
  <2>1. 1 \in 1 .. Len(b) + 1 /\ n \in 1 - 1 .. Len(b) /\ Len(b) \in n .. Len(b)
    BY <1>2
  <2> QED
    BY <2>1, ConcatAdjacentSubSeq
<1>6. SubSeq(b, 1, Len(b)) = b
  BY SubSeqFull
<1>7. PICK x \in Seq(D), z \in Seq(D) : x = SubSeq(b, 1, n) /\ z = SubSeq(b, n + 1, Len(b))
  BY <1>3, <1>4
<1>8. (g \o x) \o z = g \o (x \o z)
  BY ConcatAssociative, SMTT(60)
<1> QED
  BY <1>5, <1>6, <1>7, <1>8, Zenon DEF Rest

\* What a step of h takes from the packets on their way to it is in its buffer,
\* unless it is not to have it any more.
LEMMA Incoming ==
  ASSUME TypeOK, FirstPackets, Speaks, NEW h \in Hosts, Place(h), AppStep(h) \/ RxStep(h)
  PROVE  \/ net'[h] = net[h] /\ got'[h] \o rcv_buf'[h] = got[h] \o rcv_buf[h]
         \/ /\ net[h] # <<>> /\ net'[h] = Tail(net[h])
            /\ \/ /\ got'[h] \o rcv_buf'[h] = (got[h] \o rcv_buf[h]) \o Head(net[h]).data
                  /\ state[h] \notin {"FIN_WAIT_1", "FIN_WAIT_2"}
               \/ /\ got'[h] \o rcv_buf'[h] = got[h] \o rcv_buf[h]
                  /\ ~ up'[h] \/ state'[h] \in {"FIN_WAIT_1", "FIN_WAIT_2"}
<1>0. /\ net \in [Hosts -> Seq(Packet)] /\ got \in [Hosts -> Seq(Byte)] /\ rcv_buf \in [Hosts -> Seq(Byte)]
      /\ DOMAIN up = Hosts /\ DOMAIN state = Hosts /\ load \in Workloads
  BY DEF TypeOK
<1>1. Other(h) \in Hosts /\ Other(h) # h /\ rcv_buf[h] \in Seq(Byte) /\ got[h] \in Seq(Byte)
  BY <1>0, TwoHosts
<1>2. got[h] \o rcv_buf[h] \in Seq(Byte)
  BY <1>1, ConcatProperties
<1>3. (got[h] \o rcv_buf[h]) \o <<>> = got[h] \o rcv_buf[h]
  BY <1>2, ConcatEmptySeq
<1>4. ASSUME NEW flags, Send(h, Control(h, flags)), flags \in SUBSET {"SYN", "PSH", "ACK", "FIN"} PROVE net'[h] = net[h]
  <2>1. net' = [net EXCEPT ![Other(h)] = Append(@, Control(h, flags))]
    BY <1>4 DEF Send
  <2> QED
    BY <1>0, <1>1, <2>1
<1>5. ASSUME Arriving(h)
      PROVE  /\ net[h] # <<>> /\ Taken(h)[h] = Tail(net[h]) /\ \A flags : Answered(h, flags)[h] = Tail(net[h])
             /\ net[h] \in Seq(Packet) /\ Head(net[h]) = net[h][1] /\ 1 \in DOMAIN net[h]
  <2>1. Taken(h) \in [Hosts -> Seq(Packet)] /\ Taken(h)[h] = Tail(net[h]) /\ net[h] # <<>>
    BY <1>0, <1>5, Takes DEF Arriving
  <2>2. \A flags : Answered(h, flags)[h] = Tail(net[h])
    BY <1>1, <2>1 DEF Answered
  <2>3. net[h] \in Seq(Packet)
    BY <1>0
  <2>4. Head(net[h]) = net[h][1] /\ 1 \in DOMAIN net[h]
    BY <2>1, <2>3, EmptySeq
  <2> QED
    BY <2>1, <2>2, <2>3, <2>4
<1>6. CASE OpenStep(h)
  <2>1. got' = got /\ rcv_buf' = rcv_buf
    BY <1>6 DEF OpenStep, Connect, Listen, AcceptTest, OpenSleep, OpenReturn, sock
  <2>2. CASE h = "client" /\ Connect
    <3>1. Send(h, Control(h, {"SYN"}))
      BY <2>2 DEF Connect
    <3> QED
      BY <1>4, <2>1, <3>1
  <2>3. CASE Listen \/ AcceptTest \/ OpenSleep(h) \/ OpenReturn(h)
    BY <2>1, <2>3 DEF Listen, AcceptTest, OpenSleep, OpenReturn
  <2> QED
    BY <1>6, <2>2, <2>3 DEF OpenStep
<1>7. CASE SendStep(h)
  <2>1. got' = got /\ rcv_buf' = rcv_buf
    BY <1>7 DEF SendStep, CheckWindow, SleepOn, CondWaitReturn, CompareWindow, TakeWindow, LoadWindow,
                StoreWindow, WriteReturns, sock
  <2>2. CASE StoreWindow(h)
    <3>1. net'[h] = net[h]
      BY <1>0, <1>1, <2>2 DEF StoreWindow, Send
    <3> QED
      BY <2>1, <3>1
  <2>3. CASE ~ StoreWindow(h)
    BY <1>7, <2>1, <2>3 DEF SendStep, CheckWindow, SleepOn, CondWaitReturn, CompareWindow, TakeWindow, LoadWindow, WriteReturns
  <2> QED
    BY <2>2, <2>3
<1>8. CASE ReadGet(h)
  <2>1. PICK n \in 1 .. Len(rcv_buf[h]) : n = app[h].seg
    BY <1>8 DEF ReadGet, At, Place, Asked
  <2>2. /\ got'[h] = got[h] \o SubSeq(rcv_buf[h], 1, n) /\ rcv_buf'[h] = Rest(rcv_buf[h], n)
        /\ net' = net
    BY <1>0, <1>8, <2>1 DEF ReadGet
  <2>3. (got[h] \o SubSeq(rcv_buf[h], 1, n)) \o Rest(rcv_buf[h], n) = got[h] \o rcv_buf[h]
    BY <1>1, ReadKeeps
  <2> QED
    BY <2>2, <2>3
<1>9. CASE ReadNothing(h) \/ ReadAsk(h) \/ ReadSettle(h) \/ UpdateRcvWindow(h) \/ Close(h)
  BY <1>9 DEF ReadNothing, ReadAsk, ReadSettle, UpdateRcvWindow, Close, sock
<1>10. CASE SendFin(h)
  <2>1. Send(h, Control(h, {"FIN", "ACK"})) /\ got' = got /\ rcv_buf' = rcv_buf
    BY <1>10 DEF SendFin, sock
  <2> QED
    BY <1>4, <2>1
<1>11. CASE RxStep(h)
  <2>0. got' = got
    BY <1>11, Zenon DEF RxStep, ReceiveSyn, ReceiveSynAck, ReceiveAck, Establish, WakeOpened, ReceiveData, AssertFails,
                 ReadOldWindow, SetWindow, WakeSender, ReceiveFin, ReceiveInFinWait1, ReceiveInFinWait2
  <2>1. CASE ReceiveSyn(h)
    <3>1. Arriving(h) /\ state[h] = "LISTEN" /\ rcv_buf' = rcv_buf /\ net'[h] = Tail(net[h])
      BY <1>5, <2>1 DEF ReceiveSyn
    <3>2. h = "server" /\ sent["client"] = <<>>
      BY <3>1, TwoHosts DEF Place, Located, FirstPackets, Speaks, Unanswered
    <3>3. Head(net[h]).data = <<>>
      BY <1>5, <3>1, <3>2, TwoHosts DEF Speaks
    <3> QED
      BY <1>3, <1>5, <2>0, <3>1, <3>3
  <2>2. CASE ReceiveSynAck(h)
    <3>1. Arriving(h) /\ state[h] = "SYN_SENT" /\ Head(net[h]).flags = {"SYN", "ACK"} /\ rcv_buf' = rcv_buf /\ net'[h] = Tail(net[h])
      BY <1>5, <2>2 DEF ReceiveSynAck, sock
    <3>2. Head(net[h]).data = <<>>
      <4>1. {"SYN", "ACK"} # {"PSH", "ACK"}
        OBVIOUS
      <4>2. Head(net[h]).data # <<>> => Head(net[h]).flags = {"PSH", "ACK"}
        BY <1>5, <3>1 DEF Speaks
      <4> QED
        BY <3>1, <4>1, <4>2
    <3> QED
      BY <1>3, <1>5, <2>0, <3>1, <3>2
  <2>3. CASE ReceiveAck(h)
    <3>1. Arriving(h) /\ state[h] = "SYN_RECV" /\ rcv_buf' = rcv_buf /\ net'[h] = Tail(net[h]) /\ rx[h].pc = "idle"
      BY <1>5, <2>3 DEF ReceiveAck, sock, Arriving
    <3>2. h = "server" /\ Head(net[h]).data = <<>>
      BY <1>5, <3>1, TwoHosts DEF Place, Located, FirstPackets
    <3> QED
      BY <1>3, <1>5, <2>0, <3>1, <3>2
  <2>4. CASE ReceiveFin(h)
    <3>1. Arriving(h) /\ state[h] = "ESTABLISHED" /\ "FIN" \in Head(net[h]).flags /\ rcv_buf' = rcv_buf /\ net'[h] = Tail(net[h])
      BY <1>5, <2>4 DEF ReceiveFin
    <3>2. Head(net[h]).data = <<>>
      BY <1>5, <3>1 DEF Speaks
    <3> QED
      BY <1>3, <1>5, <2>0, <3>1, <3>2
  <2>5. CASE ReceiveData(h)
    <3>1. Arriving(h) /\ state[h] = "ESTABLISHED" /\ rcv_buf'[h] = rcv_buf[h] \o Head(net[h]).data /\ net'[h] = Tail(net[h])
      BY <1>0, <1>5, <2>5 DEF ReceiveData
    <3>2. Head(net[h]).data \in Seq(Byte)
      BY <1>5, <3>1, Flights
    <3>3. \A x, y, z \in Seq(Byte) : (x \o y) \o z = x \o (y \o z)
      BY ConcatAssociative, SMTT(60)
    <3>4. got[h] \o (rcv_buf[h] \o Head(net[h]).data) = (got[h] \o rcv_buf[h]) \o Head(net[h]).data
      BY <1>1, <3>2, <3>3
    <3> QED
      BY <1>5, <2>0, <3>1, <3>4
  <2>6. CASE AssertFails(h)
    <3>1. Arriving(h) /\ rcv_buf' = rcv_buf /\ net'[h] = Tail(net[h]) /\ ~ up'[h]
      BY <1>0, <1>5, <2>6 DEF AssertFails, sock
    <3> QED
      BY <1>5, <2>0, <3>1
  <2>7. CASE ReceiveInFinWait1(h) \/ ReceiveInFinWait2(h)
    <3>1. Arriving(h) /\ rcv_buf' = rcv_buf /\ net'[h] = Tail(net[h]) /\ state'[h] \in {"FIN_WAIT_1", "FIN_WAIT_2"}
      BY <1>0, <1>5, <2>7 DEF ReceiveInFinWait1, ReceiveInFinWait2, sock
    <3> QED
      BY <1>5, <2>0, <3>1
  <2>8. CASE Establish(h) \/ WakeOpened(h) \/ ReadOldWindow(h) \/ SetWindow(h) \/ WakeSender(h)
    BY <2>0, <2>8, Zenon DEF Establish, WakeOpened, ReadOldWindow, SetWindow, WakeSender, sock
  <2> QED
    BY <1>11, <2>1, <2>2, <2>3, <2>4, <2>5, <2>6, <2>7, <2>8, Zenon DEF RxStep
<1> QED
  BY <1>6, <1>7, <1>8, <1>9, <1>10, <1>11 DEF AppStep, ReadStep, CloseStep

\* A process that has ended stays so, and a client that has closed does not take data again.
LEMMA Forward ==
  ASSUME TypeOK, NEW h \in Hosts, Handshake(h), AppStep(h) \/ RxStep(h)
  PROVE  /\ up'[h] => up[h]
         /\ state[h] \in {"FIN_WAIT_1", "FIN_WAIT_2"} => state'[h] \in {"FIN_WAIT_1", "FIN_WAIT_2"}
<1>0. DOMAIN up = Hosts /\ DOMAIN state = Hosts
  BY DEF TypeOK
<1>1. CASE AppStep(h)
  <2>1. up' = up
    BY <1>1, Zenon DEF AppStep, OpenStep, Connect, Listen, AcceptTest, OpenSleep, OpenReturn, SendStep, CheckWindow, SleepOn,
                CondWaitReturn, CompareWindow, TakeWindow, LoadWindow, StoreWindow, WriteReturns, ReadStep, CloseStep,
                ReadNothing, ReadAsk, ReadSettle, ReadGet, UpdateRcvWindow, Close, SendFin
  <2>2. CASE h = "client" /\ Connect
    BY <1>0, <2>1, <2>2 DEF Connect, At, Handshake
  <2>3. CASE h = "server" /\ Listen
    BY <1>0, <2>1, <2>3 DEF Listen, At, Handshake
  <2>4. CASE Close(h)
    BY <1>0, <2>1, <2>4 DEF Close
  <2>5. CASE ~ (h = "client" /\ Connect) /\ ~ (h = "server" /\ Listen) /\ ~ Close(h)
    <3>1. state' = state
      BY <1>1, <2>5, Zenon DEF AppStep, OpenStep, AcceptTest, OpenSleep, OpenReturn, SendStep, CheckWindow, SleepOn,
                CondWaitReturn, CompareWindow, TakeWindow, LoadWindow, StoreWindow, WriteReturns, ReadStep, CloseStep,
                ReadNothing, ReadAsk, ReadSettle, ReadGet, UpdateRcvWindow, SendFin, sock
    <3> QED
      BY <2>1, <3>1
  <2> QED
    BY <2>2, <2>3, <2>4, <2>5
<1>2. CASE RxStep(h)
  <2>1. CASE AssertFails(h)
    BY <1>0, <2>1 DEF AssertFails, sock
  <2>2. CASE Establish(h)
    BY <1>0, <2>2 DEF Establish, Handshake
  <2>3. CASE ReceiveSyn(h) \/ ReceiveFin(h) \/ ReceiveInFinWait1(h)
    BY <1>0, <2>3 DEF ReceiveSyn, ReceiveFin, ReceiveInFinWait1
  <2>4. CASE ReceiveSynAck(h) \/ ReceiveAck(h) \/ WakeOpened(h) \/ ReceiveData(h) \/ ReadOldWindow(h) \/ SetWindow(h)
             \/ WakeSender(h) \/ ReceiveInFinWait2(h)
    BY <2>4 DEF ReceiveSynAck, ReceiveAck, WakeOpened, ReceiveData, ReadOldWindow, SetWindow, WakeSender,
                ReceiveInFinWait2, sock
  <2> QED
    BY <1>2, <2>1, <2>2, <2>3, <2>4 DEF RxStep
<1> QED
  BY <1>1, <1>2

\* The stream to h is intact after a step of h ...
LEMMA StreamMine ==
  ASSUME TypeOK, FirstPackets, Speaks, NEW h \in Hosts, Place(h), Handshake(h), Stream(h), AppStep(h) \/ RxStep(h)
  PROVE  Stream(h)'
<1> DEFINE FW == {"FIN_WAIT_1", "FIN_WAIT_2"}
<1>0. /\ net[h] \in Seq(Packet) /\ got[h] \in Seq(Byte) /\ rcv_buf[h] \in Seq(Byte)
      /\ sent[Other(h)] \in Seq(Byte) /\ sent'[Other(h)] = sent[Other(h)]
  <2>1. Other(h) \in Hosts /\ Other(h) # h
    BY TwoHosts
  <2>2. sent'[Other(h)] = sent[Other(h)]
    BY <2>1, OnlyMine
  <2> QED
    BY <2>1, <2>2 DEF TypeOK
<1>1. (up'[h] => up[h]) /\ (state[h] \in FW => state'[h] \in FW)
  BY Forward
<1> SUFFICES ASSUME up'[h]
             PROVE  IF state'[h] \notin FW THEN (got'[h] \o rcv_buf'[h]) \o Flight(net'[h]) = sent[Other(h)]
                    ELSE IsPrefix(got'[h] \o rcv_buf'[h], sent[Other(h)])
  BY <1>0 DEF Stream, InFlight, Flight
<1>2. PICK held \in Seq(Byte) : held = got[h] \o rcv_buf[h]
  BY <1>0, ConcatProperties
<1>3. /\ state[h] \notin FW => held \o Flight(net[h]) = sent[Other(h)]
      /\ state[h] \in FW => IsPrefix(held, sent[Other(h)])
  BY <1>1, <1>2 DEF Stream, InFlight, Flight
<1>4. Flight(net[h]) \in Seq(Byte)
        /\ (net[h] # <<>> => /\ Head(net[h]).data \in Seq(Byte) /\ Flight(Tail(net[h])) \in Seq(Byte)
                             /\ Flight(net[h]) = Head(net[h]).data \o Flight(Tail(net[h])))
  <2>1. Control(h, {}) \in Packet
    BY ControlTypes
  <2> QED
    BY <1>0, <2>1, Flights
<1>5. IsPrefix(held, sent[Other(h)])
  BY <1>0, <1>3, <1>4, PrefixGrows
<1>6. CASE net'[h] = net[h] /\ got'[h] \o rcv_buf'[h] = held
  BY <1>1, <1>3, <1>5, <1>6
<1>7. CASE net[h] # <<>> /\ net'[h] = Tail(net[h]) /\ got'[h] \o rcv_buf'[h] = held \o Head(net[h]).data
           /\ state[h] \notin FW
  <2>1. PICK d \in Seq(Byte), f \in Seq(Byte) : d = Head(net[h]).data /\ f = Flight(Tail(net[h]))
    BY <1>4, <1>7
  <2>2. (held \o d) \o f = held \o (d \o f)
    BY ConcatAssociative, SMTT(60)
  <2>3. (held \o d) \o f = sent[Other(h)]
    BY <1>3, <1>4, <1>7, <2>1, <2>2
  <2>4. held \o d \in Seq(Byte)
    BY ConcatProperties
  <2>5. IsPrefix(held \o d, sent[Other(h)])
    BY <2>3, <2>4, PrefixGrows
  <2> QED
    BY <1>7, <2>1, <2>3, <2>5
<1>8. CASE got'[h] \o rcv_buf'[h] = held /\ (~ up'[h] \/ state'[h] \in FW)
  BY <1>5, <1>8
<1> QED
  BY <1>2, <1>6, <1>7, <1>8, Incoming

\* ... and after one of the other host.
LEMMA StreamOther ==
  ASSUME TypeOK, NEW h \in Hosts, Stream(Other(h)), AppStep(h) \/ RxStep(h)
  PROVE  Stream(Other(h))'
<1>0. PICK k \in Hosts : k = Other(h) /\ k # h /\ Other(k) = h
  BY TwoHosts
<1>1. /\ net[k] \in Seq(Packet) /\ got[k] \in Seq(Byte) /\ rcv_buf[k] \in Seq(Byte) /\ sent[h] \in Seq(Byte)
  BY DEF TypeOK
<1>2. got'[k] = got[k] /\ rcv_buf'[k] = rcv_buf[k] /\ state'[k] = state[k] /\ up'[k] = up[k]
  BY <1>0, OnlyMine
<1>3. PICK held \in Seq(Byte) : held = got[k] \o rcv_buf[k]
  BY <1>1, ConcatProperties
<1>4. up[k] => IF state[k] \notin {"FIN_WAIT_1", "FIN_WAIT_2"} THEN held \o Flight(net[k]) = sent[h]
               ELSE IsPrefix(held, sent[h])
  BY <1>0, <1>3 DEF Stream, InFlight, Flight
<1>5. \/ net'[k] = net[k] /\ sent'[h] = sent[h]
      \/ \E p \in Packet : net'[k] = Append(net[k], p) /\ sent'[h] = sent[h] \o p.data
  BY <1>0, Outgoing
<1>6. up[k] => IF state[k] \notin {"FIN_WAIT_1", "FIN_WAIT_2"} THEN held \o Flight(net'[k]) = sent'[h]
               ELSE IsPrefix(held, sent'[h])
  <2>1. CASE net'[k] = net[k] /\ sent'[h] = sent[h]
    BY <1>4, <2>1
  <2>2. ASSUME NEW p \in Packet, net'[k] = Append(net[k], p), sent'[h] = sent[h] \o p.data
        PROVE  up[k] => IF state[k] \notin {"FIN_WAIT_1", "FIN_WAIT_2"} THEN held \o Flight(net'[k]) = sent'[h]
                        ELSE IsPrefix(held, sent'[h])
    <3>1. Flight(net[k]) \in Seq(Byte) /\ p.data \in Seq(Byte) /\ Flight(net'[k]) = Flight(net[k]) \o p.data
      BY <1>1, <2>2, Flights
    <3>2. PICK d \in Seq(Byte), f \in Seq(Byte) : d = p.data /\ f = Flight(net[k])
      BY <3>1
    <3>3. (held \o f) \o d = held \o (f \o d)
      BY ConcatAssociative, SMTT(60)
    <3>4. IsPrefix(held, sent[h]) => IsPrefix(held, sent[h] \o d)
      BY <1>1, PrefixGrows
    <3> QED
      BY <1>4, <2>2, <3>1, <3>2, <3>3, <3>4
  <2> QED
    BY <1>5, <2>1, <2>2
<1> QED
  BY <1>0, <1>2, <1>3, <1>6 DEF Stream, InFlight, Flight

\* What is in a buffer has been sent.
LEMMA BufferSent ==
  ASSUME TypeOK, NEW h \in Hosts, Stream(h), up[h], rcv_buf[h] # <<>>
  PROVE  sent[Other(h)] # <<>>
<1>1. /\ net[h] \in Seq(Packet) /\ got[h] \in Seq(Byte) /\ rcv_buf[h] \in Seq(Byte) /\ sent[Other(h)] \in Seq(Byte)
  BY TwoHosts DEF TypeOK
<1>2. PICK g \in Seq(Byte), b \in Seq(Byte) : g = got[h] /\ b = rcv_buf[h] /\ b # <<>>
  BY <1>1
<1>3. PICK held \in Seq(Byte) : held = got[h] \o rcv_buf[h] /\ Len(held) \in Nat \ {0}
  <2>1. g \o b \in Seq(Byte) /\ Len(g \o b) = Len(g) + Len(b)
    BY ConcatProperties
  <2>2. Len(b) \in Nat \ {0} /\ Len(g) \in Nat
    BY <1>2, EmptySeq
  <2>3. Len(g \o b) \in Nat \ {0}
    BY <2>1, <2>2
  <2> QED
    BY <1>2, <2>1, <2>3
<1>4. Flight(net[h]) \in Seq(Byte)
  <2>1. Control(h, {}) \in Packet
    BY ControlTypes
  <2> QED
    BY <1>1, <2>1, Flights
<1>5. IsPrefix(held, sent[Other(h)])
  <2>1. IF state[h] \notin {"FIN_WAIT_1", "FIN_WAIT_2"} THEN held \o Flight(net[h]) = sent[Other(h)]
        ELSE IsPrefix(held, sent[Other(h)])
    BY <1>3 DEF Stream, InFlight, Flight
  <2>2. IsPrefix(held, held \o Flight(net[h]))
    BY <1>4, PrefixGrows
  <2> QED
    BY <2>1, <2>2
<1>6. Len(held) <= Len(sent[Other(h)])
  BY <1>1, <1>5, Prefixed
<1>7. Len(sent[Other(h)]) # 0
  <2>1. PICK x \in Nat : x = Len(sent[Other(h)])
    BY <1>1
  <2>2. PICK y \in Nat \ {0} : y = Len(held)
    BY <1>3
  <2>3. y <= x
    BY <1>6, <2>1, <2>2
  <2>4. x # 0
    BY <2>3
  <2> QED
    BY <2>1, <2>4
<1> QED
  BY <1>7, EmptySeq

\* The packets on their way to a host after a step, one by one.
LEMMA PacketsAfter ==
  ASSUME NEW q \in Seq(Packet), NEW p \in Packet
  PROVE  /\ \A i \in DOMAIN Append(q, p) : Append(q, p)[i] = p \/ (i \in DOMAIN q /\ Append(q, p)[i] = q[i])
         /\ q # <<>> => \A i \in DOMAIN Tail(q) : i + 1 \in DOMAIN q /\ Tail(q)[i] = q[i + 1]
<1>1. ASSUME NEW i \in DOMAIN Append(q, p) PROVE Append(q, p)[i] = p \/ (i \in DOMAIN q /\ Append(q, p)[i] = q[i])
  <2>1. Len(q) \in Nat /\ DOMAIN q = 1 .. Len(q) /\ DOMAIN Append(q, p) = 1 .. Len(q) + 1
    BY AppendProperties
  <2>2. CASE i = Len(q) + 1
    BY <2>2
  <2>3. CASE i \in 1 .. Len(q)
    BY <2>1, <2>3
  <2> QED
    BY <2>1, <2>2, <2>3
<1>2. ASSUME q # <<>>, NEW i \in DOMAIN Tail(q) PROVE i + 1 \in DOMAIN q /\ Tail(q)[i] = q[i + 1]
  <2>1. Tail(q) \in Seq(Packet) /\ Len(Tail(q)) = Len(q) - 1 /\ \A j \in 1 .. Len(Tail(q)) : Tail(q)[j] = q[j + 1]
    BY <1>2, HeadTailProperties
  <2>2. Len(q) \in Nat /\ i \in 1 .. Len(q) - 1
    BY <2>1
  <2>3. i + 1 \in 1 .. Len(q)
    BY <2>2
  <2> QED
    BY <2>1, <2>2, <2>3
<1> QED
  BY <1>1, <1>2

-----------------------------------------------------------------------------
(* The client speaks first.                                                 *)

\* No step of a host leads back into the handshake, and none to CLOSED; and
\* tcp_server sends only once it has read something.
LEMMA Backward ==
  ASSUME TypeOK, NEW h \in Hosts, Place(h), Handshake(h), AppStep(h) \/ RxStep(h)
  PROVE  /\ state'[h] \in Shaking => state[h] \in Shaking
         /\ state'[h] = "CLOSED" => state[h] = "CLOSED"
         /\ state'[h] = "LISTEN" => state[h] \in {"CLOSED", "LISTEN"}
         /\ state'[h] = "SYN_RECV" => state[h] = "SYN_RECV" \/ ReceiveSyn(h)
         /\ h = "server" /\ app'[h].pc \in Sending \cup {"window", "check"} =>
              app[h].pc \in Sending \cup {"window", "check"} \/ (up[h] /\ rcv_buf[h] # <<>>)
<1>0. DOMAIN state = Hosts /\ app \in [Hosts -> Thread] /\ app[h] \in Thread
  BY DEF TypeOK
<1>1. CASE AppStep(h)
  <2>1. CASE h = "client" /\ Connect
    BY <1>0, <2>1 DEF Connect, At, Handshake, Shaking
  <2>2. CASE h = "server" /\ Listen
    <3>1. app'[h].pc = "accept" /\ state[h] = "CLOSED" /\ state'[h] = "LISTEN"
      BY <1>0, <2>2, Moves DEF Listen, At, Handshake
    <3> QED
      BY <3>1 DEF Shaking, Sending
  <2>3. CASE OpenSleep(h) \/ OpenReturn(h) \/ (h = "server" /\ AcceptTest)
    <3>1. PICK pc \in {"waiting", "wait", "read", "check"} : Goto(h, pc) /\ (h = "server" => pc # "check") /\ state' = state
      BY <2>3 DEF OpenSleep, OpenReturn, AcceptTest, Opened, sock
    <3>2. app'[h].pc = pc
      BY <1>0, <3>1, Moves
    <3> QED
      BY <3>1, <3>2 DEF Sending
  <2>4. CASE Close(h)
    <3>1. h = "client"
      BY <2>4, TwoHosts DEF Close, At, Place, Located
    <3> QED
      BY <1>0, <2>4, <3>1 DEF Close, Shaking
  <2>5. CASE SendFin(h)
    <3>1. h = "client"
      BY <2>5, TwoHosts DEF SendFin, At, Place, Located
    <3> QED
      BY <2>5, <3>1 DEF SendFin, sock
  <2>6. CASE SendStep(h)
    <3>1. app[h].pc \in Sending \cup {"check"} /\ state' = state
      BY <2>6 DEF SendStep, CheckWindow, SleepOn, CondWaitReturn, CompareWindow, TakeWindow, LoadWindow,
                  StoreWindow, WriteReturns, Sending, At, sock
    <3> QED
      BY <3>1
  <2>7. CASE ReadStep(h)
    <3>0. app[h].pc = "get" => rcv_buf[h] # <<>>
      <4>1. <<>> \in Seq(Byte) /\ Len(<<>>) = 0
        OBVIOUS
      <4> QED
        BY <4>1 DEF Place, Asked
    <3>1. state' = state /\ (h = "server" => app[h].pc = "window" \/ (up[h] /\ rcv_buf[h] # <<>>))
      BY <2>7, <3>0 DEF Place, Asked, ReadStep, ReadNothing, ReadAsk, ReadSettle, ReadGet, UpdateRcvWindow, At, sock
    <3> QED
      BY <3>1
  <2> QED
    BY <1>1, <2>1, <2>2, <2>3, <2>4, <2>5, <2>6, <2>7 DEF AppStep, OpenStep, CloseStep
<1>2. CASE RxStep(h)
  <2>1. app' = app
    BY <1>2, Zenon DEF RxStep, ReceiveSyn, ReceiveSynAck, ReceiveAck, Establish, WakeOpened, ReceiveData, AssertFails,
                ReadOldWindow, SetWindow, WakeSender, ReceiveFin, ReceiveInFinWait1, ReceiveInFinWait2
  <2>2. CASE ReceiveSyn(h)
    BY <1>0, <2>1, <2>2 DEF ReceiveSyn, Shaking
  <2>3. CASE Establish(h) \/ ReceiveFin(h) \/ ReceiveInFinWait1(h)
    BY <1>0, <2>1, <2>3 DEF Establish, ReceiveFin, ReceiveInFinWait1, Shaking
  <2>4. CASE ReceiveSynAck(h) \/ ReceiveAck(h) \/ WakeOpened(h) \/ ReceiveData(h) \/ ReadOldWindow(h) \/ SetWindow(h)
             \/ WakeSender(h) \/ ReceiveInFinWait2(h) \/ AssertFails(h)
    BY <2>1, <2>4 DEF ReceiveSynAck, ReceiveAck, WakeOpened, ReceiveData, ReadOldWindow, SetWindow, WakeSender,
                ReceiveInFinWait2, AssertFails, sock
  <2> QED
    BY <1>2, <2>2, <2>3, <2>4 DEF RxStep
<1> QED
  BY <1>1, <1>2

\* Speaks, in every step of a host.
LEMMA SpeaksStep ==
  ASSUME TypeOK, FirstPackets, Speaks, \A k \in Hosts : Place(k) /\ Handshake(k) /\ Stream(k),
         NEW h \in Hosts, AppStep(h) \/ RxStep(h)
  PROVE  Speaks'
<1>0. /\ \A k \in Hosts : sent[k] \in Seq(Byte) /\ net[k] \in Seq(Packet)
      /\ "client" \in Hosts /\ "server" \in Hosts
  BY TwoHosts DEF TypeOK
<1>1. /\ \A k \in Hosts : k # h => /\ sent'[k] = sent[k] /\ state'[k] = state[k] /\ app'[k] = app[k]
      /\ Place(h) /\ Handshake(h)
  BY OnlyMine
<1>2. \/ net'[Other(h)] = net[Other(h)] /\ sent'[h] = sent[h]
      \/ \E p \in Packet : /\ net'[Other(h)] = Append(net[Other(h)], p) /\ sent'[h] = sent[h] \o p.data
                           /\ p.data = <<>> \/ (p.flags = {"PSH", "ACK"} /\ app[h].pc = "store")
  BY Outgoing
<1>3. /\ sent'[h] = <<>> => sent[h] = <<>>
      /\ sent'[h] = sent[h] \/ app[h].pc = "store"
  <2>1. ASSUME NEW p \in Packet, sent'[h] = sent[h] \o p.data, p.data = <<>> \/ app[h].pc = "store"
        PROVE  (sent'[h] = <<>> => sent[h] = <<>>) /\ (sent'[h] = sent[h] \/ app[h].pc = "store")
    <3>1. PICK d \in Seq(Byte), s \in Seq(Byte) : d = p.data /\ s = sent[h]
      BY <1>0 DEF Packet
    <3>2. s # <<>> => s \o d # <<>>
      BY Nonempty
    <3>3. s \o <<>> = s
      BY ConcatEmptySeq
    <3> QED
      BY <2>1, <3>1, <3>2, <3>3
  <2> QED
    BY <1>2, <2>1
<1>4. state'["client"] \in {"CLOSED", "SYN_SENT"} => sent'["client"] = <<>>
  <2>1. CASE h = "client"
    <3>1. state'[h] \in {"CLOSED", "SYN_SENT"} => state[h] \in {"CLOSED", "SYN_SENT"}
      BY <1>1, <2>1, Backward DEF Shaking, Place, Located
    <3>2. app[h].pc = "store" => state[h] \notin {"CLOSED", "SYN_SENT"}
      BY <1>1 DEF Handshake, Opening, Shaking
    <3> QED
      BY <1>3, <2>1, <3>1, <3>2 DEF Speaks
  <2>2. CASE h # "client"
    BY <1>0, <1>1, <2>2 DEF Speaks
  <2> QED
    BY <2>1, <2>2
<1>5. sent'["client"] = <<>> => sent'["server"] = <<>>
  <2>1. CASE h = "client"
    BY <1>0, <1>1, <1>3, <2>1 DEF Speaks
  <2>2. CASE h = "server"
    BY <1>0, <1>1, <1>3, <2>2 DEF Speaks, Sending
  <2> QED
    BY <2>1, <2>2, TwoHosts
<1>6. app'["server"].pc \in Sending \cup {"window", "check"} => sent'["client"] # <<>>
  <2>1. CASE h = "client"
    BY <1>0, <1>1, <1>3, <2>1 DEF Speaks
  <2>2. CASE h = "server"
    <3>1. app'[h].pc \in Sending \cup {"window", "check"} =>
            app[h].pc \in Sending \cup {"window", "check"} \/ (up[h] /\ rcv_buf[h] # <<>>)
      BY <1>1, <2>2, Backward
    <3>2. up[h] /\ rcv_buf[h] # <<>> => sent["client"] # <<>>
      BY <2>2, BufferSent, TwoHosts
    <3> QED
      BY <1>0, <1>1, <2>2, <3>1, <3>2 DEF Speaks
  <2> QED
    BY <2>1, <2>2, TwoHosts
<1>7. \A k \in Hosts : \A i \in DOMAIN net'[k] :
        net'[k][i].data # <<>> => sent'[Other(k)] # <<>> /\ net'[k][i].flags = {"PSH", "ACK"}
  <2>0. Control(h, {}) \in Packet
    BY ControlTypes
  <2>1. ASSUME NEW i \in DOMAIN net'[h], net'[h][i].data # <<>>
        PROVE  sent'[Other(h)] # <<>> /\ net'[h][i].flags = {"PSH", "ACK"}
    <3>1. net'[h] = net[h] \/ (net[h] # <<>> /\ net'[h] = Tail(net[h]))
      BY Incoming
    <3>2. \E j \in DOMAIN net[h] : net'[h][i] = net[h][j]
      <4>1. CASE net'[h] = net[h]
        BY <2>1, <4>1
      <4>2. CASE net[h] # <<>> /\ net'[h] = Tail(net[h])
        <5>1. \A j \in DOMAIN Tail(net[h]) : j + 1 \in DOMAIN net[h] /\ Tail(net[h])[j] = net[h][j + 1]
          BY <1>0, <2>0, <4>2, PacketsAfter
        <5> QED
          BY <2>1, <4>2, <5>1
      <4> QED
        BY <3>1, <4>1, <4>2
    <3>3. sent'[Other(h)] = sent[Other(h)]
      BY <1>1, TwoHosts
    <3> QED
      BY <2>1, <3>2, <3>3 DEF Speaks
  <2>2. ASSUME NEW k \in Hosts, k # h, NEW i \in DOMAIN net'[k], net'[k][i].data # <<>>
        PROVE  sent'[Other(k)] # <<>> /\ net'[k][i].flags = {"PSH", "ACK"}
    <3>1. k = Other(h) /\ Other(k) = h
      BY <2>2, TwoHosts
    <3>2. CASE \E j \in DOMAIN net[k] : net'[k][i] = net[k][j]
      BY <1>3, <2>2, <3>1, <3>2 DEF Speaks
    <3>3. CASE \E p \in Packet : net'[k] = Append(net[k], p) /\ net'[k][i] = p /\ sent'[h] = sent[h] \o p.data
                                 /\ p.flags = {"PSH", "ACK"}
      <4>1. PICK p \in Packet : net'[k][i] = p /\ sent'[h] = sent[h] \o p.data /\ p.flags = {"PSH", "ACK"}
        BY <3>3
      <4>2. PICK d \in Seq(Byte), s \in Seq(Byte) : d = p.data /\ s = sent[h]
        BY <1>0 DEF Packet
      <4>3. d # <<>> => s \o d # <<>>
        BY Nonempty
      <4> QED
        BY <2>2, <3>1, <4>1, <4>2, <4>3
    <3>4. CASE net'[k] = net[k]
      BY <2>2, <3>2, <3>4
    <3>5. ASSUME NEW p \in Packet, net'[k] = Append(net[k], p), sent'[h] = sent[h] \o p.data,
                 p.data = <<>> \/ p.flags = {"PSH", "ACK"}
          PROVE  sent'[Other(k)] # <<>> /\ net'[k][i].flags = {"PSH", "ACK"}
      <4>1. net'[k][i] = p \/ (i \in DOMAIN net[k] /\ net'[k][i] = net[k][i])
        BY <1>0, <2>2, <3>5, PacketsAfter
      <4> QED
        BY <2>2, <3>2, <3>3, <3>5, <4>1
    <3> QED
      BY <1>2, <3>1, <3>4, <3>5
  <2> QED
    BY <2>1, <2>2
<1> QED
  BY <1>4, <1>5, <1>6, <1>7 DEF Speaks, Other

-----------------------------------------------------------------------------
(* The handshake.                                                           *)

\* What a host can do before it has a connection.
LEMMA ShakingSteps ==
  ASSUME TypeOK, NEW h \in Hosts, Place(h), Handshake(h), state[h] \in Shaking, AppStep(h) \/ RxStep(h)
  PROVE  \/ h = "client" /\ Connect
         \/ ReceiveSyn(h) \/ ReceiveSynAck(h) \/ ReceiveAck(h)
         \/ /\ net' = net
            /\ \/ state'[h] = state[h]
               \/ h = "server" /\ state[h] = "CLOSED" /\ state'[h] = "LISTEN"
               \/ rx[h].pc = "establish"
            /\ rx[h].pc = "idle" => rx'[h].pc = "idle"
            /\ rx'[h].pc = "idle" => rx[h].pc = "idle"
<1>0. /\ DOMAIN state = Hosts /\ DOMAIN rx = Hosts /\ DOMAIN rx[h] = {"pc", "rwnd", "old"}
      /\ app[h].pc \in Opening
  BY DEF TypeOK, Handshake
<1>1. CASE OpenStep(h)
  <2>1. CASE h = "server" /\ Listen
    BY <1>0, <2>1 DEF Listen, At, Handshake
  <2>2. CASE AcceptTest \/ OpenSleep(h) \/ OpenReturn(h)
    BY <2>2 DEF AcceptTest, OpenSleep, OpenReturn, sock
  <2> QED
    BY <1>1, <2>1, <2>2 DEF OpenStep
<1>2. ~ SendStep(h)
  BY <1>0 DEF SendStep, CheckWindow, SleepOn, CondWaitReturn, CompareWindow, TakeWindow, LoadWindow,
              StoreWindow, WriteReturns, At, Opening
<1>3. ~ ReadStep(h) /\ ~ CloseStep(h)
  BY <1>0 DEF ReadStep, CloseStep, ReadNothing, ReadAsk, ReadSettle, ReadGet, UpdateRcvWindow, Close, SendFin, At, Opening
<1>4. CASE RxStep(h)
  <2>1. ~ ReceiveData(h) /\ ~ AssertFails(h) /\ ~ ReceiveFin(h) /\ ~ ReceiveInFinWait1(h) /\ ~ ReceiveInFinWait2(h)
    BY DEF ReceiveData, AssertFails, ReceiveFin, ReceiveInFinWait1, ReceiveInFinWait2, Shaking
  <2>2. ~ WakeOpened(h)
    BY DEF WakeOpened, Handshake
  <2>3. CASE Establish(h)
    BY <1>0, <2>3 DEF Establish
  <2>4. CASE ReadOldWindow(h) \/ SetWindow(h) \/ WakeSender(h)
    <3>1. rx[h].pc # "idle" /\ state[h] \in {"SYN_SENT", "SYN_RECV"} /\ net' = net /\ state' = state
      BY <2>4 DEF ReadOldWindow, SetWindow, WakeSender, sock, Handshake, Shaking
    <3>2. AfterUpdate(h) = "establish"
      BY <3>1 DEF AfterUpdate
    <3>3. rx'[h].pc \in {"new", "wake", "establish"}
      BY <1>0, <2>4, <3>2 DEF ReadOldWindow, SetWindow, WakeSender
    <3> QED
      BY <3>1, <3>3
  <2> QED
    BY <1>4, <2>1, <2>2, <2>3, <2>4 DEF RxStep
<1> QED
  BY <1>1, <1>2, <1>3, <1>4 DEF AppStep

\* FirstPackets, in every step of a host.
LEMMA FirstStep ==
  ASSUME TypeOK, FirstPackets, \A k \in Hosts : Place(k) /\ Handshake(k), NEW h \in Hosts, AppStep(h) \/ RxStep(h)
  PROVE  FirstPackets'
<1> DEFINE c == "client"
           s == "server"
<1>0. /\ \A k \in Hosts : net[k] \in Seq(Packet)
      /\ c \in Hosts /\ s \in Hosts /\ Other(c) = s /\ Other(s) = c
      /\ DOMAIN rx = Hosts /\ (\A k \in Hosts : DOMAIN rx[k] = {"pc", "rwnd", "old"}) /\ DOMAIN state = Hosts
      /\ net \in [Hosts -> Seq(Packet)]
  BY TwoHosts DEF TypeOK
<1>1. /\ \A k \in Hosts : k # h => state'[k] = state[k] /\ rx'[k] = rx[k]
      /\ Place(h) /\ Handshake(h)
  BY OnlyMine
<1>2. /\ state'[h] \in Shaking => state[h] \in Shaking
      /\ state'[h] = "CLOSED" => state[h] = "CLOSED"
      /\ state'[h] = "LISTEN" => state[h] \in {"CLOSED", "LISTEN"}
      /\ state'[h] = "SYN_RECV" => state[h] = "SYN_RECV" \/ ReceiveSyn(h)
  BY <1>1, Backward
<1>3. h = c \/ h = s
  BY TwoHosts
<1>4. state[c] \notin {"LISTEN", "SYN_RECV"} /\ state[s] # "SYN_SENT"
  BY <1>0, TwoHosts DEF Place, Located
<1>5. CASE h = c
  <2>0. state'[s] = state[s] /\ rx'[s] = rx[s]
    BY <1>0, <1>1, <1>5
  <2>1. CASE Connect
    <3>1. state[c] = "CLOSED" /\ state'[c] = "SYN_SENT" /\ rx' = rx
      BY <1>0, <1>1, <1>5, <2>1 DEF Connect, At, Handshake
    <3>2. net'[c] = net[c] /\ net'[s] = Append(net[s], Control(c, {"SYN"}))
      BY <1>0, <2>1 DEF Connect, Send
    <3>3. net[s] = <<>> => Len(net'[s]) <= 1
      BY <3>2
    <3> QED
      BY <2>0, <3>1, <3>2, <3>3 DEF FirstPackets, Unanswered
  <2>2. CASE ReceiveSynAck(c)
    <3>1. state[c] = "SYN_SENT" /\ state' = state /\ rx'[c].pc = "old" /\ net[c] # <<>> /\ rx[c].pc = "idle"
      BY <1>0, <2>2 DEF ReceiveSynAck, sock, Arriving
    <3>2. PICK p \in Packet : p = Control(c, {"ACK"}) /\ p.data = <<>>
      BY <1>0, ControlTypes
    <3>3. net'[s] = Append(net[s], p)
      <4>1. Taken(c) \in [Hosts -> Seq(Packet)] /\ Taken(c)[s] = net[s]
        BY <1>0, <3>1, Takes
      <4> QED
        BY <1>0, <2>2, <3>2, <4>1 DEF ReceiveSynAck, Answered
    <3>4. net[s] = <<>> => net'[s] # <<>> /\ Head(net'[s]).data = <<>>
      BY <3>2, <3>3
    <3> QED
      BY <2>0, <3>1, <3>4 DEF FirstPackets, Unanswered
  <2>3. CASE state[c] \in Shaking /\ ~ Connect /\ ~ ReceiveSynAck(c)
    <3>1. ~ ReceiveSyn(c) /\ ~ ReceiveAck(c)
      BY <1>4 DEF ReceiveSyn, ReceiveAck
    <3>2. /\ net' = net
          /\ state'[c] = state[c] \/ rx[c].pc = "establish"
          /\ rx[c].pc = "idle" => rx'[c].pc = "idle"
          /\ rx'[c].pc = "idle" => rx[c].pc = "idle"
      BY <1>1, <1>5, <2>3, <3>1, ShakingSteps
    <3>3. state'[c] \in {"CLOSED", "SYN_SENT"} => state[c] \in {"CLOSED", "SYN_SENT"}
      BY <1>2, <1>4, <1>5 DEF Shaking
    <3>4. state'[c] = "CLOSED" => state[c] = "CLOSED"
      BY <1>2, <1>5
    <3>5. Unanswered' <=> Unanswered
      <4>1. Unanswered => Unanswered'
        BY <3>2 DEF Unanswered
      <4>2. Unanswered' => Unanswered
        BY <3>2, <3>3 DEF Unanswered
      <4> QED
        BY <4>1, <4>2
    <3> QED
      BY <2>0, <3>2, <3>4, <3>5 DEF FirstPackets
  <2>4. CASE state[c] \notin Shaking
    <3>1. state'[c] \notin {"CLOSED", "SYN_SENT"} /\ ~ Unanswered /\ ~ Unanswered'
      BY <1>2, <1>5, <2>4 DEF Shaking, Unanswered
    <3>2. state[s] \notin {"CLOSED", "LISTEN"}
      BY <3>1 DEF FirstPackets
    <3>3. ASSUME net[s] # <<>>, Head(net[s]).data = <<>> PROVE net'[s] # <<>> /\ Head(net'[s]).data = <<>>
      <4>1. net'[s] = net[s] \/ \E p \in Packet : net'[s] = Append(net[s], p)
        <5>1. Other(h) = s
          BY <1>0, <1>5
        <5>2. net'[Other(h)] = net[Other(h)] \/ \E p \in Packet : net'[Other(h)] = Append(net[Other(h)], p)
          BY Outgoing, Zenon
        <5> QED
          BY <5>1, <5>2
      <4>2. ASSUME NEW p \in Packet PROVE Append(net[s], p) # <<>> /\ Head(Append(net[s], p)) = Head(net[s])
        <5>1. net[s] \in Seq(Packet) /\ Len(net[s]) \in Nat \ {0}
          BY <1>0, <3>3, EmptySeq
        <5> QED
          BY <5>1, AppendProperties
      <4> QED
        BY <3>3, <4>1, <4>2
    <3> QED
      BY <2>0, <3>1, <3>2, <3>3 DEF FirstPackets
  <2> QED
    BY <2>1, <2>2, <2>3, <2>4
<1>6. CASE h = s
  <2>0. state'[c] = state[c] /\ rx'[c] = rx[c] /\ (Unanswered' <=> Unanswered)
    BY <1>0, <1>1, <1>6 DEF Unanswered
  <2>1. CASE ReceiveSyn(s)
    <3>1. state[s] = "LISTEN" /\ state'[s] = "SYN_RECV" /\ net[s] # <<>>
      BY <1>0, <2>1 DEF ReceiveSyn, Arriving
    <3>2. net'[s] = Tail(net[s])
      <4>1. Taken(s) \in [Hosts -> Seq(Packet)] /\ Taken(s)[s] = Tail(net[s])
        BY <1>0, <3>1, Takes
      <4> QED
        BY <1>0, <2>1, <4>1 DEF ReceiveSyn, Answered
    <3>3. Unanswered /\ Len(net[s]) <= 1 /\ state[c] # "CLOSED"
      BY <3>1 DEF FirstPackets
    <3>4. Tail(net[s]) = <<>>
      <4>1. Len(net[s]) \in Nat \ {0} /\ Tail(net[s]) \in Seq(Packet) /\ Len(Tail(net[s])) = Len(net[s]) - 1
        BY <1>0, <3>1, HeadTailProperties, EmptySeq
      <4>2. Len(net[s]) = 1
        <5>1. PICK n \in Nat \ {0} : n = Len(net[s])
          BY <4>1
        <5>2. n <= 1
          BY <3>3, <5>1
        <5>3. n = 1
          BY <5>2
        <5> QED
          BY <5>1, <5>3
      <4>3. Len(Tail(net[s])) = 0
        BY <4>1, <4>2
      <4> QED
        BY <4>1, <4>3, EmptySeq
    <3> QED
      BY <2>0, <3>1, <3>2, <3>3, <3>4 DEF FirstPackets
  <2>2. CASE state[s] \in Shaking /\ ~ ReceiveSyn(s)
    <3>1. ~ ReceiveSynAck(s) /\ h # "client"
      BY <1>4, <1>6 DEF ReceiveSynAck
    <3>2. CASE ReceiveAck(s)
      <4>1. state[s] = "SYN_RECV" /\ state' = state /\ rx'[s].pc = "old"
        BY <1>0, <3>2 DEF ReceiveAck, sock
      <4> QED
        BY <2>0, <4>1 DEF FirstPackets
    <3>3. CASE ~ ReceiveAck(s)
      <4>1. /\ net' = net
            /\ \/ state'[s] = state[s]
               \/ state[s] = "CLOSED" /\ state'[s] = "LISTEN"
               \/ rx[s].pc = "establish"
            /\ rx'[s].pc = "idle" => rx[s].pc = "idle"
        BY <1>1, <1>6, <2>2, <3>1, <3>3, ShakingSteps
      <4>2. rx[s].pc = "establish" => state[s] = "SYN_RECV"
        BY <1>1, <1>4, <1>6 DEF Handshake
      <4>3. state'[s] = "SYN_RECV" => state[s] = "SYN_RECV"
        BY <1>2, <1>6, <2>2
      <4>4. state'[s] \in {"CLOSED", "LISTEN"} => state[s] \in {"CLOSED", "LISTEN"}
        BY <1>2, <1>6
      <4>5. state[c] = "CLOSED" => state'[s] \in {"CLOSED", "LISTEN"}
        BY <4>1, <4>2 DEF FirstPackets
      <4> QED
        BY <2>0, <4>1, <4>3, <4>4, <4>5 DEF FirstPackets
    <3> QED
      BY <3>2, <3>3
  <2>3. CASE state[s] \notin Shaking
    <3>1. state'[s] \notin {"CLOSED", "LISTEN", "SYN_RECV"} /\ state[c] # "CLOSED"
      BY <1>2, <1>6, <2>3 DEF Shaking, FirstPackets
    <3> QED
      BY <2>0, <3>1 DEF FirstPackets
  <2> QED
    BY <2>1, <2>2, <2>3
<1> QED
  BY <1>3, <1>5, <1>6

-----------------------------------------------------------------------------
(* The invariant.                                                           *)

\* The first state.
LEMMA Initially == ASSUME Init PROVE Inv
<1>0. /\ load \in Workloads /\ load.window \in 2 .. MaxU16 /\ load.window \in Nat /\ load.writes \in Nat \ {0}
      /\ MaxU16 \in Nat
  BY LoadTypes, U16 DEF Init
<1>1. ClientWrite(1) \in Seq(Byte)
  <2>1. 1 \in 1 .. load.writes
    BY <1>0
  <2> QED
    BY <1>0, <2>1, WriteTypes
<1>2. wait_init \in WaitStruct({"client"}) /\ wait_init \in WaitStruct({"server"})
  BY DEF wait_init, WaitStruct
<1>3. TypeOK
  <2>1. app \in [Hosts -> Thread]
    <3>1. PICK b \in Seq(Byte) : b = ClientWrite(1)
      BY <1>1
    <3>2. app = [h \in Hosts |-> [pc |-> IF h = "client" THEN "connect" ELSE "listen", round |-> 1,
                                  buf |-> IF h = "client" THEN b ELSE <<>>, wlen |-> 0, seg |-> 0, wnd |-> 0]]
      BY <3>1 DEF Init
    <3>3. <<>> \in Seq(Byte) /\ 0 \in 0 .. MaxU16 /\ 0 \in Nat /\ 1 \in Nat
      BY <1>0
    <3>4. \A h \in Hosts : [pc |-> IF h = "client" THEN "connect" ELSE "listen", round |-> 1,
                           buf |-> IF h = "client" THEN b ELSE <<>>, wlen |-> 0, seg |-> 0, wnd |-> 0] \in Thread
      BY <3>3 DEF Thread
    <3> QED
      BY <3>2, <3>4
  <2>2. rx \in [Hosts -> [pc : {"idle", "old", "new", "wake", "establish", "opened"}, rwnd : 0 .. MaxU16, old : 0 .. MaxU16]]
    BY <1>0 DEF Init
  <2>3. \A h \in Hosts : wait_send[h] \in WaitStruct({h}) /\ wait_conn[h] \in WaitStruct({h})
    BY <1>2 DEF Init, Hosts
  <2>4. snd_wnd \in [Hosts -> 0 .. MaxU16] /\ rcv_wnd \in [Hosts -> 0 .. MaxU16]
    BY <1>0 DEF Init
  <2>5. \A h \in Hosts : rcv_buf[h] = <<>> /\ Len(rcv_buf[h]) = 0
    BY DEF Init
  <2>6. \A h \in Hosts : Len(rcv_buf[h]) < load.window
    BY <1>0, <2>5
  <2> QED
    BY <1>0, <2>1, <2>2, <2>3, <2>4, <2>6 DEF TypeOK, Init
<1>4. FirstPackets
  BY DEF Init, FirstPackets, Unanswered, Hosts
<1>5. Speaks
  BY DEF Init, Speaks, Hosts, Sending
<1>6. ASSUME NEW h \in Hosts PROVE Place(h) /\ Handshake(h) /\ Stream(h)
  <2>1. app[h].round = 1 /\ app[h].pc = (IF h = "client" THEN "connect" ELSE "listen") /\ state[h] = "CLOSED"
        /\ rx[h].pc = "idle" /\ wait_conn[h] = wait_init
    BY DEF Init
  <2>2. Place(h)
    BY <1>0, <2>1, TwoHosts DEF Place, Located, Asked, Sending
  <2>3. Handshake(h)
    BY <2>1, TwoHosts DEF Handshake, Opening, Shaking, wait_init
  <2>4. Stream(h)
    <3>1. got[h] = <<>> /\ rcv_buf[h] = <<>> /\ net[h] = <<>> /\ sent[Other(h)] = <<>>
      BY TwoHosts DEF Init
    <3>2. Flight(<<>>) = <<>>
      <4>1. <<>> \in Seq(Packet)
        OBVIOUS
      <4>2. Control(h, {}) \in Packet
        BY <1>3, ControlTypes
      <4> QED
        BY <4>1, <4>2, Flights
    <3>3. (<<>> \o <<>>) \o <<>> = <<>>
      BY ConcatEmptySeq
    <3> QED
      BY <2>1, <3>1, <3>2, <3>3 DEF Stream, InFlight, Flight
  <2> QED
    BY <2>2, <2>3, <2>4
<1> QED
  BY <1>3, <1>4, <1>5, <1>6 DEF Inv

\* Every step keeps the invariant, ...
LEMMA Stays == ASSUME Inv, [Next]_vars PROVE Inv'
<1>1. CASE UNCHANGED vars
  <2>1. TypeOK /\ FirstPackets /\ Speaks /\ \A k \in Hosts : Place(k) /\ Handshake(k) /\ Stream(k)
    BY DEF Inv
  <2>2. Byte' = Byte /\ Thread' = Thread /\ Packet' = Packet
    BY <1>1, SameBytes DEF vars
  <2>3. TypeOK'
    BY <1>1, <2>1, <2>2 DEF vars, TypeOK
  <2>4. FirstPackets'
    BY <1>1, <2>1 DEF vars, FirstPackets, Unanswered
  <2>5. Speaks'
    BY <1>1, <2>1 DEF vars, Speaks
  <2>6. \A k \in Hosts : Place(k)' /\ Handshake(k)'
    BY <1>1, <2>1 DEF vars, Place, Located, Asked, Handshake
  <2>7. \A k \in Hosts : Stream(k)'
    BY <1>1, <2>1 DEF vars, Stream, InFlight
  <2> QED
    BY <2>3, <2>4, <2>5, <2>6, <2>7 DEF Inv
<1>2. ASSUME NEW h \in Hosts, AppStep(h) \/ RxStep(h) PROVE Inv'
  <2>0. TypeOK /\ FirstPackets /\ Speaks /\ \A k \in Hosts : Place(k) /\ Handshake(k) /\ Stream(k)
    BY DEF Inv
  <2>1. TypeOK'
    BY <1>2, <2>0, TypeStep
  <2>2. FirstPackets' /\ Speaks'
    BY <1>2, <2>0, FirstStep, SpeaksStep
  <2>3. \A k \in Hosts : Place(k)' /\ Handshake(k)'
    BY <1>2, <2>0, PlaceStep
  <2>4. ASSUME NEW k \in Hosts PROVE Stream(k)'
    <3>1. CASE k = h
      BY <1>2, <2>0, <3>1, StreamMine
    <3>2. CASE k # h
      <4>1. k = Other(h)
        BY <3>2, TwoHosts
      <4>2. Stream(Other(h))
        BY <2>0, <4>1
      <4>3. Stream(Other(h))'
        BY <1>2, <2>0, <4>2, StreamOther
      <4> QED
        BY <1>2, <3>2, <4>1, <4>3 DEF Other
    <3> QED
      BY <3>1, <3>2
  <2> QED
    BY <2>1, <2>2, <2>3, <2>4 DEF Inv, Hosts
<1> QED
  BY <1>1, <1>2 DEF Next

-----------------------------------------------------------------------------
(* The bytes between the applications, whatever the windows do.             *)

\* ... so that it always holds.
LEMMA AlwaysInv == Spec => []Inv
  BY Initially, Stays, PTL DEF Spec

\* TypeOK: every variable has its type; among the rest, a buffer never holds more
\* than ring_buffer_free leaves, and snd_wnd never leaves its 16 bits.
THEOREM TypeCorrect == Spec => []TypeOK
<1>1. Inv => TypeOK
  BY DEF Inv
<1> QED
  BY <1>1, AlwaysInv, PTL

\* StreamIntact: between tcp_send_packet and tcp_sock_read no byte is lost,
\* repeated or reordered, whatever the windows do.
THEOREM StreamIsIntact == Spec => []StreamIntact
<1>1. Inv => StreamIntact
  <2> SUFFICES ASSUME Inv, NEW h \in Hosts, up[h]
               PROVE  IF state[h] \in {"ESTABLISHED", "CLOSE_WAIT"}
                      THEN (got[h] \o rcv_buf[h]) \o InFlight(h) = sent[Other(h)]
                      ELSE IsPrefix(got[h] \o rcv_buf[h], sent[Other(h)])
    BY DEF StreamIntact
  <2>1. /\ net[h] \in Seq(Packet) /\ got[h] \in Seq(Byte) /\ rcv_buf[h] \in Seq(Byte)
        /\ TypeOK /\ Stream(h)
    BY DEF Inv, TypeOK
  <2>2. PICK held \in Seq(Byte) : held = got[h] \o rcv_buf[h]
    BY <2>1, ConcatProperties
  <2>3. Flight(net[h]) \in Seq(Byte)
    <3>1. Control(h, {}) \in Packet
      BY <2>1, ControlTypes
    <3> QED
      BY <2>1, <3>1, Flights
  <2>4. InFlight(h) = Flight(net[h])
    BY DEF InFlight, Flight
  <2>5. IsPrefix(held, held \o Flight(net[h]))
    BY <2>3, PrefixGrows
  <2>6. IF state[h] \notin {"FIN_WAIT_1", "FIN_WAIT_2"} THEN held \o Flight(net[h]) = sent[Other(h)]
        ELSE IsPrefix(held, sent[Other(h)])
    BY <2>1, <2>2, <2>4 DEF Stream
  <2> QED
    BY <2>2, <2>4, <2>5, <2>6
<1> QED
  BY <1>1, AlwaysInv, PTL

-----------------------------------------------------------------------------
(* The window, when it is ample.                                            *)

\* What the client has sent and has still to send in its r-th round is within the budget.
LEMMA Rounds ==
  ASSUME NEW n \in Nat, NEW m \in Nat, NEW b \in Nat, NEW r \in 1 .. m
  PROVE  /\ (r - 1) * n \in Nat /\ (r - 1) * n + n = r * n /\ r * n \in Nat
         /\ (r - 1) * n + n <= m * n /\ m * n \in Nat
         /\ m * n <= (m * n) * (1 + b) /\ (m * n) * (1 + b) \in Nat
<1>1. r \in Nat /\ r - 1 \in Nat /\ r <= m
  OBVIOUS
<1>2. (r - 1) * n \in Nat /\ (r - 1) * n + n = r * n
  BY <1>1
<1>3. r * n <= m * n /\ m * n \in Nat /\ r * n \in Nat
  BY <1>1, Products
<1>4. PICK t \in Nat : t = m * n
  BY <1>3
<1>5. 1 * t <= (1 + b) * t /\ (1 + b) * t \in Nat
  <2>1. 1 \in Nat /\ 1 + b \in Nat /\ 1 <= 1 + b
    OBVIOUS
  <2> QED
    BY <2>1, Products
<1>6. t <= t * (1 + b) /\ t * (1 + b) \in Nat
  BY <1>5
<1> QED
  BY <1>2, <1>3, <1>4, <1>6

\* What the server answers to what it has got is within the budget.
LEMMA Answers ==
  ASSUME NEW g \in Nat, NEW t \in Nat, NEW b \in Nat, g <= t
  PROVE  g * (1 + b) \in Nat /\ g * (1 + b) <= t * (1 + b)
<1>1. 1 + b \in Nat
  OBVIOUS
<1> QED
  BY <1>1, Products

\* One more read of n bytes allows for one more banner.
LEMMA OneMoreAnswer ==
  ASSUME NEW g \in Nat, NEW n \in Nat \ {0}, NEW b \in Nat
  PROVE  g * (1 + b) + b + n <= (g + n) * (1 + b)
<1>1. PICK m \in Nat : n = 1 + m
  <2>1. n - 1 \in Nat /\ n = 1 + (n - 1)
    OBVIOUS
  <2> QED
    BY <2>1
<1>2. (g + n) * (1 + b) = g * (1 + b) + n * (1 + b)
  OBVIOUS
<1>3. n * (1 + b) = n + b + m * b
  <2>1. (1 + m) * (1 + b) = 1 + m + b + m * b
    OBVIOUS
  <2> QED
    BY <1>1, <2>1
<1>4. m * b \in Nat /\ g * (1 + b) \in Nat
  OBVIOUS
<1>5. PICK x \in Nat, y \in Nat : x = m * b /\ y = g * (1 + b)
  BY <1>4
<1>6. y + b + n <= y + (n + b + x)
  OBVIOUS
<1> QED
  BY <1>2, <1>3, <1>5, <1>6

\* What is in a buffer and what the application has got has been sent; and in
\* ESTABLISHED also what comes with the next packet.
LEMMA Received ==
  ASSUME TypeOK, NEW h \in Hosts, Stream(h), up[h]
  PROVE  /\ Len(got[h]) \in Nat /\ Len(rcv_buf[h]) \in Nat /\ Len(sent[Other(h)]) \in Nat
         /\ Len(got[h]) + Len(rcv_buf[h]) <= Len(sent[Other(h)])
         /\ net[h] # <<>> /\ state[h] = "ESTABLISHED" =>
              /\ Len(Head(net[h]).data) \in Nat
              /\ Len(got[h]) + Len(rcv_buf[h]) + Len(Head(net[h]).data) <= Len(sent[Other(h)])
<1>1. /\ net[h] \in Seq(Packet) /\ got[h] \in Seq(Byte) /\ rcv_buf[h] \in Seq(Byte) /\ sent[Other(h)] \in Seq(Byte)
  BY TwoHosts DEF TypeOK
<1>2. PICK a \in Nat, b \in Nat, e \in Nat : a = Len(got[h]) /\ b = Len(rcv_buf[h]) /\ e = Len(sent[Other(h)])
  BY <1>1
<1>3. PICK held \in Seq(Byte) : held = got[h] \o rcv_buf[h] /\ Len(held) = a + b
  <2>1. got[h] \o rcv_buf[h] \in Seq(Byte) /\ Len(got[h] \o rcv_buf[h]) = Len(got[h]) + Len(rcv_buf[h])
    BY <1>1, ConcatProperties
  <2> QED
    BY <1>2, <2>1
<1>4. /\ Flight(net[h]) \in Seq(Byte)
      /\ net[h] # <<>> => /\ Head(net[h]).data \in Seq(Byte) /\ Flight(Tail(net[h])) \in Seq(Byte)
                          /\ Flight(net[h]) = Head(net[h]).data \o Flight(Tail(net[h]))
  <2>1. Control(h, {}) \in Packet
    BY ControlTypes
  <2> QED
    BY <1>1, <2>1, Flights
<1>5. IF state[h] \notin {"FIN_WAIT_1", "FIN_WAIT_2"} THEN held \o Flight(net[h]) = sent[Other(h)]
      ELSE IsPrefix(held, sent[Other(h)])
  BY <1>3 DEF Stream, InFlight, Flight
<1>6. a + b <= e
  <2>1. IsPrefix(held, sent[Other(h)])
    BY <1>4, <1>5, PrefixGrows
  <2>2. Len(held) <= Len(sent[Other(h)])
    BY <1>1, <2>1, Prefixed
  <2> QED
    BY <1>2, <1>3, <2>2
<1>7. ASSUME net[h] # <<>>, state[h] = "ESTABLISHED"
      PROVE  Len(Head(net[h]).data) \in Nat /\ a + b + Len(Head(net[h]).data) <= e
  <2>1. PICK d \in Seq(Byte), f \in Seq(Byte) : d = Head(net[h]).data /\ f = Flight(Tail(net[h]))
    BY <1>4, <1>7
  <2>2. held \o (d \o f) = sent[Other(h)]
    BY <1>4, <1>5, <1>7, <2>1
  <2>3. d \o f \in Seq(Byte) /\ Len(d \o f) = Len(d) + Len(f) /\ Len(held \o (d \o f)) = Len(held) + Len(d \o f)
    BY ConcatProperties
  <2>4. PICK x \in Nat, y \in Nat : x = Len(d) /\ y = Len(f)
    OBVIOUS
  <2>5. a + b + (x + y) = e
    BY <1>2, <1>3, <2>2, <2>3, <2>4
  <2>6. a + b + x <= e
    BY <2>5
  <2> QED
    BY <2>1, <2>4, <2>6
<1> QED
  BY <1>2, <1>6, <1>7

\* What a host has left to write is within the budget, and the budget within the window.
LEMMA Left ==
  ASSUME Inv, Ample, ClientSent, ServerSent, \A k \in Hosts : Segments(k), NEW h \in Hosts
  PROVE  /\ Budget \in Nat /\ Budget <= load.window - 2
         /\ Len(sent[h]) \in Nat /\ app[h].wlen \in Nat /\ Len(app[h].buf) \in Nat
         /\ app[h].wlen <= Len(app[h].buf)
         /\ Len(sent[h]) + (Len(app[h].buf) - app[h].wlen) <= Budget
<1>0. TypeOK /\ load \in Workloads
  BY DEF Inv, TypeOK
<1>1. PICK n \in Nat, m \in Nat, b \in Nat : n = load.len /\ m = load.writes /\ b = load.banner
  BY <1>0, LoadTypes
<1>2. Budget = (m * n) * (1 + b) /\ Total = m * n
  BY <1>1 DEF Budget, Total
<1>3. "client" \in Hosts /\ "server" \in Hosts /\ Other("server") = "client" /\ (h = "client" \/ h = "server")
  BY TwoHosts
<1>4. app["client"].round \in 1 .. m
  BY <1>1, <1>3 DEF Inv, Place, Located
<1>5. PICK r \in 1 .. m : r = app["client"].round
  BY <1>4
<1>6. /\ (r - 1) * n \in Nat /\ (r - 1) * n + n <= m * n /\ m * n \in Nat
      /\ m * n <= (m * n) * (1 + b) /\ (m * n) * (1 + b) \in Nat
  BY Rounds
<1>7. Budget \in Nat /\ Budget <= load.window - 2
  BY <1>2, <1>6 DEF Ample, Budget
<1>8. app[h] \in Thread /\ sent[h] \in Seq(Byte)
  BY <1>0 DEF TypeOK
<1>9. PICK w \in Nat, l \in Nat, e \in Nat : w = app[h].wlen /\ l = Len(app[h].buf) /\ e = Len(sent[h])
  BY <1>8 DEF Thread
<1>10. w <= l
  BY <1>9 DEF Segments
<1>11. PICK t \in Nat, p \in Nat, q \in Nat : t = m * n /\ p = (r - 1) * n /\ q = Budget /\ p + n <= t /\ t <= q
  BY <1>2, <1>6, <1>7
<1>12. Len(sent["client"]) = p + app["client"].wlen /\ Len(app["client"].buf) = n
  BY <1>1, <1>5, <1>11 DEF ClientSent
<1>13. e + (l - w) <= q
  <2>1. CASE h = "client"
    <3>1. e = p + w /\ l = n
      BY <1>9, <1>12, <2>1
    <3> QED
      BY <1>10, <1>11, <3>1
  <2>2. CASE h = "server"
    <3>1. Stream(h) /\ up[h] /\ Len(sent["client"]) <= t
      <4>1. app["client"].wlen <= n
        BY <1>3, <1>12 DEF Segments
      <4>2. PICK v \in Nat : v = app["client"].wlen
        BY <1>0, <1>3 DEF TypeOK, Thread
      <4>3. p + v <= t
        BY <1>11, <4>1, <4>2
      <4> QED
        BY <1>12, <4>2, <4>3 DEF Inv, Segments
    <3>2. PICK g \in Nat : g = Len(got[h]) /\ g <= t
      <4>1. Len(got[h]) \in Nat /\ Len(rcv_buf[h]) \in Nat /\ Len(sent["client"]) \in Nat
            /\ Len(got[h]) + Len(rcv_buf[h]) <= Len(sent["client"])
        BY <1>0, <1>3, <2>2, <3>1, Received
      <4>2. PICK x \in Nat, y \in Nat, z \in Nat : x = Len(got[h]) /\ y = Len(rcv_buf[h]) /\ z = Len(sent["client"])
        BY <4>1
      <4>3. x + y <= z /\ z <= t
        BY <3>1, <4>1, <4>2
      <4>4. x <= t
        BY <4>3
      <4> QED
        BY <4>2, <4>4
    <3>3. g * (1 + b) \in Nat /\ g * (1 + b) <= t * (1 + b)
      BY <3>2, Answers
    <3>4. PICK u \in Nat : u = g * (1 + b) /\ u <= q
      BY <1>2, <1>11, <3>3
    <3>5. e + l - w <= u
      BY <1>1, <1>9, <2>2, <3>2, <3>4 DEF ServerSent
    <3> QED
      BY <1>10, <3>4, <3>5
  <2> QED
    BY <1>3, <2>1, <2>2
<1> QED
  BY <1>7, <1>9, <1>10, <1>11, <1>13

\* What a host has sent grows, ...
LEMMA Grown ==
  ASSUME TypeOK, NEW h \in Hosts, AppStep(h) \/ RxStep(h), NEW k \in Hosts
  PROVE  Len(sent[k]) \in Nat /\ Len(sent'[k]) \in Nat /\ Len(sent[k]) <= Len(sent'[k])
<1>0. sent[k] \in Seq(Byte) /\ sent[h] \in Seq(Byte)
  BY DEF TypeOK
<1>1. CASE k # h
  <2>1. sent'[k] = sent[k]
    BY <1>1, OnlyMine
  <2>2. PICK n \in Nat : n = Len(sent[k])
    BY <1>0
  <2> QED
    BY <2>1, <2>2
<1>2. CASE k = h
  <2>1. sent'[h] = sent[h] \/ \E p \in Packet : sent'[h] = sent[h] \o p.data
    BY Outgoing, Zenon
  <2>2. ASSUME NEW p \in Packet, sent'[h] = sent[h] \o p.data
        PROVE  Len(sent[h]) \in Nat /\ Len(sent'[h]) \in Nat /\ Len(sent[h]) <= Len(sent'[h])
    <3>1. PICK d \in Seq(Byte), s \in Seq(Byte) : d = p.data /\ s = sent[h]
      BY <1>0 DEF Packet
    <3>2. Len(s \o d) = Len(s) + Len(d) /\ Len(s) \in Nat /\ Len(d) \in Nat
      BY Nonempty
    <3>3. Len(s) <= Len(s \o d) /\ Len(s \o d) \in Nat
      BY <3>2
    <3> QED
      BY <2>2, <3>1, <3>2, <3>3
  <2>3. PICK n \in Nat : n = Len(sent[h])
    BY <1>0
  <2>4. CASE sent'[h] = sent[h]
    BY <1>2, <2>3, <2>4
  <2>5. CASE \E p \in Packet : sent'[h] = sent[h] \o p.data
    BY <1>2, <2>2, <2>5
  <2> QED
    BY <2>1, <2>4, <2>5
<1> QED
  BY <1>1, <1>2

\* ... so that a window that was enough still is.
LEMMA StillEnough ==
  ASSUME Inv, Ample, ClientSent, ServerSent, \A j \in Hosts : Segments(j),
         NEW h \in Hosts, AppStep(h) \/ RxStep(h), NEW k \in Hosts, NEW w \in Int, Enough(k, w)
  PROVE  w >= Budget' + 1 - Len(sent'[k])
<1>0. TypeOK
  BY DEF Inv
<1>1. Budget' = Budget
  BY LoadStays, SameBytes DEF Budget
<1>2. PICK a \in Nat, b \in Nat, c \in Nat : a = Len(sent[k]) /\ b = Len(sent'[k]) /\ c = Budget /\ a <= b
  BY <1>0, Grown, Left
<1>3. w >= c + 1 - a
  BY <1>2 DEF Enough
<1>4. w >= c + 1 - b
  BY <1>2, <1>3
<1> QED
  BY <1>1, <1>2, <1>4

\* The steps that change a window which matters.
LEMMA WindowSteps ==
  ASSUME TypeOK, NEW h \in Hosts, Place(h), Handshake(h), AppStep(h) \/ RxStep(h)
  PROVE  /\ \/ StoreWindow(h) \/ SetWindow(h)
            \/ /\ snd_wnd'[h] = snd_wnd[h]
               /\ state'[h] \notin Shaking \/ rx'[h].pc \in {"wake", "establish"} =>
                    state[h] \notin Shaking \/ rx[h].pc \in {"wake", "establish"}
         /\ rx'[h].pc \in {"old", "new"} =>
              \/ rx[h].pc \in {"old", "new"} /\ rx'[h].rwnd = rx[h].rwnd
              \/ net[h] # <<>> /\ rx'[h].rwnd = Head(net[h]).rwnd
         /\ app'[h].pc = "store" => LoadWindow(h) \/ app'[h] = app[h]
         /\ UpdateRcvWindow(h) \/ rcv_wnd'[h] = rcv_wnd[h]
<1>0. /\ DOMAIN state = Hosts /\ DOMAIN rx = Hosts /\ DOMAIN rx[h] = {"pc", "rwnd", "old"}
      /\ app \in [Hosts -> Thread] /\ app[h] \in Thread /\ load \in Workloads
  BY DEF TypeOK
<1>1. CASE OpenStep(h)
  <2>1. snd_wnd' = snd_wnd /\ rx' = rx /\ rcv_wnd' = rcv_wnd
    BY <1>1 DEF OpenStep, Connect, Listen, AcceptTest, OpenSleep, OpenReturn, sock
  <2>2. state'[h] \notin Shaking => state[h] \notin Shaking
    <3>1. CASE h = "client" /\ Connect
      BY <1>0, <3>1 DEF Connect, Shaking
    <3>2. CASE h = "server" /\ Listen
      BY <1>0, <3>2 DEF Listen, Shaking
    <3>3. CASE AcceptTest \/ OpenSleep(h) \/ OpenReturn(h)
      BY <3>3 DEF AcceptTest, OpenSleep, OpenReturn, sock
    <3> QED
      BY <1>1, <3>1, <3>2, <3>3 DEF OpenStep
  <2>3. \E pc \in {"connect", "listen", "accept", "wait", "waiting", "check", "read"} : Goto(h, pc)
    BY <1>1 DEF OpenStep, Connect, Listen, AcceptTest, OpenSleep, OpenReturn, Opened
  <2>4. app'[h].pc # "store"
    BY <1>0, <2>3, Moves
  <2> QED
    BY <2>1, <2>2, <2>4
<1>2. CASE SendStep(h)
  <2>1. state' = state /\ rx' = rx /\ rcv_wnd' = rcv_wnd /\ (StoreWindow(h) \/ snd_wnd' = snd_wnd)
    BY <1>2 DEF SendStep, CheckWindow, SleepOn, CondWaitReturn, CompareWindow, TakeWindow, LoadWindow,
                StoreWindow, WriteReturns, sock
  <2>2. LoadWindow(h) \/ app'[h].pc # "store"
    <3>1. CASE StoreWindow(h) \/ CompareWindow(h) \/ TakeWindow(h)
      <4>1. CASE StoreWindow(h)
        BY <1>0, <4>1 DEF StoreWindow, Thread
      <4>2. CASE CompareWindow(h) /\ Goto(h, "take")
        BY <1>0, <4>2, Moves
      <4>3. CASE CompareWindow(h) /\ app' = [app EXCEPT ![h].seg = Wanted(app[h]), ![h].pc = "load"]
        BY <1>0, <4>3 DEF Thread
      <4>4. CASE TakeWindow(h)
        BY <1>0, <4>4 DEF TakeWindow, Thread
      <4> QED
        BY <3>1, <4>1, <4>2, <4>3, <4>4 DEF CompareWindow
    <3>2. CASE CheckWindow(h) \/ SleepOn(h) \/ CondWaitReturn(h) \/ WriteReturns(h)
      <4>1. \E pc \in {"sleep", "asleep", "compare", "read"} : Goto(h, pc)
        BY <3>2 DEF CheckWindow, SleepOn, CondWaitReturn, WriteReturns
      <4> QED
        BY <1>0, <4>1, Moves
    <3> QED
      BY <1>2, <3>1, <3>2 DEF SendStep
  <2> QED
    BY <2>1, <2>2, SMTT(30)
<1>3. CASE ReadStep(h) \/ CloseStep(h)
  <2>1. snd_wnd' = snd_wnd /\ rx' = rx /\ (UpdateRcvWindow(h) \/ rcv_wnd' = rcv_wnd)
    BY <1>3 DEF ReadStep, CloseStep, ReadNothing, ReadAsk, ReadSettle, ReadGet, UpdateRcvWindow, Close, SendFin, sock
  <2>2. state[h] \notin Shaking
    BY <1>3 DEF ReadStep, CloseStep, ReadNothing, ReadAsk, ReadSettle, ReadGet, UpdateRcvWindow, Close, SendFin, At, Handshake, Opening
  <2>3. app'[h].pc # "store"
    <3>1. CASE ReadNothing(h) \/ UpdateRcvWindow(h)
      <4>1. NextRound(app[h]).pc \in {"check", "close"}
        BY <1>0, NextRoundTypes DEF Place, Located
      <4>2. [app[h] EXCEPT !.pc = "check"].pc = "check"
        BY <1>0 DEF Thread
      <4>3. app'[h] \in {NextRound(app[h]), [app[h] EXCEPT !.pc = "check"]}
        BY <1>0, <3>1 DEF ReadNothing, UpdateRcvWindow
      <4> QED
        BY <4>1, <4>2, <4>3
    <3>2. CASE ReadAsk(h) \/ ReadSettle(h) \/ ReadGet(h)
      BY <1>0, <3>2 DEF ReadAsk, ReadSettle, ReadGet, Goto, Thread
    <3>3. CASE Close(h) \/ SendFin(h)
      <4>1. \E pc \in {"fin", "done"} : Goto(h, pc)
        BY <3>3 DEF Close, SendFin
      <4> QED
        BY <1>0, <4>1, Moves
    <3> QED
      BY <1>3, <3>1, <3>2, <3>3 DEF ReadStep, CloseStep
  <2> QED
    BY <2>1, <2>2, <2>3
<1>4. CASE RxStep(h)
  <2>1. app' = app /\ rcv_wnd' = rcv_wnd
    BY <1>4, Zenon DEF RxStep, ReceiveSyn, ReceiveSynAck, ReceiveAck, Establish, WakeOpened, ReceiveData, AssertFails,
                ReadOldWindow, SetWindow, WakeSender, ReceiveFin, ReceiveInFinWait1, ReceiveInFinWait2, sock
  <2>2. CASE ReceiveSyn(h)
    BY <1>0, <2>1, <2>2 DEF ReceiveSyn, Shaking, Arriving
  <2>3. CASE ReceiveSynAck(h) \/ ReceiveAck(h) \/ ReceiveData(h)
    <3>1. /\ snd_wnd' = snd_wnd /\ state' = state /\ net[h] # <<>>
          /\ rx' = [rx EXCEPT ![h].pc = "old", ![h].rwnd = Head(net[h]).rwnd]
      BY <2>3 DEF ReceiveSynAck, ReceiveAck, ReceiveData, Arriving, sock
    <3>2. rx'[h].pc = "old" /\ rx'[h].rwnd = Head(net[h]).rwnd
      BY <1>0, <3>1
    <3> QED
      BY <2>1, <3>1, <3>2
  <2>4. CASE Establish(h)
    <3>1. snd_wnd' = snd_wnd /\ rx[h].pc = "establish" /\ rx'[h].pc = "opened"
      BY <1>0, <2>4 DEF Establish
    <3> QED
      BY <2>1, <3>1
  <2>5. CASE WakeOpened(h)
    <3>1. snd_wnd' = snd_wnd /\ state' = state /\ rx'[h].pc = "idle"
      BY <1>0, <2>5 DEF WakeOpened, sock
    <3> QED
      BY <2>1, <3>1
  <2>6. CASE AssertFails(h) \/ ReceiveInFinWait2(h)
    <3>1. snd_wnd' = snd_wnd /\ state' = state /\ rx' = rx
      BY <2>6 DEF AssertFails, ReceiveInFinWait2, sock
    <3> QED
      BY <2>1, <3>1
  <2>7. CASE ReadOldWindow(h)
    <3>1. snd_wnd' = snd_wnd /\ state' = state /\ rx[h].pc = "old" /\ rx'[h].pc = "new" /\ rx'[h].rwnd = rx[h].rwnd
      BY <1>0, <2>7 DEF ReadOldWindow, sock
    <3> QED
      BY <2>1, <3>1
  <2>8. CASE SetWindow(h)
    <3>1. rx'[h].pc \in {"wake", "establish", "idle"}
      BY <1>0, <2>8 DEF SetWindow, AfterUpdate
    <3> QED
      BY <2>1, <2>8, <3>1
  <2>9. CASE WakeSender(h)
    <3>1. snd_wnd' = snd_wnd /\ state' = state /\ rx[h].pc = "wake" /\ rx'[h].pc \in {"establish", "idle"}
      BY <1>0, <2>9 DEF WakeSender, AfterUpdate
    <3> QED
      BY <2>1, <3>1
  <2>10. CASE ReceiveFin(h) \/ ReceiveInFinWait1(h)
    <3>1. snd_wnd' = snd_wnd /\ state[h] \notin Shaking /\ rx' = rx
      BY <2>10 DEF ReceiveFin, ReceiveInFinWait1, Shaking
    <3> QED
      BY <2>1, <3>1
  <2> QED
    BY <1>4, <2>2, <2>3, <2>4, <2>5, <2>6, <2>7, <2>8, <2>9, <2>10 DEF RxStep
<1> QED
  BY <1>1, <1>2, <1>3, <1>4 DEF AppStep

\* snd_wnd -= tcp_data_len does not go below zero, and leaves enough.
LEMMA StoreEnough ==
  ASSUME Inv, Ample, ClientSent, ServerSent, \A j \in Hosts : Segments(j), NEW h \in Hosts, Windows(h), StoreWindow(h)
  PROVE  snd_wnd'[h] >= Budget' + 1 - Len(sent'[h])
<1>0. TypeOK /\ load \in Workloads /\ app[h] \in Thread /\ sent[h] \in Seq(Byte)
      /\ DOMAIN snd_wnd = Hosts /\ DOMAIN sent = Hosts
  BY DEF Inv, TypeOK
<1>1. Budget' = Budget
  BY LoadStays, SameBytes DEF Budget, AppStep, SendStep
<1>2. PICK wnd \in 0 .. MaxU16, seg \in 0 .. MaxU16, l \in Nat, w \in Nat, e \in Nat, q \in Nat :
        /\ wnd = app[h].wnd /\ seg = app[h].seg /\ l = Len(app[h].buf) /\ w = app[h].wlen
        /\ e = Len(sent[h]) /\ q = Budget
  BY <1>0, Left DEF Thread
<1>3. MaxU16 \in Nat
  BY U16
<1>4. app[h].pc = "store"
  BY DEF StoreWindow, At
<1>5. wnd >= q + 1 - e
  BY <1>2, <1>4 DEF Windows, Enough
<1>6. seg \in 1 .. l - w
  BY <1>2, <1>4 DEF Segments
<1>7. e + (l - w) <= q
  BY <1>2, Left
<1>8. wnd - seg >= q + 1 - (e + seg) /\ wnd - seg \in 0 .. MaxU16
  BY <1>3, <1>5, <1>6, <1>7
<1>9. (wnd - seg) % (MaxU16 + 1) = wnd - seg
  <2>1. PICK z \in Nat : z = wnd - seg /\ z <= MaxU16
    BY <1>3, <1>8
  <2>2. PICK m \in Nat : m = MaxU16 + 1 /\ m > 0 /\ z < m
    BY <1>3, <2>1
  <2>3. z % m = z
    BY <2>2
  <2> QED
    BY <2>1, <2>2, <2>3
<1>10. snd_wnd'[h] = wnd - seg
  BY <1>0, <1>2, <1>9 DEF StoreWindow
<1>11. Len(sent'[h]) = e + seg
  <2>1. app[h].buf \in Seq(Byte) /\ app[h].wlen \in Nat /\ app[h].seg \in Nat
    BY <1>0, <1>2, <1>3 DEF Thread
  <2>2. PICK data \in Seq(Byte) : data = Payload(app[h].buf, app[h].wlen, app[h].seg) /\ Len(data) = app[h].seg
    BY <1>0, <2>1, PayloadTypes
  <2>3. sent'[h] = sent[h] \o data
    BY <1>0, <2>2 DEF StoreWindow
  <2>4. Len(sent[h] \o data) = Len(sent[h]) + Len(data)
    BY <1>0, ConcatProperties
  <2> QED
    BY <1>2, <2>2, <2>3, <2>4
<1> QED
  BY <1>1, <1>2, <1>8, <1>10, <1>11

\* The packets left after one is taken.
LEMMA Remaining ==
  ASSUME Inv, NEW h \in Hosts, AppStep(h) \/ RxStep(h), NEW i \in DOMAIN net'[h]
  PROVE  \E j \in DOMAIN net[h] : net'[h][i] = net[h][j]
<1>0. net[h] \in Seq(Packet) /\ Control(h, {}) \in Packet
  BY ControlTypes DEF Inv, TypeOK
<1>1. CASE net'[h] = net[h]
  BY <1>1
<1>2. CASE net[h] # <<>> /\ net'[h] = Tail(net[h])
  BY <1>0, <1>2, PacketsAfter
<1>3. net'[h] = net[h] \/ (net[h] # <<>> /\ net'[h] = Tail(net[h]))
  BY Incoming DEF Inv
<1> QED
  BY <1>1, <1>2, <1>3

\* The windows of the host that steps.
LEMMA WindowsMine ==
  ASSUME Inv, Ample, Amply, NEW h \in Hosts, AppStep(h) \/ RxStep(h)
  PROVE  Windows(h)'
<1>0. /\ TypeOK /\ Place(h) /\ Handshake(h) /\ Windows(h)
      /\ ClientSent /\ ServerSent /\ \A j \in Hosts : Segments(j)
  BY DEF Inv, Amply
<1>1. \A w \in Int : Enough(h, w) => w >= Budget' + 1 - Len(sent'[h])
  BY <1>0, StillEnough
<1>2. /\ Other(h) \in Hosts /\ Other(h) # h /\ MaxU16 \in Nat /\ net[h] \in Seq(Packet)
      /\ rcv_wnd[Other(h)] \in 0 .. MaxU16 /\ snd_wnd[h] \in 0 .. MaxU16 /\ app[h] \in Thread
      /\ rx[h].rwnd \in 0 .. MaxU16
      /\ DOMAIN snd_wnd = Hosts /\ DOMAIN app = Hosts
  BY <1>0, TwoHosts, U16 DEF TypeOK
<1>3. rcv_wnd'[Other(h)] >= Budget' + 1 - Len(sent'[h])
  <2>1. rcv_wnd'[Other(h)] = rcv_wnd[Other(h)]
    BY <1>0, <1>2, OnlyMine
  <2>2. Enough(h, rcv_wnd[Other(h)])
    BY <1>0 DEF Windows
  <2> QED
    BY <1>1, <1>2, <2>1, <2>2
<1>4. ASSUME NEW i \in DOMAIN net'[h]
      PROVE  net'[h][i].rwnd >= Budget' + 1 - Len(sent'[h])
  <2>1. PICK j \in DOMAIN net[h] : net'[h][i] = net[h][j]
    BY Remaining
  <2>2. net[h][j] \in Packet
    BY <1>2
  <2>3. net[h][j].rwnd \in 0 .. MaxU16
    BY <2>2 DEF Packet
  <2>4. Enough(h, net[h][j].rwnd)
    BY <1>0 DEF Windows
  <2> QED
    BY <1>1, <1>2, <2>1, <2>3, <2>4
<1>5. /\ \/ StoreWindow(h) \/ SetWindow(h)
         \/ /\ snd_wnd'[h] = snd_wnd[h]
            /\ state'[h] \notin Shaking \/ rx'[h].pc \in {"wake", "establish"} =>
                 state[h] \notin Shaking \/ rx[h].pc \in {"wake", "establish"}
      /\ rx'[h].pc \in {"old", "new"} =>
           \/ rx[h].pc \in {"old", "new"} /\ rx'[h].rwnd = rx[h].rwnd
           \/ net[h] # <<>> /\ rx'[h].rwnd = Head(net[h]).rwnd
      /\ app'[h].pc = "store" => LoadWindow(h) \/ app'[h] = app[h]
  BY <1>0, WindowSteps
<1>6. rx'[h].pc \in {"old", "new"} => rx'[h].rwnd >= Budget' + 1 - Len(sent'[h])
  <2>1. CASE rx[h].pc \in {"old", "new"} /\ rx'[h].rwnd = rx[h].rwnd
    <3>1. Enough(h, rx[h].rwnd)
      BY <1>0, <2>1 DEF Windows
    <3> QED
      BY <1>1, <1>2, <2>1, <3>1
  <2>2. CASE net[h] # <<>> /\ rx'[h].rwnd = Head(net[h]).rwnd
    <3>1. 1 \in DOMAIN net[h] /\ Head(net[h]) = net[h][1] /\ net[h][1] \in Packet
      BY <1>2, <2>2
    <3>2. net[h][1].rwnd \in 0 .. MaxU16 /\ Enough(h, net[h][1].rwnd)
      BY <1>0, <3>1 DEF Windows, Packet
    <3> QED
      BY <1>1, <1>2, <2>2, <3>1, <3>2
  <2> QED
    BY <1>5, <2>1, <2>2
<1>7. state'[h] \notin Shaking \/ rx'[h].pc \in {"wake", "establish"} =>
        snd_wnd'[h] >= Budget' + 1 - Len(sent'[h])
  <2>1. CASE StoreWindow(h)
    BY <1>0, <2>1, StoreEnough
  <2>2. CASE SetWindow(h)
    <3>1. snd_wnd'[h] = rx[h].rwnd /\ Enough(h, rx[h].rwnd)
      BY <1>0, <1>2, <2>2 DEF SetWindow, Windows
    <3> QED
      BY <1>1, <1>2, <3>1
  <2>3. CASE snd_wnd'[h] = snd_wnd[h] /\ (state[h] \notin Shaking \/ rx[h].pc \in {"wake", "establish"})
    <3>1. Enough(h, snd_wnd[h])
      BY <1>0, <2>3 DEF Windows
    <3> QED
      BY <1>1, <1>2, <2>3, <3>1
  <2> QED
    BY <1>5, <2>1, <2>2, <2>3
<1>8. app'[h].pc = "store" => app'[h].wnd >= Budget' + 1 - Len(sent'[h])
  <2>1. CASE LoadWindow(h)
    <3>1. app'[h].wnd = snd_wnd[h]
      BY <1>2, <2>1 DEF LoadWindow, Thread
    <3>2. app[h].pc = "load"
      BY <2>1 DEF LoadWindow, At
    <3>3. Enough(h, snd_wnd[h])
      BY <1>0, <3>2 DEF Windows, Handshake, Opening
    <3> QED
      BY <1>1, <1>2, <3>1, <3>3
  <2>2. CASE app'[h] = app[h] /\ app[h].pc = "store"
    <3>1. Enough(h, app[h].wnd) /\ app[h].wnd \in 0 .. MaxU16
      BY <1>0, <1>2, <2>2 DEF Windows, Thread
    <3> QED
      BY <1>1, <1>2, <2>2, <3>1
  <2> QED
    BY <1>5, <2>1, <2>2
<1> QED
  BY <1>3, <1>4, <1>6, <1>7, <1>8 DEF Windows, Enough

\* The windows of the other host: what the free room of the buffer is announced as.
LEMMA WindowsOther ==
  ASSUME Inv, Ample, Amply, NEW h \in Hosts, AppStep(h) \/ RxStep(h), NEW k \in Hosts, k = Other(h)
  PROVE  Windows(k)'
<1>0. /\ TypeOK /\ Place(h) /\ Handshake(h) /\ Windows(k) /\ Stream(h) /\ up[h]
      /\ ClientSent /\ ServerSent /\ \A j \in Hosts : Segments(j)
  BY DEF Inv, Amply, Segments
<1>1. \A w \in Int : Enough(k, w) => w >= Budget' + 1 - Len(sent'[k])
  BY <1>0, StillEnough
<1>2. /\ k # h /\ Other(k) = h /\ MaxU16 \in Nat /\ net[k] \in Seq(Packet)
      /\ rcv_wnd[h] \in 0 .. MaxU16 /\ snd_wnd[k] \in 0 .. MaxU16 /\ app[k] \in Thread
      /\ rx[k].rwnd \in 0 .. MaxU16 /\ DOMAIN rcv_wnd = Hosts /\ load \in Workloads
  BY <1>0, TwoHosts, U16 DEF TypeOK
<1>3. /\ app'[k] = app[k] /\ state'[k] = state[k] /\ rx'[k] = rx[k]
      /\ snd_wnd'[k] = snd_wnd[k] /\ sent'[k] = sent[k]
  BY <1>0, <1>2, OnlyMine
<1>4. Enough(k, rcv_wnd[h])
  BY <1>0, <1>2 DEF Windows
<1>5. rcv_wnd'[h] >= Budget' + 1 - Len(sent'[k])
  <2>1. CASE rcv_wnd'[h] = rcv_wnd[h]
    BY <1>1, <1>2, <1>4, <2>1
  <2>2. CASE UpdateRcvWindow(h)
    <3>1. PICK x \in Nat, y \in Nat, e \in Nat, q \in Nat, w \in Nat :
            /\ x = Len(got[h]) /\ y = Len(rcv_buf[h]) /\ e = Len(sent[k]) /\ q = Budget /\ w = load.window
            /\ x + y <= e /\ q <= w - 2
      BY <1>0, <1>2, Received, Left, LoadTypes
    <3>2. rcv_wnd'[h] = w - y - 1
      BY <1>2, <2>2, <3>1 DEF UpdateRcvWindow, ring_buffer_free
    <3>3. w - y - 1 >= q + 1 - e
      <4>1. x \in Nat /\ y \in Nat /\ e \in Nat /\ q \in Nat /\ w \in Nat /\ x + y <= e /\ q <= w - 2
        BY <3>1
      <4> QED
        BY <4>1
    <3>4. Budget' = Budget
      BY LoadStays, SameBytes DEF Budget
    <3> QED
      BY <1>3, <3>1, <3>2, <3>3, <3>4
  <2>3. UpdateRcvWindow(h) \/ rcv_wnd'[h] = rcv_wnd[h]
    BY <1>0, WindowSteps
  <2> QED
    BY <2>1, <2>2, <2>3
<1>6. ASSUME NEW i \in DOMAIN net'[k]
      PROVE  net'[k][i].rwnd >= Budget' + 1 - Len(sent'[k])
  <2>1. CASE net'[k] = net[k]
    <3>1. i \in DOMAIN net[k] /\ net[k][i] \in Packet
      BY <1>2, <2>1
    <3>2. net[k][i].rwnd \in 0 .. MaxU16
      BY <3>1 DEF Packet
    <3>3. Enough(k, net[k][i].rwnd)
      BY <1>0, <3>1 DEF Windows
    <3> QED
      BY <1>1, <1>2, <2>1, <3>2, <3>3
  <2>2. ASSUME NEW p \in Packet, net'[k] = Append(net[k], p), p.rwnd = rcv_wnd[h]
        PROVE  net'[k][i].rwnd >= Budget' + 1 - Len(sent'[k])
    <3>1. net'[k][i] = p \/ (i \in DOMAIN net[k] /\ net'[k][i] = net[k][i])
      BY <1>2, <2>2, PacketsAfter
    <3>2. CASE net'[k][i] = p
      BY <1>1, <1>2, <1>4, <2>2, <3>2
    <3>3. CASE i \in DOMAIN net[k] /\ net'[k][i] = net[k][i]
      <4>1. net[k][i] \in Packet
        BY <1>2, <3>3
      <4>2. net[k][i].rwnd \in 0 .. MaxU16
        BY <4>1 DEF Packet
      <4>3. Enough(k, net[k][i].rwnd)
        BY <1>0, <3>3 DEF Windows
      <4> QED
        BY <1>1, <1>2, <3>3, <4>2, <4>3
    <3> QED
      BY <3>1, <3>2, <3>3
  <2>3. net'[k] = net[k] \/ \E p \in Packet : net'[k] = Append(net[k], p) /\ p.rwnd = rcv_wnd[h]
    BY <1>0, Outgoing, Zenon
  <2> QED
    BY <2>1, <2>2, <2>3
<1>7. rx'[k].pc \in {"old", "new"} => rx'[k].rwnd >= Budget' + 1 - Len(sent'[k])
  <2>1. rx[k].pc \in {"old", "new"} => Enough(k, rx[k].rwnd)
    BY <1>0 DEF Windows
  <2> QED
    BY <1>1, <1>2, <1>3, <2>1
<1>8. state'[k] \notin Shaking \/ rx'[k].pc \in {"wake", "establish"} =>
        snd_wnd'[k] >= Budget' + 1 - Len(sent'[k])
  <2>1. state[k] \notin Shaking \/ rx[k].pc \in {"wake", "establish"} => Enough(k, snd_wnd[k])
    BY <1>0 DEF Windows
  <2> QED
    BY <1>1, <1>2, <1>3, <2>1
<1>9. app'[k].pc = "store" => app'[k].wnd >= Budget' + 1 - Len(sent'[k])
  <2>1. app[k].pc = "store" => Enough(k, app[k].wnd)
    BY <1>0 DEF Windows
  <2>2. app[k].wnd \in 0 .. MaxU16
    BY <1>2 DEF Thread
  <2> QED
    BY <1>1, <1>2, <1>3, <2>1, <2>2
<1> QED
  BY <1>2, <1>5, <1>6, <1>7, <1>8, <1>9 DEF Windows, Enough

\* write_ring_buffer has room for what comes: its assert holds.
LEMMA NoAssert ==
  ASSUME Inv, Ample, Amply, NEW h \in Hosts
  PROVE  ~ AssertFails(h)
<1> SUFFICES ASSUME AssertFails(h) PROVE FALSE
  OBVIOUS
<1>0. /\ TypeOK /\ Stream(h) /\ up[h] /\ ClientSent /\ ServerSent /\ \A j \in Hosts : Segments(j)
      /\ load \in Workloads /\ Other(h) \in Hosts /\ net[h] \in Seq(Packet)
  BY TwoHosts DEF Inv, Amply, Segments, TypeOK
<1>1. net[h] # <<>> /\ state[h] = "ESTABLISHED" /\ "PSH" \in Head(net[h]).flags
      /\ ~ Fits(rcv_buf[h], Head(net[h]).data)
  BY DEF AssertFails, Arriving
<1>2. PICK d \in Seq(Byte) : d = Head(net[h]).data
  <2>1. Head(net[h]) \in Packet
    BY <1>0, <1>1
  <2> QED
    BY <2>1 DEF Packet
<1>3. d # <<>>
  BY <1>0, <1>1, <1>2 DEF Segments
<1>4. PICK x \in Nat, y \in Nat, z \in Nat, e \in Nat :
        /\ x = Len(got[h]) /\ y = Len(rcv_buf[h]) /\ z = Len(d) /\ e = Len(sent[Other(h)])
        /\ x + y + z <= e
  BY <1>0, <1>1, <1>2, Received
<1>5. PICK q \in Nat, w \in Nat : q = Budget /\ w = load.window /\ q <= w - 2
  BY <1>0, Left, LoadTypes
<1>6. e <= q
  <2>1. PICK a \in Nat, b \in Nat : a = app[Other(h)].wlen /\ b = Len(app[Other(h)].buf) /\ a <= b /\ e + (b - a) <= q
    BY <1>0, <1>4, <1>5, Left
  <2>2. a <= b /\ e + (b - a) <= q
    BY <2>1
  <2> QED
    BY <2>2
<1>7. z > 0
  BY <1>3, <1>4
<1>8. w - y - 1 >= z
  <2>1. x + y + z <= e /\ e <= q /\ q <= w - 2
    BY <1>4, <1>5, <1>6
  <2> QED
    BY <2>1
<1> QED
  BY <1>1, <1>2, <1>4, <1>5, <1>7, <1>8 DEF Fits, ring_buffer_free

\* So no process ends.
LEMMA UpStays ==
  ASSUME Inv, Ample, Amply, NEW h \in Hosts, AppStep(h) \/ RxStep(h)
  PROVE  up' = up
<1>1. ~ AssertFails(h)
  BY NoAssert
<1>2. CASE OpenStep(h)
  BY <1>2 DEF OpenStep, Connect, Listen, AcceptTest, OpenSleep, OpenReturn
<1>3. CASE SendStep(h)
  BY <1>3 DEF SendStep, CheckWindow, SleepOn, CondWaitReturn, CompareWindow, TakeWindow, LoadWindow, StoreWindow, WriteReturns
<1>4. CASE ReadStep(h) \/ CloseStep(h)
  BY <1>4 DEF ReadStep, CloseStep, ReadNothing, ReadAsk, ReadSettle, ReadGet, UpdateRcvWindow, Close, SendFin
<1>5. CASE RxStep(h)
  BY <1>1, <1>5 DEF RxStep, ReceiveSyn, ReceiveSynAck, ReceiveAck, Establish, WakeOpened, ReceiveData,
                    ReadOldWindow, SetWindow, WakeSender, ReceiveFin, ReceiveInFinWait1, ReceiveInFinWait2
<1> QED
  BY <1>2, <1>3, <1>4, <1>5 DEF AppStep

\* In tcp_send_data the window is larger than what is left to send.
LEMMA RoomToSend ==
  ASSUME Inv, Ample, Amply, NEW h \in Hosts, app[h].pc \notin Opening
  PROVE  /\ snd_wnd[h] > Len(app[h].buf) - app[h].wlen /\ snd_wnd[h] >= 1 /\ snd_wnd[h] \in Nat
         /\ Len(app[h].buf) - app[h].wlen \in Nat
<1>0. /\ TypeOK /\ Handshake(h) /\ ClientSent /\ ServerSent /\ \A j \in Hosts : Segments(j)
      /\ Windows(h) /\ MaxU16 \in Nat
  BY U16 DEF Inv, Amply
<1>1. Enough(h, snd_wnd[h])
  BY <1>0 DEF Handshake, Windows
<1>2. PICK v \in Nat : v = snd_wnd[h]
  BY <1>0 DEF TypeOK
<1>3. PICK a \in Nat, b \in Nat, e \in Nat, q \in Nat :
        /\ a = app[h].wlen /\ b = Len(app[h].buf) /\ e = Len(sent[h]) /\ q = Budget
        /\ a <= b /\ e + (b - a) <= q
  BY <1>0, Left
<1>4. v >= q + 1 - e
  BY <1>1, <1>2, <1>3 DEF Enough
<1>5. a <= b /\ e + (b - a) <= q
  BY <1>3
<1>6. v > b - a /\ v >= 1 /\ b - a \in Nat
  BY <1>4, <1>5
<1> QED
  BY <1>2, <1>3, <1>6

\* What the steps of an application do to how much it has sent and got: most only
\* move on, ...
Onward(h) ==
  /\ sent'[h] = sent[h] /\ got'[h] = got[h]
  /\ app'[h].round = app[h].round /\ app'[h].buf = app[h].buf /\ app'[h].wlen = app[h].wlen
  /\ app'[h].pc \notin {"sleep", "asleep", "take"}
  /\ app'[h].pc \in {"load", "store"} => app'[h].seg \in 1 .. Len(app[h].buf) - app[h].wlen
  /\ h = "client" /\ app'[h].pc \in {"read", "settle", "get", "window", "close", "fin", "done"} => app[h].wlen = Len(app[h].buf)
  /\ app'[h].pc \in Opening => app[h].pc \in Opening
  /\ app'[h].pc \in {"read", "settle", "get"} =>
       app[h].pc \in Opening \cup {"read", "settle", "get"} \/ app[h].wlen = Len(app[h].buf)

\* ... one sends a segment, ...
Segment(h) ==
  /\ app[h].pc = "store" /\ got'[h] = got[h] /\ Len(sent'[h]) = Len(sent[h]) + app[h].seg
  /\ sent'[h] = sent[h] \o Payload(app[h].buf, app[h].wlen, app[h].seg)
  /\ app'[h].round = app[h].round /\ app'[h].buf = app[h].buf /\ app'[h].wlen = app[h].wlen + app[h].seg
  /\ app'[h].pc = "check"

\* ... one reads some bytes, which the server makes its answer of, ...
Reading(h) ==
  /\ sent'[h] = sent[h] /\ app[h].pc = "get" /\ app'[h].pc = "window"
  /\ \E n \in Nat \ {0} :
       /\ n \in 1 .. Len(rcv_buf[h]) /\ got'[h] = got[h] \o SubSeq(rcv_buf[h], 1, n)
       /\ Len(got'[h]) = Len(got[h]) + n
       /\ IF h = "server" THEN /\ app'[h].buf = Echo(SubSeq(rcv_buf[h], 1, n))
                               /\ Len(app'[h].buf) = load.banner + n /\ app'[h].wlen = 0
          ELSE app'[h].round = app[h].round /\ app'[h].buf = app[h].buf /\ app'[h].wlen = app[h].wlen

\* ... and two begin the client's next round.
Further(h) ==
  /\ h = "client" /\ app[h].pc \in {"read", "window"} /\ app'[h] = NextRound(app[h])
  /\ sent'[h] = sent[h] /\ got'[h] = got[h]

\* The steps that move on.
LEMMA OnwardSteps ==
  ASSUME Inv, Ample, Amply, NEW h \in Hosts,
         \/ OpenStep(h) \/ CheckWindow(h) \/ CompareWindow(h) \/ LoadWindow(h) \/ WriteReturns(h)
         \/ ReadAsk(h) \/ ReadSettle(h) \/ CloseStep(h)
  PROVE  Onward(h)
<1>0. /\ app \in [Hosts -> Thread] /\ app[h] \in Thread /\ TypeOK /\ Place(h) /\ ClientSent /\ ServerSent
      /\ \A j \in Hosts : Segments(j)
  BY DEF Inv, TypeOK, Amply
<1>1. CASE OpenStep(h)
  <2>1. sent' = sent /\ got' = got
    BY <1>1 DEF OpenStep, Connect, Listen, AcceptTest, OpenSleep, OpenReturn
  <2>2. \E pc \in {"accept", "wait", "waiting", "check", "read"} : Goto(h, pc) /\ (pc = "read" => h # "client")
    <3>1. Opened(h) \in {"check", "read"} /\ (Opened(h) = "read" => h # "client")
      BY DEF Opened
    <3>2. CASE (h = "client" /\ Connect) \/ (h = "server" /\ Listen)
      BY <1>1, <3>2 DEF OpenStep, Connect, Listen
    <3> QED
      BY <1>1, <3>1, <3>2 DEF OpenStep, AcceptTest, OpenSleep, OpenReturn
  <2>3. app[h].pc \in Opening
    BY <1>1 DEF OpenStep, Connect, Listen, AcceptTest, OpenSleep, OpenReturn, At, Opening
  <2> QED
    BY <1>0, <2>1, <2>2, <2>3, Moves DEF Onward, Opening
<1>2. CASE CheckWindow(h)
  <2>1. app[h].pc = "check" /\ snd_wnd[h] >= 1 /\ snd_wnd[h] \in Nat
    BY <1>2, RoomToSend DEF CheckWindow, At, Opening
  <2>2. Goto(h, "compare") /\ sent' = sent /\ got' = got
    BY <1>2, <2>1 DEF CheckWindow
  <2> QED
    BY <1>0, <2>2, Moves DEF Onward, Opening
<1>3. CASE CompareWindow(h)
  <2>1. app[h].pc = "compare" /\ sent' = sent /\ got' = got
    BY <1>3 DEF CompareWindow, At
  <2>2. PICK v \in Nat, l \in Nat : v = snd_wnd[h] /\ l = Len(app[h].buf) - app[h].wlen /\ l < v
    BY <2>1, RoomToSend DEF Opening
  <2>3. PICK w \in Nat : w = Wanted(app[h]) /\ w >= 1 /\ w <= l /\ (w < v => w \in 0 .. MaxU16)
    BY <1>0, <2>1, <2>2, WantedTypes
  <2>4. w < v /\ w \in 1 .. l /\ w \in 0 .. MaxU16
    BY <2>2, <2>3
  <2>5. app' = [app EXCEPT ![h].seg = w, ![h].pc = "load"]
    BY <1>3, <2>2, <2>3, <2>4 DEF CompareWindow
  <2>6. app'[h] = [app[h] EXCEPT !.seg = w, !.pc = "load"]
    BY <1>0, <2>5
  <2>7. /\ app'[h].round = app[h].round /\ app'[h].buf = app[h].buf /\ app'[h].wlen = app[h].wlen
        /\ app'[h].pc = "load" /\ app'[h].seg = w
    BY <1>0, <2>6 DEF Thread
  <2> QED
    BY <2>1, <2>2, <2>4, <2>7 DEF Onward, Opening
<1>4. CASE LoadWindow(h)
  <2>1. app[h].pc = "load" /\ sent' = sent /\ got' = got
        /\ app' = [app EXCEPT ![h].wnd = snd_wnd[h], ![h].pc = "store"]
    BY <1>4 DEF LoadWindow, At, sock
  <2>2. app'[h] = [app[h] EXCEPT !.wnd = snd_wnd[h], !.pc = "store"]
    BY <1>0, <2>1
  <2>3. /\ app'[h].round = app[h].round /\ app'[h].buf = app[h].buf /\ app'[h].wlen = app[h].wlen
        /\ app'[h].pc = "store" /\ app'[h].seg = app[h].seg
    BY <1>0, <2>2 DEF Thread
  <2>4. app[h].seg \in 1 .. Len(app[h].buf) - app[h].wlen
    BY <1>0, <2>1 DEF Segments
  <2> QED
    BY <2>1, <2>3, <2>4 DEF Onward, Opening
<1>5. CASE WriteReturns(h)
  <2>1. app[h].wlen >= Len(app[h].buf) /\ Goto(h, "read") /\ sent' = sent /\ got' = got
    BY <1>5 DEF WriteReturns
  <2>2. app[h].wlen = Len(app[h].buf)
    <3>1. PICK a \in Nat, b \in Nat : a = app[h].wlen /\ b = Len(app[h].buf) /\ a <= b
      BY <1>0, Left
    <3> QED
      BY <2>1, <3>1
  <2> QED
    BY <1>0, <2>1, <2>2, Moves DEF Onward, Opening
<1>6. CASE CloseStep(h)
  <2>1. sent' = sent /\ got' = got /\ app[h].pc \in {"close", "fin"}
    BY <1>6 DEF CloseStep, Close, SendFin, At, sock
  <2>2. \E pc \in {"fin", "done"} : Goto(h, pc)
    BY <1>6 DEF CloseStep, Close, SendFin
  <2>3. h = "client" => app[h].wlen = Len(app[h].buf)
    BY <1>0, <2>1 DEF ClientSent
  <2> QED
    BY <1>0, <2>1, <2>2, <2>3, Moves DEF Onward, Opening
<1>7. CASE ReadAsk(h) \/ ReadSettle(h)
  <2>1. sent' = sent /\ got' = got /\ app[h].pc \in {"read", "settle"}
    BY <1>7 DEF ReadAsk, ReadSettle, At, sock
  <2>2. /\ app'[h].round = app[h].round /\ app'[h].buf = app[h].buf /\ app'[h].wlen = app[h].wlen
        /\ app'[h].pc \in {"settle", "get"}
    BY <1>0, <1>7 DEF ReadAsk, ReadSettle, Goto, Thread
  <2>3. h = "client" => app[h].wlen = Len(app[h].buf)
    BY <1>0, <2>1 DEF ClientSent
  <2> QED
    BY <2>1, <2>2, <2>3 DEF Onward, Opening
<1> QED
  BY <1>1, <1>2, <1>3, <1>4, <1>5, <1>6, <1>7

\* The steps that send, read or go on to the next round.
LEMMA AmpleSteps ==
  ASSUME Inv, Ample, Amply, NEW h \in Hosts, AppStep(h)
  PROVE  Onward(h) \/ Segment(h) \/ Reading(h) \/ Further(h)
<1>0. /\ app \in [Hosts -> Thread] /\ app[h] \in Thread /\ TypeOK /\ Place(h) /\ load \in Workloads
      /\ DOMAIN app = Hosts /\ sent[h] \in Seq(Byte) /\ got[h] \in Seq(Byte) /\ rcv_buf[h] \in Seq(Byte)
      /\ DOMAIN sent = Hosts /\ DOMAIN got = Hosts
      /\ Segments(h) /\ MaxU16 \in Nat
  BY U16 DEF Inv, TypeOK, Amply
<1>1. CASE \/ OpenStep(h) \/ CheckWindow(h) \/ CompareWindow(h) \/ LoadWindow(h) \/ WriteReturns(h)
           \/ ReadAsk(h) \/ ReadSettle(h) \/ CloseStep(h)
  BY <1>1, OnwardSteps
<1>2. CASE SleepOn(h) \/ CondWaitReturn(h) \/ TakeWindow(h)
  BY <1>0, <1>2 DEF SleepOn, CondWaitReturn, TakeWindow, At, Segments
<1>3. CASE StoreWindow(h)
  <2>1. /\ app[h].buf \in Seq(Byte) /\ app[h].wlen \in Nat /\ app[h].seg \in Nat
    BY <1>0 DEF Thread
  <2>2. PICK data \in Seq(Byte) : data = Payload(app[h].buf, app[h].wlen, app[h].seg) /\ Len(data) = app[h].seg
    BY <1>0, <2>1, PayloadTypes
  <2>3. /\ sent'[h] = sent[h] \o data /\ got' = got /\ app[h].pc = "store"
        /\ app' = [app EXCEPT ![h].wlen = app[h].wlen + app[h].seg, ![h].pc = "check"]
    BY <1>0, <1>3, <2>2 DEF StoreWindow, At
  <2>4. Len(sent'[h]) = Len(sent[h]) + app[h].seg
    <3>1. Len(sent[h] \o data) = Len(sent[h]) + Len(data)
      BY <1>0, ConcatProperties
    <3> QED
      BY <2>2, <2>3, <3>1
  <2>5. PICK w \in Nat : w = app[h].wlen + app[h].seg
    BY <2>1
  <2>6. app'[h] = [app[h] EXCEPT !.wlen = w, !.pc = "check"]
    BY <1>0, <2>3, <2>5
  <2>7. /\ app'[h].round = app[h].round /\ app'[h].buf = app[h].buf /\ app'[h].wlen = w
        /\ app'[h].pc = "check"
    BY <1>0, <2>6 DEF Thread
  <2> QED
    BY <2>2, <2>3, <2>4, <2>5, <2>7 DEF Segment
<1>4. CASE ReadNothing(h)
  BY <1>0, <1>4 DEF ReadNothing, At, Further
<1>5. CASE UpdateRcvWindow(h)
  <2>1. app[h].pc = "window" /\ sent' = sent /\ got' = got
    BY <1>5 DEF UpdateRcvWindow, At
  <2>2. CASE h = "client"
    <3>1. app'[h] = NextRound(app[h])
      BY <1>0, <1>5, <2>2 DEF UpdateRcvWindow
    <3> QED
      BY <2>1, <2>2, <3>1 DEF Further
  <2>3. CASE h = "server"
    <3>1. app'[h] = [app[h] EXCEPT !.pc = "check"]
      BY <1>0, <1>5, <2>3 DEF UpdateRcvWindow
    <3>2. app'[h].round = app[h].round /\ app'[h].buf = app[h].buf /\ app'[h].wlen = app[h].wlen /\ app'[h].pc = "check"
      BY <1>0, <3>1 DEF Thread
    <3> QED
      BY <2>1, <2>3, <3>2 DEF Onward, Opening
  <2> QED
    BY <2>2, <2>3, TwoHosts
<1>6. CASE ReadGet(h)
  <2>1. app[h].pc = "get" /\ sent' = sent
    BY <1>6 DEF ReadGet, At
  <2>2. PICK n \in Nat \ {0} : n = app[h].seg /\ n \in 1 .. Len(rcv_buf[h])
    <3>1. app[h].seg \in 1 .. Len(rcv_buf[h]) /\ Len(rcv_buf[h]) \in Nat
      BY <1>0, <2>1 DEF Place, Asked
    <3> QED
      BY <3>1
  <2>3. PICK b \in Seq(Byte) : b = SubSeq(rcv_buf[h], 1, n) /\ Len(b) = n
    <3>1. \A i \in 1 .. n : rcv_buf[h][i] \in Byte
      BY <1>0, <2>2
    <3>2. SubSeq(rcv_buf[h], 1, n) \in Seq(Byte)
      BY <3>1, SubSeqProperties
    <3>3. Len(SubSeq(rcv_buf[h], 1, n)) = n
      BY <2>2, SubSeqProperties
    <3> QED
      BY <3>2, <3>3
  <2>4. /\ got'[h] = got[h] \o b
        /\ app' = [app EXCEPT ![h].pc = "window",
                              ![h].buf = IF h = "server" THEN Echo(b) ELSE @,
                              ![h].wlen = IF h = "server" THEN 0 ELSE @]
    BY <1>0, <1>6, <2>2, <2>3 DEF ReadGet
  <2>5. Len(got'[h]) = Len(got[h]) + n
    <3>1. Len(got[h] \o b) = Len(got[h]) + Len(b)
      BY <1>0, ConcatProperties
    <3> QED
      BY <2>3, <2>4, <3>1
  <2>6. CASE h = "server"
    <3>1. PICK e \in Seq(Byte) : e = Echo(b) /\ Len(e) = load.banner + n
      BY <1>0, <2>3, EchoTypes
    <3>2. app'[h] = [app[h] EXCEPT !.pc = "window", !.buf = e, !.wlen = 0]
      BY <1>0, <2>4, <2>6, <3>1
    <3>3. app'[h].pc = "window" /\ app'[h].buf = e /\ app'[h].wlen = 0
      BY <1>0, <3>2 DEF Thread
    <3> QED
      BY <2>1, <2>2, <2>3, <2>4, <2>5, <2>6, <3>1, <3>3 DEF Reading
  <2>7. CASE h # "server"
    <3>1. app'[h] = [app[h] EXCEPT !.pc = "window", !.buf = app[h].buf, !.wlen = app[h].wlen]
      BY <1>0, <2>4, <2>7
    <3>2. app'[h].pc = "window" /\ app'[h].buf = app[h].buf /\ app'[h].wlen = app[h].wlen /\ app'[h].round = app[h].round
      BY <1>0, <3>1 DEF Thread
    <3> QED
      BY <2>1, <2>2, <2>3, <2>4, <2>5, <2>7, <3>2 DEF Reading
  <2> QED
    BY <2>6, <2>7
<1> QED
  BY <1>1, <1>2, <1>3, <1>4, <1>5, <1>6 DEF AppStep, SendStep, ReadStep

\* Segments, in the host that steps ...
LEMMA SegmentsMine ==
  ASSUME Inv, Ample, Amply, NEW h \in Hosts, AppStep(h) \/ RxStep(h)
  PROVE  Segments(h)'
<1>0. /\ TypeOK /\ Place(h) /\ Segments(h) /\ app[h] \in Thread /\ load \in Workloads /\ up'[h] /\ MaxU16 \in Nat
      /\ ClientSent /\ ServerSent /\ \A j \in Hosts : Segments(j)
  BY UpStays, U16 DEF Inv, Amply, TypeOK, Segments
<1>1. ASSUME NEW i \in DOMAIN net'[h], "PSH" \in net'[h][i].flags
      PROVE  net'[h][i].data # <<>>
  <2>1. PICK j \in DOMAIN net[h] : net'[h][i] = net[h][j]
    BY Remaining
  <2> QED
    BY <1>0, <1>1, <2>1 DEF Segments
<1>2. CASE app'[h] = app[h]
  BY <1>0, <1>1, <1>2 DEF Segments
<1>3. CASE AppStep(h)
  <2>0. PICK a \in Nat, b \in Nat, s \in Nat : a = app[h].wlen /\ b = Len(app[h].buf) /\ s = app[h].seg /\ a <= b
    BY <1>0, Left DEF Thread
  <2>1. /\ app'[h].pc \notin {"sleep", "asleep", "take"}
        /\ app'[h].wlen <= Len(app'[h].buf)
        /\ app'[h].pc \in {"load", "store"} => app'[h].seg \in 1 .. Len(app'[h].buf) - app'[h].wlen
    <3>1. CASE Onward(h)
      BY <1>0, <2>0, <3>1 DEF Onward
    <3>2. CASE Segment(h)
      <4>1. s \in 1 .. b - a
        BY <1>0, <2>0, <3>2 DEF Segment, Segments
      <4>2. a + s <= b
        BY <4>1
      <4> QED
        BY <2>0, <3>2, <4>2 DEF Segment
    <3>3. CASE Reading(h)
      <4>1. CASE h = "server"
        <5>1. PICK n \in Nat : Len(app'[h].buf) = load.banner + n /\ app'[h].wlen = 0 /\ app'[h].pc = "window"
          BY <3>3, <4>1 DEF Reading
        <5>2. PICK m \in Nat : m = load.banner
          BY <1>0, LoadTypes
        <5> QED
          BY <5>1, <5>2
      <4>2. CASE h # "server"
        BY <2>0, <3>3, <4>2 DEF Reading
      <4> QED
        BY <4>1, <4>2
    <3>4. CASE Further(h)
      <4>1. /\ app'[h] = NextRound(app[h]) /\ app[h].round \in 1 .. load.writes
        BY <1>0, <3>4 DEF Further, Place, Located
      <4>2. NextRound(app[h]).pc \in {"check", "close"}
        BY <1>0, <4>1, NextRoundTypes
      <4>3. NextRound(app[h]).wlen <= Len(NextRound(app[h]).buf)
        <5>1. CASE app[h].round < load.writes
          <6>1. PICK r \in Nat : r = app[h].round + 1 /\ r \in 1 .. load.writes
            BY <1>0, <4>1, <5>1, LoadTypes
          <6>2. PICK z \in Seq(Byte) : z = ClientWrite(r)
            BY <1>0, <6>1, WriteTypes
          <6>3. NextRound(app[h]) = [app[h] EXCEPT !.round = r, !.buf = z, !.wlen = 0, !.pc = "check"]
            BY <5>1, <6>1, <6>2 DEF NextRound
          <6>4. NextRound(app[h]).wlen = 0 /\ NextRound(app[h]).buf = z
            BY <1>0, <6>3 DEF Thread
          <6> QED
            BY <6>4
        <5>2. CASE ~ (app[h].round < load.writes)
          <6>1. NextRound(app[h]) = [app[h] EXCEPT !.pc = "close"]
            BY <5>2 DEF NextRound
          <6>2. NextRound(app[h]).wlen = app[h].wlen /\ NextRound(app[h]).buf = app[h].buf
            BY <1>0, <6>1, SMTT(30) DEF Thread
          <6> QED
            BY <2>0, <6>2
        <5> QED
          BY <5>1, <5>2
      <4> QED
        BY <4>1, <4>2, <4>3
    <3> QED
      BY <1>3, <3>1, <3>2, <3>3, <3>4, AmpleSteps
  <2> QED
    BY <1>0, <1>1, <2>1 DEF Segments
<1>4. RxStep(h) => app'[h] = app[h]
  BY Zenon DEF RxStep, ReceiveSyn, ReceiveSynAck, ReceiveAck, Establish, WakeOpened, ReceiveData, AssertFails,
         ReadOldWindow, SetWindow, WakeSender, ReceiveFin, ReceiveInFinWait1, ReceiveInFinWait2
<1> QED
  BY <1>2, <1>3, <1>4

\* ... and in the other.
LEMMA SegmentsOther ==
  ASSUME Inv, Ample, Amply, NEW h \in Hosts, AppStep(h) \/ RxStep(h), NEW k \in Hosts, k = Other(h)
  PROVE  Segments(k)'
<1>0. /\ TypeOK /\ Segments(k) /\ Segments(h) /\ k # h /\ net[k] \in Seq(Packet)
  BY TwoHosts DEF Inv, Amply, TypeOK
<1>1. app'[k] = app[k] /\ up'[k] = up[k]
  BY <1>0, OnlyMine
<1>2. ASSUME NEW i \in DOMAIN net'[k], "PSH" \in net'[k][i].flags
      PROVE  net'[k][i].data # <<>>
  <2>1. CASE net'[k] = net[k]
    BY <1>0, <1>2, <2>1 DEF Segments
  <2>2. ASSUME NEW p \in Packet, net'[k] = Append(net[k], p),
               "PSH" \in p.flags => app[h].pc = "store" /\ Len(p.data) = app[h].seg
        PROVE  net'[k][i].data # <<>>
    <3>1. net'[k][i] = p \/ (i \in DOMAIN net[k] /\ net'[k][i] = net[k][i])
      BY <1>0, <2>2, PacketsAfter
    <3>2. CASE net'[k][i] = p
      <4>1. app[h].pc = "store" /\ Len(p.data) = app[h].seg
        BY <1>2, <2>2, <3>2
      <4>2. app[h].seg \in 1 .. Len(app[h].buf) - app[h].wlen
        BY <1>0, <4>1 DEF Segments
      <4>3. Len(p.data) # 0
        BY <4>1, <4>2
      <4> QED
        BY <3>2, <4>3
    <3>3. CASE i \in DOMAIN net[k] /\ net'[k][i] = net[k][i]
      BY <1>0, <1>2, <3>3 DEF Segments
    <3> QED
      BY <3>1, <3>2, <3>3
  <2>3. net'[k] = net[k] \/ \E p \in Packet : /\ net'[k] = Append(net[k], p)
                                              /\ "PSH" \in p.flags => app[h].pc = "store" /\ Len(p.data) = app[h].seg
    BY <1>0, Outgoing, Zenon
  <2> QED
    BY <2>1, <2>2, <2>3
<1> QED
  BY <1>0, <1>1, <1>2 DEF Segments

\* The next round, or the end of the last.
LEMMA NextRoundSent ==
  ASSUME load \in Workloads, NEW a \in Thread, a.round \in 1 .. load.writes
  PROVE  \/ /\ a.round + 1 \in 1 .. load.writes
            /\ NextRound(a).round = a.round + 1 /\ NextRound(a).buf = ClientWrite(a.round + 1)
            /\ NextRound(a).wlen = 0 /\ NextRound(a).pc = "check"
         \/ /\ NextRound(a).round = a.round /\ NextRound(a).buf = a.buf
            /\ NextRound(a).wlen = a.wlen /\ NextRound(a).pc = "close"
<1>1. CASE a.round < load.writes
  <2>1. PICK r \in Nat : r = a.round + 1 /\ r \in 1 .. load.writes
    BY <1>1, LoadTypes
  <2>2. PICK z \in Seq(Byte) : z = ClientWrite(r)
    BY <2>1, WriteTypes
  <2>3. NextRound(a) = [a EXCEPT !.round = r, !.buf = z, !.wlen = 0, !.pc = "check"]
    BY <1>1, <2>1, <2>2 DEF NextRound
  <2>4. NextRound(a).round = r /\ NextRound(a).wlen = 0 /\ NextRound(a).buf = z /\ NextRound(a).pc = "check"
    BY <2>3 DEF Thread
  <2> QED
    BY <2>1, <2>2, <2>4
<1>2. CASE ~ (a.round < load.writes)
  <2>1. NextRound(a) = [a EXCEPT !.pc = "close"]
    BY <1>2 DEF NextRound
  <2> QED
    BY <2>1 DEF Thread
<1> QED
  BY <1>1, <1>2

\* What the client has sent: its rounds so far, and what this one has.
LEMMA ClientSentStep ==
  ASSUME Inv, Ample, Amply, NEW h \in Hosts, AppStep(h) \/ RxStep(h)
  PROVE  ClientSent'
<1>0. /\ TypeOK /\ Place(h) /\ ClientSent /\ load \in Workloads /\ app[h] \in Thread /\ load' = load
      /\ "client" \in Hosts /\ sent["client"] \in Seq(Byte)
  BY TwoHosts, LoadStays DEF Inv, Amply, TypeOK
<1>1. PICK n \in Nat : n = load.len
  BY <1>0, LoadTypes
<1>2. CASE app'["client"] = app["client"] /\ sent'["client"] = sent["client"]
  BY <1>0, <1>2 DEF ClientSent
<1>3. CASE h = "client" /\ AppStep(h)
  <2>0. PICK w \in Nat, e \in Nat, r \in 1 .. load.writes, s \in Nat :
          /\ w = app[h].wlen /\ e = Len(sent[h]) /\ r = app[h].round /\ s = app[h].seg
          /\ r \in Nat /\ load.writes \in Nat
    <3>1. PICK w \in Nat, s \in Nat : w = app[h].wlen /\ s = app[h].seg
      BY <1>0, U16 DEF Thread
    <3>2. PICK e \in Nat : e = Len(sent[h])
      BY <1>0, <1>3
    <3>3. load.writes \in Nat
      BY <1>0, LoadTypes
    <3>4. PICK r \in 1 .. load.writes : r = app[h].round
      BY <1>0 DEF Place, Located
    <3>5. r \in Nat
      BY <3>3
    <3> QED
      BY <3>1, <3>2, <3>3, <3>4, <3>5
  <2>1. /\ Len(app[h].buf) = n /\ e = (r - 1) * n + w
        /\ app[h].pc \in {"read", "settle", "get", "window", "close", "fin", "done"} => w = n
    BY <1>0, <1>1, <1>3, <2>0 DEF ClientSent
  <2>2. /\ Len(app'[h].buf) = n
        /\ Len(sent'[h]) = (app'[h].round - 1) * n + app'[h].wlen
        /\ app'[h].pc \in {"read", "settle", "get", "window", "close", "fin", "done"} => app'[h].wlen = n
    <3>1. CASE Onward(h)
      BY <1>3, <2>0, <2>1, <3>1 DEF Onward
    <3>2. CASE Segment(h)
      <4>1. PICK p \in Nat : p = (r - 1) * n
        BY <1>1, <2>0, Rounds
      <4>2. e + s = p + (w + s)
        BY <2>1, <4>1
      <4> QED
        BY <2>0, <2>1, <3>2, <4>1, <4>2 DEF Segment
    <3>3. CASE Reading(h)
      <4>1. /\ sent'[h] = sent[h] /\ app[h].pc = "get"
            /\ app'[h].round = app[h].round /\ app'[h].buf = app[h].buf /\ app'[h].wlen = app[h].wlen
        BY <1>3, <3>3 DEF Reading
      <4> QED
        BY <2>0, <2>1, <4>1
    <3>4. CASE Further(h)
      <4>1. /\ app[h].pc \in {"read", "window"} /\ app'[h] = NextRound(app[h]) /\ sent'[h] = sent[h]
        BY <3>4 DEF Further
      <4>2. CASE /\ r + 1 \in 1 .. load.writes
                 /\ app'[h].round = r + 1 /\ app'[h].buf = ClientWrite(r + 1)
                 /\ app'[h].wlen = 0 /\ app'[h].pc = "check"
        <5>1. Len(ClientWrite(r + 1)) = n
          BY <1>0, <1>1, <4>2, WriteTypes
        <5>2. e = r * n /\ r * n \in Nat
          BY <1>1, <2>0, <2>1, <4>1, Rounds, ZenonT(30)
        <5>3. ((r + 1) - 1) * n + 0 = r * n
          <6>1. (r + 1) - 1 = r
            BY <2>0
          <6>2. PICK t \in Nat : t = r * n
            BY <5>2
          <6> QED
            BY <6>1, <6>2
        <5> QED
          BY <2>0, <4>1, <4>2, <5>1, <5>2, <5>3
      <4>3. CASE /\ app'[h].round = r /\ app'[h].buf = app[h].buf
                 /\ app'[h].wlen = w /\ app'[h].pc = "close"
        BY <2>0, <2>1, <4>1, <4>3, Zenon
      <4> QED
        BY <1>0, <2>0, <4>1, <4>2, <4>3, NextRoundSent
    <3> QED
      BY <1>3, <3>1, <3>2, <3>3, <3>4, AmpleSteps
  <2> QED
    BY <1>0, <1>1, <1>3, <2>2 DEF ClientSent
<1>4. (app'["client"] = app["client"] /\ sent'["client"] = sent["client"]) \/ (h = "client" /\ AppStep(h))
  <2>1. RxStep(h) => app' = app /\ sent' = sent
    BY Zenon DEF RxStep, ReceiveSyn, ReceiveSynAck, ReceiveAck, Establish, WakeOpened, ReceiveData, AssertFails,
           ReadOldWindow, SetWindow, WakeSender, ReceiveFin, ReceiveInFinWait1, ReceiveInFinWait2
  <2>2. h # "client" => app'["client"] = app["client"] /\ sent'["client"] = sent["client"]
    BY <1>0, OnlyMine
  <2> QED
    BY <2>1, <2>2
<1> QED
  BY <1>2, <1>3, <1>4

\* What the server has sent and has still to send: no more than the answers to what it has got.
LEMMA ServerSentStep ==
  ASSUME Inv, Ample, Amply, NEW h \in Hosts, AppStep(h) \/ RxStep(h)
  PROVE  ServerSent'
<1>0. /\ TypeOK /\ Place(h) /\ ServerSent /\ load \in Workloads /\ app[h] \in Thread /\ load' = load
      /\ "server" \in Hosts /\ ClientSent /\ \A j \in Hosts : Segments(j)
  BY TwoHosts, LoadStays DEF Inv, Amply, TypeOK
<1>1. PICK b \in Nat : b = load.banner
  BY <1>0, LoadTypes
<1>2. CASE app'["server"] = app["server"] /\ sent'["server"] = sent["server"] /\ got'["server"] = got["server"]
  BY <1>0, <1>2 DEF ServerSent
<1>3. CASE h = "server" /\ AppStep(h)
  <2>0. PICK w \in Nat, l \in Nat, e \in Nat, s \in Nat, g \in Nat :
          /\ w = app[h].wlen /\ l = Len(app[h].buf) /\ e = Len(sent[h]) /\ s = app[h].seg /\ g = Len(got[h])
          /\ w <= l
    <3>1. PICK g \in Nat : g = Len(got[h])
      BY <1>0 DEF TypeOK
    <3>2. PICK s \in Nat : s = app[h].seg
      BY <1>0, U16 DEF Thread
    <3> QED
      BY <1>0, <3>1, <3>2, Left
  <2>1. e + l - w <= g * (1 + b)
    BY <1>0, <1>1, <1>3, <2>0 DEF ServerSent
  <2>2. PICK u \in Nat : u = g * (1 + b) /\ e + l - w <= u
    <3>1. g * (1 + b) \in Nat
      OBVIOUS
    <3> QED
      BY <2>1, <3>1
  <2>3. Len(sent'[h]) + Len(app'[h].buf) - app'[h].wlen <= Len(got'[h]) * (1 + b)
    <3>1. CASE Onward(h)
      BY <2>0, <2>1, <3>1 DEF Onward
    <3>2. CASE Segment(h)
      <4>1. (e + s) + l - (w + s) <= u
        BY <2>2
      <4> QED
        BY <2>0, <2>2, <3>2, <4>1 DEF Segment
    <3>3. CASE Reading(h)
      <4>1. PICK n \in Nat \ {0} : /\ Len(got'[h]) = Len(got[h]) + n
                                   /\ Len(app'[h].buf) = load.banner + n /\ app'[h].wlen = 0
        BY <1>3, <3>3 DEF Reading
      <4>2. sent'[h] = sent[h]
        BY <3>3 DEF Reading
      <4>3. e <= u
        <5>1. w <= l /\ e + l - w <= u
          BY <2>0, <2>2
        <5> QED
          BY <5>1
      <4>4. PICK v \in Nat : v = (g + n) * (1 + b) /\ u + b + n <= v
        <5>1. g * (1 + b) + b + n <= (g + n) * (1 + b) /\ (g + n) * (1 + b) \in Nat
          BY OneMoreAnswer
        <5> QED
          BY <2>2, <5>1
      <4>5. e + (b + n) - 0 <= v
        BY <4>3, <4>4
      <4> QED
        BY <1>1, <2>0, <4>1, <4>2, <4>4, <4>5
    <3>4. CASE Further(h)
      BY <1>3, <3>4 DEF Further
    <3> QED
      BY <1>3, <3>1, <3>2, <3>3, <3>4, AmpleSteps
  <2> QED
    BY <1>0, <1>1, <1>3, <2>3 DEF ServerSent
<1>4. \/ app'["server"] = app["server"] /\ sent'["server"] = sent["server"] /\ got'["server"] = got["server"]
      \/ h = "server" /\ AppStep(h)
  <2>1. RxStep(h) => app' = app /\ sent' = sent /\ got' = got
    BY Zenon DEF RxStep, ReceiveSyn, ReceiveSynAck, ReceiveAck, Establish, WakeOpened, ReceiveData, AssertFails,
           ReadOldWindow, SetWindow, WakeSender, ReceiveFin, ReceiveInFinWait1, ReceiveInFinWait2
  <2>2. h # "server" => app'["server"] = app["server"] /\ sent'["server"] = sent["server"] /\ got'["server"] = got["server"]
    BY <1>0, OnlyMine
  <2> QED
    BY <2>1, <2>2
<1> QED
  BY <1>2, <1>3, <1>4

\* The first state.
LEMMA AmpleAtFirst == ASSUME Init, Ample PROVE Amply
<1>0. load \in Workloads
  BY DEF Init
<1>1. PICK n \in Nat, m \in Nat, b \in Nat, w \in Nat :
        /\ n = load.len /\ m = load.writes /\ b = load.banner /\ w = load.window /\ 1 \in 1 .. m
  BY <1>0, LoadTypes
<1>2. PICK q \in Nat : q = Budget /\ q <= w - 2
  <2>1. Budget = (m * n) * (1 + b)
    BY <1>1 DEF Budget, Total
  <2>2. Budget \in Nat
    BY <1>1, <2>1, Rounds
  <2>3. Budget <= w - 2
    BY <1>1 DEF Ample, Budget
  <2> QED
    BY <2>2, <2>3
<1>3. ClientWrite(1) \in Seq(Byte) /\ Len(ClientWrite(1)) = n
  BY <1>0, <1>1, WriteTypes
<1>4. /\ app["client"].pc = "connect" /\ app["client"].round = 1 /\ app["client"].buf = ClientWrite(1)
      /\ app["client"].wlen = 0
  BY TwoHosts DEF Init
<1>5. /\ app["server"].pc = "listen" /\ app["server"].buf = <<>> /\ app["server"].wlen = 0
  BY TwoHosts DEF Init
<1>6. \A h \in Hosts : sent[h] = <<>> /\ got[h] = <<>> /\ net[h] = <<>> /\ up[h] /\ rcv_wnd[h] = w
                       /\ rx[h].pc = "idle" /\ state[h] = "CLOSED"
  BY <1>1 DEF Init
<1>7. ClientSent
  <2>1. Len(sent["client"]) = 0
    BY <1>6, TwoHosts
  <2>2. (1 - 1) * n + 0 = 0
    BY <1>1
  <2> QED
    BY <1>1, <1>3, <1>4, <2>1, <2>2 DEF ClientSent
<1>8. ServerSent
  <2>1. Len(sent["server"]) = 0 /\ Len(got["server"]) = 0 /\ Len(app["server"].buf) = 0
    BY <1>5, <1>6, TwoHosts
  <2>2. 0 * (1 + b) = 0
    OBVIOUS
  <2> QED
    BY <1>1, <1>5, <2>1, <2>2 DEF ServerSent
<1>9. ASSUME NEW h \in Hosts PROVE Windows(h) /\ Segments(h)
  <2>1. app[h].pc \in {"connect", "listen"} /\ app[h].wlen = 0
    BY <1>4, <1>5, TwoHosts
  <2>2. Len(app[h].buf) \in Nat
    BY <1>1, <1>3, <1>4, <1>5, TwoHosts
  <2>3. DOMAIN net[h] = {}
    BY <1>6
  <2>4. rcv_wnd[Other(h)] = w /\ Len(sent[h]) = 0
    BY <1>6, TwoHosts
  <2>5. w >= q + 1 - 0
    BY <1>2
  <2>6. Windows(h)
    BY <1>2, <1>6, <2>1, <2>3, <2>4, <2>5 DEF Windows, Enough, Shaking
  <2>7. Segments(h)
    BY <1>6, <2>1, <2>2, <2>3 DEF Segments
  <2> QED
    BY <2>6, <2>7
<1> QED
  BY <1>7, <1>8, <1>9 DEF Amply

\* The invariant of an ample window.
LEMMA AmpleStays == ASSUME Inv, InvAmple, [Next]_vars PROVE InvAmple'
<1>1. CASE UNCHANGED vars
  <2>1. Ample' = Ample /\ Budget' = Budget
    BY <1>1 DEF vars, Ample, Budget, Total
  <2>2. ClientSent => ClientSent'
    BY <1>1 DEF vars, ClientSent
  <2>3. ServerSent => ServerSent'
    BY <1>1 DEF vars, ServerSent
  <2>4. \A h \in Hosts : Segments(h) => Segments(h)'
    BY <1>1 DEF vars, Segments
  <2>5. \A h \in Hosts : Windows(h) => Windows(h)'
    BY <1>1, <2>1 DEF vars, Windows, Enough
  <2> QED
    BY <2>1, <2>2, <2>3, <2>4, <2>5 DEF InvAmple, Amply
<1>2. ASSUME NEW h \in Hosts, AppStep(h) \/ RxStep(h) PROVE InvAmple'
  <2>1. CASE Ample
    <3>1. Amply
      BY <2>1 DEF InvAmple, Amply
    <3>2. ClientSent' /\ ServerSent'
      BY <1>2, <2>1, <3>1, ClientSentStep, ServerSentStep
    <3>3. ASSUME NEW k \in Hosts PROVE Windows(k)' /\ Segments(k)'
      <4>1. CASE k = h
        BY <1>2, <2>1, <3>1, <4>1, WindowsMine, SegmentsMine
      <4>2. CASE k = Other(h)
        BY <1>2, <2>1, <3>1, <4>2, WindowsOther, SegmentsOther
      <4> QED
        BY <4>1, <4>2, TwoHosts
    <3> QED
      BY <3>2, <3>3 DEF InvAmple, Amply, Hosts
  <2>2. CASE ~ Ample
    <3>1. Ample' = Ample
      BY <1>2, LoadStays, SameBytes DEF Inv, TypeOK
    <3> QED
      BY <2>2, <3>1 DEF InvAmple
  <2> QED
    BY <2>1, <2>2
<1> QED
  BY <1>1, <1>2 DEF Next

\* WindowSuffices: with an ample window no assert of write_ring_buffer fails, nobody
\* sleeps for window, and the two reads of snd_wnd that min3 makes never yield nothing
\* or more than what is left.
THEOREM WindowIsEnough == Spec => []WindowSuffices
<1>1. Init => InvAmple
  BY AmpleAtFirst DEF InvAmple, Amply
<1>2. Inv /\ InvAmple /\ [Next]_vars => InvAmple'
  BY AmpleStays
<1>3. InvAmple => WindowSuffices
  BY DEF InvAmple, Amply, WindowSuffices, Segments
<1> QED
  BY <1>1, <1>2, <1>3, AlwaysInv, PTL DEF Spec

-----------------------------------------------------------------------------
(* The echo, when the window is ample.                                      *)

\* Text: what it is of a sequence of bytes, ...
LEMMA TextTypes ==
  ASSUME NEW b \in Seq(Byte)
  PROVE  Pieces(b) \in Seq(Seq(Byte)) /\ Len(Pieces(b)) = Len(b) /\ Text(b) \in Seq(Byte)
<1>1. \A i \in 1 .. Len(b) : (IF b[i] = Banner THEN <<>> ELSE <<b[i]>>) \in Seq(Byte)
  OBVIOUS
<1>2. Pieces(b) \in [1 .. Len(b) -> Seq(Byte)]
  BY <1>1 DEF Pieces
<1>3. Pieces(b) \in Seq(Seq(Byte)) /\ Len(Pieces(b)) = Len(b)
  BY <1>2
<1> QED
  BY <1>3, FlattenType DEF Text

\* ... of two one after the other, ...
LEMMA TextConcat ==
  ASSUME NEW a \in Seq(Byte), NEW b \in Seq(Byte)
  PROVE  Text(a \o b) = Text(a) \o Text(b)
<1>0. /\ Pieces(a) \in Seq(Seq(Byte)) /\ Len(Pieces(a)) = Len(a)
      /\ Pieces(b) \in Seq(Seq(Byte)) /\ Len(Pieces(b)) = Len(b)
      /\ a \o b \in Seq(Byte)
  BY TextTypes, ConcatProperties
<1>1. Len(a \o b) = Len(a) + Len(b) /\ \A i \in 1 .. Len(a) + Len(b) : (a \o b)[i] = IF i <= Len(a) THEN a[i] ELSE b[i - Len(a)]
  BY ConcatProperties
<1>2. Pieces(a \o b) = Pieces(a) \o Pieces(b)
  <2>1. /\ Len(Pieces(a) \o Pieces(b)) = Len(a) + Len(b) /\ Pieces(a) \o Pieces(b) \in Seq(Seq(Byte))
        /\ \A i \in 1 .. Len(a) + Len(b) :
             (Pieces(a) \o Pieces(b))[i] = IF i <= Len(a) THEN Pieces(a)[i] ELSE Pieces(b)[i - Len(a)]
    <3>1. PICK p \in Seq(Seq(Byte)), q \in Seq(Seq(Byte)) : p = Pieces(a) /\ q = Pieces(b)
      BY <1>0
    <3>2. /\ p \o q \in Seq(Seq(Byte)) /\ Len(p \o q) = Len(p) + Len(q)
          /\ \A i \in 1 .. Len(p) + Len(q) : (p \o q)[i] = IF i <= Len(p) THEN p[i] ELSE q[i - Len(p)]
      BY ConcatProperties
    <3>3. Len(p) = Len(a) /\ Len(q) = Len(b)
      BY <1>0, <3>1
    <3> QED
      BY <3>1, <3>2, <3>3
  <2>2. Pieces(a \o b) \in Seq(Seq(Byte)) /\ Len(Pieces(a \o b)) = Len(a) + Len(b)
    BY <1>0, <1>1, TextTypes
  <2>3. ASSUME NEW i \in 1 .. Len(a) + Len(b)
        PROVE  Pieces(a \o b)[i] = (Pieces(a) \o Pieces(b))[i]
    <3>1. i \in DOMAIN (a \o b)
      BY <1>0, <1>1
    <3>2. Pieces(a \o b)[i] = IF (a \o b)[i] = Banner THEN <<>> ELSE <<(a \o b)[i]>>
      BY <3>1 DEF Pieces
    <3>3. CASE i <= Len(a)
      <4>1. i \in DOMAIN a /\ (a \o b)[i] = a[i]
        BY <1>1, <3>3
      <4>2. Pieces(a)[i] = IF a[i] = Banner THEN <<>> ELSE <<a[i]>>
        BY <4>1 DEF Pieces
      <4> QED
        BY <2>1, <3>2, <3>3, <4>1, <4>2
    <3>4. CASE ~ (i <= Len(a))
      <4>1. i - Len(a) \in DOMAIN b /\ (a \o b)[i] = b[i - Len(a)]
        BY <1>1, <3>4
      <4>2. Pieces(b)[i - Len(a)] = IF b[i - Len(a)] = Banner THEN <<>> ELSE <<b[i - Len(a)]>>
        BY <4>1 DEF Pieces
      <4> QED
        BY <2>1, <3>2, <3>4, <4>1, <4>2
    <3> QED
      BY <3>3, <3>4
  <2> QED
    BY <2>1, <2>2, <2>3, SeqEqual
<1> QED
  BY <1>0, <1>2, FlattenConcat DEF Text

\* ... of bytes none of which is from the banner, ...
LEMMA TextPlain ==
  ASSUME NEW b \in Seq(Byte), \A i \in 1 .. Len(b) : b[i] # Banner
  PROVE  Text(b) = b
<1>1. Pieces(b) = [i \in DOMAIN b |-> <<b[i]>>]
  BY DEF Pieces
<1> QED
  BY <1>1, FlattenOnes DEF Text

\* ... and of the server's answer.
LEMMA TextEcho ==
  ASSUME load \in Workloads, NEW b \in Seq(Byte), \A i \in 1 .. Len(b) : b[i] # Banner
  PROVE  Text(Echo(b)) = b
<1>1. PICK n \in Nat : n = load.banner
  BY LoadTypes
<1>2. Banner \in Byte
  BY LoadTypes
<1> DEFINE z == [i \in 1 .. n |-> Banner]
<1>3. z \in Seq(Byte)
  BY <1>2
<1>4. Text(z) = <<>>
  <2>1. Pieces(z) = [i \in 1 .. n |-> <<>>]
    BY DEF Pieces
  <2> QED
    BY <2>1, FlattenNothing DEF Text
<1>5. Echo(b) = z \o b
  BY <1>1 DEF Echo
<1> HIDE DEF z
<1>6. Text(z \o b) = <<>> \o b
  BY <1>3, <1>4, TextConcat, TextPlain
<1>7. <<>> \o b = b
  BY ConcatEmptySeq
<1> QED
  BY <1>5, <1>6, <1>7

\* The segment that tcp_send_data copies when it has not misread the window.
LEMMA SegmentOf ==
  ASSUME load \in Workloads, NEW buf \in Seq(Byte), NEW w \in Nat, NEW s \in 1 .. Len(buf) - w
  PROVE  /\ Payload(buf, w, s) \in Seq(Byte) /\ Rest(buf, w) \in Seq(Byte) /\ Rest(buf, w + s) \in Seq(Byte)
         /\ Rest(buf, w) = Payload(buf, w, s) \o Rest(buf, w + s)
         /\ Len(Payload(buf, w, s)) = s /\ \A i \in 1 .. s : w + i \in 1 .. Len(buf) /\ Payload(buf, w, s)[i] = buf[w + i]
<1>1. PICK l \in Nat : l = Len(buf) /\ s \in Nat /\ w + s <= l /\ w + 1 <= l
  <2>1. Len(buf) \in Nat /\ s \in Nat /\ s <= Len(buf) - w /\ s >= 1
    OBVIOUS
  <2> QED
    BY <2>1
<1>2. \A i \in 1 .. l : buf[i] \in Byte
  BY <1>1
<1>3. \A i \in 1 .. s : w + i \in 1 .. l /\ w + i \in DOMAIN buf
  BY <1>1
<1>4. Payload(buf, w, s) \in Seq(Byte) /\ Len(Payload(buf, w, s)) = s
  BY <1>1, PayloadTypes
<1>5. \A i \in 1 .. s : Payload(buf, w, s)[i] = buf[w + i]
  BY <1>3 DEF Payload
<1>6. /\ SubSeq(buf, w + 1, w + s) \in Seq(Byte)
      /\ Len(SubSeq(buf, w + 1, w + s)) = s
      /\ \A i \in 1 .. s : SubSeq(buf, w + 1, w + s)[i] = buf[w + i]
  <2>1. w + 1 \in Int /\ w + s \in Int /\ w + 1 <= w + s /\ (w + s) - (w + 1) + 1 = s
    BY <1>1
  <2>2. \A i \in w + 1 .. w + s : buf[i] \in Byte
    BY <1>1, <1>2
  <2>3. /\ SubSeq(buf, w + 1, w + s) \in Seq(Byte)
        /\ Len(SubSeq(buf, w + 1, w + s)) = (w + s) - (w + 1) + 1
        /\ \A i \in 1 .. (w + s) - (w + 1) + 1 : SubSeq(buf, w + 1, w + s)[i] = buf[(w + 1) + i - 1]
    BY <2>1, <2>2, SubSeqProperties
  <2> QED
    BY <1>1, <2>1, <2>3, SMTT(30)
<1>7. Payload(buf, w, s) = SubSeq(buf, w + 1, w + s)
  BY <1>4, <1>5, <1>6, SeqEqual
<1>8. Rest(buf, w) \in Seq(Byte) /\ Rest(buf, w + s) \in Seq(Byte)
  BY <1>1, <1>2, SubSeqProperties DEF Rest
<1>9. SubSeq(buf, w + 1, w + s) \o SubSeq(buf, (w + s) + 1, Len(buf)) = SubSeq(buf, w + 1, Len(buf))
  <2>1. w + 1 \in 1 .. Len(buf) + 1 /\ w + s \in w + 1 - 1 .. Len(buf) /\ Len(buf) \in w + s .. Len(buf)
    BY <1>1
  <2> QED
    BY <1>1, <2>1, ConcatAdjacentSubSeq
<1> QED
  BY <1>1, <1>3, <1>4, <1>5, <1>7, <1>8, <1>9 DEF Rest

\* What a host has taken is the beginning of what the other has sent.
LEMMA TakenIsSent ==
  ASSUME TypeOK, NEW h \in Hosts, Stream(h), up[h]
  PROVE  /\ got[h] \o rcv_buf[h] \in Seq(Byte) /\ IsPrefix(got[h] \o rcv_buf[h], sent[Other(h)])
         /\ IsPrefix(got[h], sent[Other(h)])
<1>1. /\ net[h] \in Seq(Packet) /\ got[h] \in Seq(Byte) /\ rcv_buf[h] \in Seq(Byte) /\ sent[Other(h)] \in Seq(Byte)
  BY TwoHosts DEF TypeOK
<1>2. PICK g \in Seq(Byte), b \in Seq(Byte), e \in Seq(Byte) : g = got[h] /\ b = rcv_buf[h] /\ e = sent[Other(h)]
  BY <1>1
<1>3. PICK held \in Seq(Byte) : held = g \o b
  BY ConcatProperties
<1>4. Flight(net[h]) \in Seq(Byte)
  <2>1. Control(h, {}) \in Packet
    BY ControlTypes
  <2> QED
    BY <1>1, <2>1, Flights
<1>5. IF state[h] \notin {"FIN_WAIT_1", "FIN_WAIT_2"} THEN held \o Flight(net[h]) = e ELSE IsPrefix(held, e)
  BY <1>2, <1>3 DEF Stream, InFlight, Flight
<1>6. IsPrefix(held, e)
  BY <1>4, <1>5, PrefixGrows
<1>7. IsPrefix(g, e)
  <2>1. Len(held) = Len(g) + Len(b) /\ \A i \in 1 .. Len(g) : held[i] = g[i]
    BY <1>3, ConcatProperties
  <2>2. Len(held) <= Len(e) /\ \A i \in 1 .. Len(held) : held[i] = e[i]
    BY <1>6, Prefixed
  <2>3. PICK x \in Nat, y \in Nat, z \in Nat : x = Len(g) /\ y = Len(b) /\ z = Len(e)
    OBVIOUS
  <2>4. x <= z /\ \A i \in 1 .. x : i \in 1 .. x + y
    BY <2>1, <2>2, <2>3
  <2>5. \A i \in 1 .. x : g[i] = e[i]
    BY <2>1, <2>2, <2>3, <2>4
  <2> QED
    BY <2>3, <2>4, <2>5, Prefixed
<1> QED
  BY <1>2, <1>3, <1>6, <1>7

\* The first numbers.
LEMMA UptoTypes ==
  ASSUME NEW n \in Nat
  PROVE  Upto(n) \in Seq(Nat) /\ Len(Upto(n)) = n /\ \A i \in 1 .. n : Upto(n)[i] = i
<1>1. Upto(n) \in [1 .. n -> Nat]
  BY DEF Upto
<1>2. \A i \in 1 .. n : Upto(n)[i] = i
  BY DEF Upto
<1> QED
  BY <1>1, <1>2

\* A sequence of the first numbers.
LEMMA IsUpto ==
  ASSUME NEW s \in Seq(Byte), NEW n \in Nat, Len(s) = n, \A i \in 1 .. n : s[i] = i
  PROVE  s = Upto(n)
<1>1. s = [i \in 1 .. n |-> s[i]]
  OBVIOUS
<1>2. [i \in 1 .. n |-> s[i]] = [i \in 1 .. n |-> i]
  OBVIOUS
<1> QED
  BY <1>1, <1>2 DEF Upto

\* A message of the client is numbered from where the last one ended.
LEMMA Written ==
  ASSUME load \in Workloads, NEW r \in 1 .. load.writes, NEW i \in 1 .. load.len
  PROVE  ClientWrite(r)[i] = (r - 1) * load.len + i
BY DEF ClientWrite

\* InOrder, in every step of a host.
LEMMA InOrderStep ==
  ASSUME Inv, Ample, Amply, InOrder, NEW h \in Hosts, AppStep(h) \/ RxStep(h)
  PROVE  InOrder'
<1>0. /\ TypeOK /\ TypeOK' /\ Place(h) /\ ClientSent /\ load \in Workloads /\ app[h] \in Thread /\ load' = load
      /\ "client" \in Hosts /\ Segments(h)
  BY TwoHosts, LoadStays, TypeStep DEF Inv, Amply, TypeOK
<1>1. PICK n \in Nat \ {0} : n = load.len
  BY <1>0, LoadTypes
<1>2. \A r : ClientWrite(r)' = ClientWrite(r)
  BY <1>0 DEF ClientWrite
<1>3. CASE app'["client"] = app["client"] /\ sent'["client"] = sent["client"]
  BY <1>0, <1>2, <1>3 DEF InOrder, ClientWrite
<1>4. CASE h = "client" /\ AppStep(h)
  <2>0. PICK w \in Nat, s \in Nat : w = app[h].wlen /\ s = app[h].seg
    BY <1>0, U16 DEF Thread
  <2>1. PICK r \in 1 .. load.writes : r = app[h].round /\ r \in Nat
    BY <1>0, LoadTypes DEF Place, Located
  <2>2. PICK b \in Seq(Byte) : b = app[h].buf /\ b = ClientWrite(r) /\ Len(b) = n
    BY <1>0, <1>1, <1>4, <2>1, WriteTypes DEF InOrder
  <2>3. PICK z \in Seq(Byte) : z = sent[h]
    BY <1>0 DEF TypeOK
  <2>4. PICK p \in Nat, e \in Nat : p = (r - 1) * n /\ e = Len(z) /\ e = p + w
    <3>1. (r - 1) * n \in Nat
      BY <2>1, Rounds, LoadTypes, <1>0
    <3>2. PICK p \in Nat : p = (r - 1) * n
      BY <3>1
    <3>3. Len(z) = p + w
      BY <1>0, <1>1, <1>4, <2>0, <2>1, <2>3, <3>2 DEF ClientSent
    <3>4. Len(z) \in Nat
      OBVIOUS
    <3> QED
      BY <3>2, <3>3, <3>4
  <2>5. z = Upto(e)
    BY <1>4, <2>3, <2>4 DEF InOrder
  <2>6. /\ app'[h].buf = ClientWrite(app'[h].round)
        /\ sent'[h] = Upto(Len(sent'[h]))
    <3>1. CASE Onward(h)
      BY <2>1, <2>2, <2>3, <2>4, <2>5, <3>1 DEF Onward
    <3>2. CASE Segment(h)
      <4>1. s \in 1 .. Len(b) - w
        BY <2>0, <2>2, <3>2, <1>0 DEF Segment, Segments
      <4>2. PICK d \in Seq(Byte) : /\ d = Payload(b, w, s) /\ Len(d) = s
                                   /\ \A i \in 1 .. s : w + i \in 1 .. Len(b) /\ d[i] = b[w + i]
        <5>1. /\ Payload(b, w, s) \in Seq(Byte) /\ Len(Payload(b, w, s)) = s
              /\ \A i \in 1 .. s : w + i \in 1 .. Len(b) /\ Payload(b, w, s)[i] = b[w + i]
          BY <1>0, <4>1, SegmentOf
        <5> QED
          BY <5>1, Zenon
      <4>3. \A i \in 1 .. s : d[i] = e + i
        <5> TAKE i \in 1 .. s
        <5>1. w + i \in 1 .. load.len /\ d[i] = b[w + i]
          BY <1>1, <2>2, <4>2
        <5>2. ClientWrite(r)[w + i] = (r - 1) * load.len + (w + i)
          BY <1>0, <5>1, Written
        <5>3. p + (w + i) = e + i
          BY <2>4
        <5> QED
          BY <1>1, <2>2, <2>4, <5>1, <5>2, <5>3
      <4>4. sent'[h] = z \o d
        BY <2>0, <2>2, <2>3, <3>2, <4>2 DEF Segment
      <4>5. z \o d \in Seq(Byte) /\ Len(z \o d) = e + s
            /\ \A i \in 1 .. e + s : (z \o d)[i] = IF i <= e THEN z[i] ELSE d[i - e]
        <5>1. /\ z \o d \in Seq(Byte) /\ Len(z \o d) = Len(z) + Len(d)
              /\ \A i \in 1 .. Len(z) + Len(d) : (z \o d)[i] = IF i <= Len(z) THEN z[i] ELSE d[i - Len(z)]
          BY ConcatProperties
        <5>2. Len(z) = e /\ Len(d) = s
          BY <2>4, <4>2
        <5> QED
          BY <5>1, <5>2
      <4>6. \A i \in 1 .. e : z[i] = i
        BY <2>5, UptoTypes
      <4>7. \A i \in 1 .. e + s : (z \o d)[i] = i
        <5> TAKE i \in 1 .. e + s
        <5>1. CASE i <= e
          BY <4>5, <4>6, <5>1
        <5>2. CASE ~ (i <= e)
          <6>1. i - e \in 1 .. s
            BY <5>2
          <6>2. d[i - e] = e + (i - e)
            BY <4>3, <6>1
          <6> QED
            BY <4>5, <5>2, <6>2
        <5> QED
          BY <5>1, <5>2
      <4>8. z \o d = Upto(e + s)
        <5>1. PICK m \in Nat : m = e + s
          BY <2>0, <2>4
        <5>2. PICK x \in Seq(Byte) : x = z \o d
          BY <4>5
        <5> QED
          BY <4>5, <4>7, <5>1, <5>2, IsUpto
      <4> QED
        BY <2>1, <2>2, <3>2, <4>4, <4>5, <4>8 DEF Segment
    <3>3. CASE Reading(h)
      BY <1>4, <2>1, <2>2, <2>3, <2>4, <2>5, <3>3 DEF Reading
    <3>4. CASE Further(h)
      <4>1. app'[h] = NextRound(app[h]) /\ sent'[h] = sent[h]
        BY <3>4 DEF Further
      <4>2. app'[h].buf = ClientWrite(app'[h].round)
        <5>1. app[h].round \in 1 .. load.writes
          BY <2>1
        <5>2. \/ app'[h].round = app[h].round + 1 /\ app'[h].buf = ClientWrite(app[h].round + 1)
              \/ app'[h].round = app[h].round /\ app'[h].buf = app[h].buf
          BY <1>0, <4>1, <5>1, NextRoundSent
        <5> QED
          BY <2>1, <2>2, <5>2
      <4> QED
        BY <2>3, <2>4, <2>5, <4>1, <4>2
    <3> QED
      BY <1>4, <3>1, <3>2, <3>3, <3>4, AmpleSteps
  <2> QED
    BY <1>0, <1>4, <2>6 DEF InOrder, ClientWrite
<1>5. (app'["client"] = app["client"] /\ sent'["client"] = sent["client"]) \/ (h = "client" /\ AppStep(h))
  <2>1. RxStep(h) => app' = app /\ sent' = sent
    BY Zenon DEF RxStep, ReceiveSyn, ReceiveSynAck, ReceiveAck, Establish, WakeOpened, ReceiveData, AssertFails,
           ReadOldWindow, SetWindow, WakeSender, ReceiveFin, ReceiveInFinWait1, ReceiveInFinWait2
  <2>2. h # "client" => app'["client"] = app["client"] /\ sent'["client"] = sent["client"]
    BY <1>0, OnlyMine
  <2> QED
    BY <2>1, <2>2
<1> QED
  BY <1>3, <1>4, <1>5

\* None of what the client sends is from the banner.
LEMMA NoBanner ==
  ASSUME TypeOK, NEW h \in Hosts, h = "server", Stream(h), up[h], InOrder
  PROVE  \A i \in 1 .. Len(rcv_buf[h]) : rcv_buf[h][i] # Banner
<1>0. got[h] \in Seq(Byte) /\ rcv_buf[h] \in Seq(Byte) /\ sent["client"] \in Seq(Byte) /\ Other(h) = "client"
  BY TwoHosts DEF TypeOK
<1>1. PICK g \in Seq(Byte), b \in Seq(Byte), e \in Seq(Byte) : g = got[h] /\ b = rcv_buf[h] /\ e = sent["client"]
  BY <1>0
<1>2. PICK x \in Nat, y \in Nat, n \in Nat : x = Len(g) /\ y = Len(b) /\ n = Len(e)
  OBVIOUS
<1>3. e = Upto(n) /\ \A i \in 1 .. n : e[i] = i
  BY <1>1, <1>2, UptoTypes DEF InOrder
<1>4. PICK z \in Seq(Byte) : z = g \o b
  BY ConcatProperties
<1>5. Len(z) = x + y /\ \A i \in 1 .. x + y : z[i] = IF i <= x THEN g[i] ELSE b[i - x]
  <2>1. Len(z) = Len(g) + Len(b) /\ \A i \in 1 .. Len(g) + Len(b) : z[i] = IF i <= Len(g) THEN g[i] ELSE b[i - Len(g)]
    BY <1>4, ConcatProperties
  <2> QED
    BY <1>2, <2>1
<1>6. IsPrefix(z, e)
  BY <1>0, <1>1, <1>4, TakenIsSent
<1>7. x + y <= n /\ \A i \in 1 .. x + y : z[i] = e[i]
  <2>1. Len(z) <= Len(e) /\ \A i \in 1 .. Len(z) : z[i] = e[i]
    BY <1>6, Prefixed
  <2> QED
    BY <1>2, <1>5, <2>1
<1>8. ASSUME NEW i \in 1 .. y PROVE b[i] # 0
  <2>1. x + i \in 1 .. x + y /\ ~ (x + i <= x) /\ (x + i) - x = i
    BY <1>2
  <2>2. z[x + i] = b[i] /\ z[x + i] = e[x + i]
    BY <1>5, <1>7, <2>1
  <2>3. x + i \in 1 .. n /\ x + i # 0
    BY <1>2, <1>7, <2>1
  <2> QED
    BY <1>3, <2>2, <2>3
<1> QED
  BY <1>1, <1>2, <1>8 DEF Banner

\* A segment moves from what is left to what is sent.
LEMMA TextMoves ==
  ASSUME NEW z \in Seq(Byte), NEW d \in Seq(Byte), NEW r \in Seq(Byte)
  PROVE  Text(z \o d) \o Text(r) = Text(z) \o Text(d \o r)
<1>1. Text(z) \in Seq(Byte) /\ Text(d) \in Seq(Byte) /\ Text(r) \in Seq(Byte)
  BY TextTypes
<1>2. PICK x \in Seq(Byte), y \in Seq(Byte), v \in Seq(Byte) : x = Text(z) /\ y = Text(d) /\ v = Text(r)
  BY <1>1
<1>3. (x \o y) \o v = x \o (y \o v)
  BY ConcatAssociative, SMTT(60)
<1>4. Text(z \o d) = x \o y /\ Text(d \o r) = y \o v
  BY <1>2, TextConcat
<1> QED
  BY <1>2, <1>3, <1>4

\* Echoing, in every step of a host.
LEMMA EchoingStep ==
  ASSUME Inv, Ample, Amply, InOrder, Echoing, NEW h \in Hosts, AppStep(h) \/ RxStep(h)
  PROVE  Echoing'
<1>0. /\ TypeOK /\ Place(h) /\ load \in Workloads /\ app[h] \in Thread /\ Stream(h) /\ up[h]
      /\ "server" \in Hosts /\ Segments(h)
  BY TwoHosts DEF Inv, Amply, TypeOK, Segments
<1>1. CASE app'["server"] = app["server"] /\ sent'["server"] = sent["server"] /\ got'["server"] = got["server"]
  BY <1>1 DEF Echoing
<1>2. CASE h = "server" /\ AppStep(h)
  <2>0. PICK w \in Nat, s \in Nat, b \in Seq(Byte) : w = app[h].wlen /\ s = app[h].seg /\ b = app[h].buf
    BY <1>0, U16 DEF Thread
  <2>1. PICK z \in Seq(Byte), g \in Seq(Byte) : z = sent[h] /\ g = got[h]
    BY <1>0 DEF TypeOK
  <2>2. /\ Text(z) \o Text(Rest(b, w)) = g
        /\ app[h].pc \in Opening \cup {"read", "settle", "get"} => w = Len(b)
    BY <1>2, <2>0, <2>1 DEF Echoing
  <2>3. /\ app'[h].pc \in Opening \cup {"read", "settle", "get"} => app'[h].wlen = Len(app'[h].buf)
        /\ Text(sent'[h]) \o Text(Rest(app'[h].buf, app'[h].wlen)) = got'[h]
    <3>1. CASE Onward(h)
      <4>1. /\ sent'[h] = z /\ got'[h] = g /\ app'[h].buf = b /\ app'[h].wlen = w
            /\ app'[h].pc \in Opening => app[h].pc \in Opening
            /\ app'[h].pc \in {"read", "settle", "get"} =>
                 app[h].pc \in Opening \cup {"read", "settle", "get"} \/ w = Len(b)
        BY <2>0, <2>1, <3>1 DEF Onward
      <4> QED
        BY <2>2, <4>1
    <3>2. CASE Segment(h)
      <4>1. s \in 1 .. Len(b) - w
        BY <1>0, <2>0, <3>2 DEF Segment, Segments
      <4>2. PICK d \in Seq(Byte), r \in Seq(Byte) : /\ d = Payload(b, w, s) /\ r = Rest(b, w + s) /\ Rest(b, w) = d \o r
        BY <1>0, <4>1, SegmentOf
      <4>3. /\ sent'[h] = z \o d /\ got'[h] = g /\ app'[h].buf = b /\ app'[h].wlen = w + s /\ app'[h].pc = "check"
        BY <2>0, <2>1, <3>2, <4>2 DEF Segment
      <4>4. Text(z \o d) \o Text(r) = Text(z) \o Text(d \o r)
        BY TextMoves
      <4> QED
        BY <2>2, <4>2, <4>3, <4>4 DEF Opening
    <3>3. CASE Reading(h)
      <4>1. PICK n \in 1 .. Len(rcv_buf[h]) :
              /\ got'[h] = got[h] \o SubSeq(rcv_buf[h], 1, n)
              /\ app'[h].buf = Echo(SubSeq(rcv_buf[h], 1, n)) /\ app'[h].wlen = 0
        BY <1>2, <3>3 DEF Reading
      <4>2. PICK c \in Seq(Byte) : c = rcv_buf[h]
        BY <1>0 DEF TypeOK
      <4>3. \A i \in 1 .. Len(c) : c[i] # Banner
        BY <1>0, <1>2, <4>2, NoBanner
      <4>4. PICK d \in Seq(Byte) : d = SubSeq(rcv_buf[h], 1, n) /\ \A i \in 1 .. Len(d) : d[i] # Banner
        <5>1. \A i \in 1 .. n : c[i] \in Byte /\ i \in 1 .. Len(c)
          BY <4>1, <4>2
        <5>2. SubSeq(c, 1, n) \in Seq(Byte) /\ Len(SubSeq(c, 1, n)) = n /\ \A i \in 1 .. n : SubSeq(c, 1, n)[i] = c[i]
          <6>1. 1 \in Int /\ n \in Int /\ 1 <= n /\ n - 1 + 1 = n
            BY <4>1
          <6>2. /\ SubSeq(c, 1, n) \in Seq(Byte) /\ Len(SubSeq(c, 1, n)) = n - 1 + 1
                /\ \A i \in 1 .. n - 1 + 1 : SubSeq(c, 1, n)[i] = c[1 + i - 1]
            BY <5>1, <6>1, SubSeqProperties
          <6>3. \A i \in 1 .. n : 1 + i - 1 = i
            BY <4>1
          <6> QED
            BY <6>1, <6>2, <6>3
        <5> QED
          BY <4>2, <4>3, <5>1, <5>2
      <4>5. PICK e \in Seq(Byte) : e = Echo(d) /\ Text(e) = d
        BY <1>0, <4>4, EchoTypes, TextEcho
      <4>6. Rest(e, 0) = e
        <5>1. SubSeq(e, 1, Len(e)) = e
          BY SubSeqFull
        <5> QED
          BY <5>1 DEF Rest
      <4>7. Text(z) = g
        <5>1. w = Len(b)
          BY <2>2, <3>3 DEF Reading
        <5>2. Rest(b, w) = <<>>
          <6>1. Len(b) \in Nat /\ Len(b) < Len(b) + 1
            OBVIOUS
          <6>2. SubSeq(b, Len(b) + 1, Len(b)) = <<>>
            BY <6>1, SubSeqEmpty
          <6> QED
            BY <5>1, <6>2 DEF Rest
        <5>3. Text(<<>>) = <<>>
          <6>1. Pieces(<<>>) = <<>>
            BY DEF Pieces
          <6> QED
            BY <6>1, FlattenEmpty DEF Text
        <5>4. Text(z) \o <<>> = Text(z)
          BY TextTypes, ConcatEmptySeq
        <5> QED
          BY <2>2, <5>2, <5>3, <5>4
      <4>8. sent'[h] = z /\ app'[h].pc = "window" /\ got'[h] = g \o d
        BY <2>1, <3>3, <4>1, <4>4, Zenon DEF Reading
      <4> QED
        BY <4>1, <4>4, <4>5, <4>6, <4>7, <4>8 DEF Opening
    <3>4. CASE Further(h)
      BY <1>2, <3>4 DEF Further
    <3> QED
      BY <1>2, <3>1, <3>2, <3>3, <3>4, AmpleSteps
  <2> QED
    BY <1>2, <2>3 DEF Echoing
<1>3. \/ app'["server"] = app["server"] /\ sent'["server"] = sent["server"] /\ got'["server"] = got["server"]
      \/ h = "server" /\ AppStep(h)
  <2>1. RxStep(h) => app' = app /\ sent' = sent /\ got' = got
    BY Zenon DEF RxStep, ReceiveSyn, ReceiveSynAck, ReceiveAck, Establish, WakeOpened, ReceiveData, AssertFails,
           ReadOldWindow, SetWindow, WakeSender, ReceiveFin, ReceiveInFinWait1, ReceiveInFinWait2
  <2>2. h # "server" => app'["server"] = app["server"] /\ sent'["server"] = sent["server"] /\ got'["server"] = got["server"]
    BY <1>0, OnlyMine
  <2> QED
    BY <2>1, <2>2, SMTT(30)
<1> QED
  BY <1>1, <1>2, <1>3

\* What follows a prefix.
LEMMA PrefixRest ==
  ASSUME NEW D, NEW a \in Seq(D), NEW b \in Seq(D), IsPrefix(a, b)
  PROVE  \E c \in Seq(D) : b = a \o c
<1>1. PICK x \in Nat, y \in Nat : x = Len(a) /\ y = Len(b)
  OBVIOUS
<1>2. x <= y /\ \A i \in 1 .. x : a[i] = b[i]
  BY <1>1, Prefixed
<1>3. \A i \in 1 .. y : b[i] \in D
  BY <1>1
<1> DEFINE c == SubSeq(b, x + 1, y)
<1>4. c \in Seq(D)
  <2>1. x + 1 \in Int /\ y \in Int /\ \A i \in x + 1 .. y : b[i] \in D
    BY <1>3
  <2> QED
    BY <2>1, SubSeqProperties
<1>5. SubSeq(b, 1, x) = a
  <2>1. SubSeq(b, 1, x) \in Seq(D) /\ Len(SubSeq(b, 1, x)) = x /\ \A i \in 1 .. x : SubSeq(b, 1, x)[i] = b[i]
    <3>1. 1 \in Int /\ x \in Int /\ x - 1 + 1 = x /\ (IF 1 <= x THEN x - 1 + 1 ELSE 0) = x
      OBVIOUS
    <3>2. \A i \in 1 .. x : b[i] \in D /\ 1 + i - 1 = i
      BY <1>2, <1>3
    <3>3. /\ SubSeq(b, 1, x) \in Seq(D) /\ Len(SubSeq(b, 1, x)) = IF 1 <= x THEN x - 1 + 1 ELSE 0
          /\ \A i \in 1 .. x - 1 + 1 : SubSeq(b, 1, x)[i] = b[1 + i - 1]
      BY <3>1, <3>2, SubSeqProperties
    <3> QED
      BY <3>1, <3>2, <3>3
  <2> QED
    BY <1>1, <1>2, <2>1, SeqEqual
<1>6. SubSeq(b, 1, x) \o SubSeq(b, x + 1, y) = SubSeq(b, 1, y)
  <2>1. 1 \in 1 .. Len(b) + 1 /\ x \in 1 - 1 .. Len(b) /\ y \in x .. Len(b)
    BY <1>1, <1>2
  <2> QED
    BY <2>1, ConcatAdjacentSubSeq
<1>7. SubSeq(b, 1, y) = b
  BY <1>1, SubSeqFull
<1> QED
  BY <1>4, <1>5, <1>6, <1>7

\* The beginning of a beginning.
LEMMA PrefixTransitive ==
  ASSUME NEW D, NEW a \in Seq(D), NEW b \in Seq(D), NEW c \in Seq(D), IsPrefix(a, b), IsPrefix(b, c)
  PROVE  IsPrefix(a, c)
<1>1. PICK p \in Seq(D) : b = a \o p
  BY PrefixRest
<1>2. PICK q \in Seq(D) : c = b \o q
  BY PrefixRest
<1>3. (a \o p) \o q = a \o (p \o q) /\ p \o q \in Seq(D)
  BY ConcatAssociative, ConcatProperties, SMTT(60)
<1> QED
  BY <1>1, <1>2, <1>3, PrefixGrows

\* The text of a prefix.
LEMMA TextPrefix ==
  ASSUME NEW a \in Seq(Byte), NEW b \in Seq(Byte), IsPrefix(a, b)
  PROVE  IsPrefix(Text(a), Text(b))
<1>1. PICK c \in Seq(Byte) : b = a \o c
  BY PrefixRest
<1>2. Text(b) = Text(a) \o Text(c) /\ Text(a) \in Seq(Byte) /\ Text(c) \in Seq(Byte)
  BY <1>1, TextConcat, TextTypes
<1> QED
  BY <1>2, PrefixGrows

\* EchoFaithful, from the invariants.
LEMMA Faithful ==
  ASSUME Inv, Ample, Amply, InOrder, Echoing
  PROVE  /\ got["server"] = Upto(Len(got["server"]))
         /\ IsPrefix(Text(got["client"]), Upto(Total))
<1>0. /\ TypeOK /\ load \in Workloads /\ Total \in Nat /\ "client" \in Hosts /\ "server" \in Hosts
      /\ Other("server") = "client" /\ Other("client") = "server"
      /\ up["client"] /\ up["server"] /\ Stream("client") /\ Stream("server")
  BY TwoHosts, LoadTypes DEF Inv, Amply, TypeOK, Segments
<1>1. PICK gs \in Seq(Byte), gc \in Seq(Byte), ss \in Seq(Byte), sc \in Seq(Byte) :
        gs = got["server"] /\ gc = got["client"] /\ ss = sent["server"] /\ sc = sent["client"]
  BY <1>0 DEF TypeOK
<1>2. PICK g \in Nat, n \in Nat : g = Len(gs) /\ n = Len(sc)
  OBVIOUS
<1>3. sc = Upto(n) /\ \A i \in 1 .. n : sc[i] = i
  BY <1>1, <1>2, UptoTypes DEF InOrder
<1>4. IsPrefix(gs, sc) /\ IsPrefix(gc, ss)
  BY <1>0, <1>1, TakenIsSent
<1>5. g <= n /\ \A i \in 1 .. g : gs[i] = i
  <2>1. g <= n /\ \A i \in 1 .. g : gs[i] = sc[i]
    BY <1>2, <1>4, Prefixed
  <2> QED
    BY <1>2, <1>3, <2>1
<1>6. gs = Upto(g)
  BY <1>2, <1>5, IsUpto
<1>7. n <= Total
  <2>1. PICK l \in Nat, m \in Nat, w \in Nat : l = load.len /\ m = load.writes /\ w = app["client"].wlen /\ Total = m * l
    BY <1>0, LoadTypes DEF Total, TypeOK, Thread
  <2>2. PICK r \in 1 .. m : r = app["client"].round
    BY <1>0, <2>1 DEF Inv, Place, Located
  <2>3. /\ (r - 1) * l \in Nat /\ (r - 1) * l + l <= m * l /\ m * l \in Nat
    BY Rounds
  <2>4. n = (r - 1) * l + w /\ w <= l
    <3>1. Len(app["client"].buf) = l /\ n = (r - 1) * l + w
      BY <1>1, <1>2, <2>1, <2>2 DEF Amply, ClientSent
    <3>2. w <= Len(app["client"].buf)
      BY <1>0, <2>1 DEF Amply, Segments
    <3> QED
      BY <3>1, <3>2
  <2>5. PICK p \in Nat, q \in Nat : p = (r - 1) * l /\ q = m * l
    BY <2>3
  <2>6. p + l <= q /\ n = p + w /\ w <= l
    BY <2>3, <2>4, <2>5
  <2>7. q = Total
    BY <2>1, <2>5
  <2>8. p + w <= q
    <3>1. p \in Nat /\ l \in Nat /\ w \in Nat /\ q \in Nat
      BY <2>1, <2>5
    <3> QED
      BY <2>6, <3>1
  <2> QED
    BY <2>6, <2>7, <2>8
<1>8. IsPrefix(Text(gc), Text(ss))
  BY <1>4, TextPrefix
<1>9. PICK r \in Seq(Byte) : r = Rest(app["server"].buf, app["server"].wlen)
  <2>1. PICK b \in Seq(Byte), w \in Nat : b = app["server"].buf /\ w = app["server"].wlen
    BY <1>0 DEF TypeOK, Thread
  <2>2. \A i \in w + 1 .. Len(b) : b[i] \in Byte
    OBVIOUS
  <2>3. w + 1 \in Int /\ Len(b) \in Int
    OBVIOUS
  <2>4. SubSeq(b, w + 1, Len(b)) \in Seq(Byte)
    BY <2>2, <2>3, SubSeqProperties
  <2> QED
    BY <2>1, <2>4 DEF Rest
<1>10. Text(ss) \o Text(r) = gs
  BY <1>1, <1>9 DEF Echoing
<1>11. Text(ss) \in Seq(Byte) /\ Text(r) \in Seq(Byte) /\ Text(gc) \in Seq(Byte)
  BY TextTypes
<1>12. IsPrefix(Text(ss), gs)
  BY <1>10, <1>11, PrefixGrows
<1>13. IsPrefix(Text(gc), gs)
  BY <1>8, <1>11, <1>12, PrefixTransitive
<1>14. Upto(Total) \in Seq(Byte) /\ IsPrefix(gs, Upto(Total))
  <2>1. Upto(Total) \in Seq(Byte)
    <3>1. Upto(Total) \in [1 .. Total -> Byte]
      BY <1>0, LoadTypes DEF Upto
    <3> QED
      BY <1>0, <3>1
  <2>2. Len(Upto(Total)) = Total /\ \A i \in 1 .. Total : Upto(Total)[i] = i
    BY <1>0, UptoTypes
  <2>3. Len(gs) <= Len(Upto(Total)) /\ \A i \in 1 .. Len(gs) : gs[i] = Upto(Total)[i]
    BY <1>0, <1>2, <1>5, <1>7, <2>2
  <2> QED
    BY <2>1, <2>3, Prefixed
<1>15. IsPrefix(Text(gc), Upto(Total))
  BY <1>11, <1>13, <1>14, PrefixTransitive
<1> QED
  BY <1>1, <1>2, <1>6, <1>15

\* InvEcho in the first state ...
LEMMA EchoAtFirst == ASSUME Init PROVE InOrder /\ Echoing
<1>1. /\ app["client"].round = 1 /\ app["client"].buf = ClientWrite(1)
      /\ app["server"].pc = "listen" /\ app["server"].buf = <<>> /\ app["server"].wlen = 0
      /\ sent["client"] = <<>> /\ sent["server"] = <<>> /\ got["server"] = <<>>
  BY TwoHosts DEF Init
<1>2. Upto(0) = <<>> /\ Len(<<>>) = 0
  BY DEF Upto
<1>3. InOrder
  BY <1>1, <1>2 DEF InOrder
<1>4. Rest(<<>>, 0) = <<>>
  <2>1. SubSeq(<<>>, 1, 0) = <<>>
    BY SubSeqEmpty
  <2> QED
    BY <1>2, <2>1 DEF Rest
<1>5. Text(<<>>) = <<>>
  <2>1. Pieces(<<>>) = <<>>
    BY DEF Pieces
  <2> QED
    BY <2>1, FlattenEmpty DEF Text
<1>6. <<>> \o <<>> = <<>>
  BY ConcatEmptySeq
<1>7. Echoing
  BY <1>1, <1>2, <1>4, <1>5, <1>6 DEF Echoing
<1> QED
  BY <1>3, <1>7

\* ... and in every next one.
LEMMA EchoStays == ASSUME Inv, InvAmple, InvEcho, [Next]_vars PROVE InvEcho'
<1>1. CASE UNCHANGED vars
  <2>1. Ample' = Ample
    BY <1>1, SameBytes DEF vars
  <2>2. InOrder => InOrder'
    BY <1>1 DEF vars, InOrder, ClientWrite
  <2>3. Echoing => Echoing'
    BY <1>1 DEF vars, Echoing
  <2> QED
    BY <2>1, <2>2, <2>3 DEF InvEcho
<1>2. ASSUME NEW h \in Hosts, AppStep(h) \/ RxStep(h) PROVE InvEcho'
  <2>1. Ample' = Ample
    BY <1>2, LoadStays, SameBytes DEF Inv, TypeOK
  <2>2. CASE Ample
    <3>1. Amply /\ InOrder /\ Echoing
      BY <2>2 DEF InvAmple, Amply, InvEcho
    <3>2. InOrder' /\ Echoing'
      BY <1>2, <2>2, <3>1, InOrderStep, EchoingStep
    <3> QED
      BY <3>2 DEF InvEcho
  <2> QED
    BY <2>1, <2>2 DEF InvEcho
<1> QED
  BY <1>1, <1>2 DEF Next

\* EchoFaithful: with an ample window tcp_server gets the bytes of tcp_client in order,
\* and what tcp_client gets back is, banners apart, the beginning of what it wrote.
THEOREM EchoIsFaithful == Spec => []EchoFaithful
<1>1. Init => InvAmple /\ InvEcho
  BY AmpleAtFirst, EchoAtFirst DEF InvAmple, Amply, InvEcho
<1>2. Inv /\ InvAmple /\ [Next]_vars => InvAmple'
  BY AmpleStays
<1>3. Inv /\ InvAmple /\ InvEcho /\ [Next]_vars => InvEcho'
  BY EchoStays
<1>4. Inv /\ InvAmple /\ InvEcho => EchoFaithful
  <2> SUFFICES ASSUME Inv, InvAmple, InvEcho, Ample
               PROVE  /\ got["server"] = Upto(Len(got["server"]))
                      /\ IsPrefix(Text(got["client"]), Upto(Total))
    BY DEF EchoFaithful
  <2>1. Amply /\ InOrder /\ Echoing
    BY DEF InvAmple, Amply, InvEcho
  <2> QED
    BY <2>1, Faithful
<1> QED
  BY <1>1, <1>2, <1>3, <1>4, AlwaysInv, PTL DEF Spec

=============================================================================
