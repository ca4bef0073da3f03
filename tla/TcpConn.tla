------------------------------ MODULE TcpConn ------------------------------
(***************************************************************************)
(* Connection management of the TCP stack of 14-tcp_stack: a client host   *)
(* and a server host, each with an application thread (tcp_client,         *)
(* tcp_server), a packet thread (handle_tcp_packet -> tcp_process) and a   *)
(* timer thread (tcp_scan_timer_list).  struct tcp_sock has no lock: a     *)
(* handler is split where another thread can read or overwrite what it     *)
(* touches, and is one action everywhere else.                             *)
(*                                                                         *)
(* The socks are K (the client's), L (the server's listening sock), C (the *)
(* child L makes for the client) and X (the child L makes for another      *)
(* peer, of which only the first SYN is modelled).                         *)
(***************************************************************************)
EXTENDS WaitOps, Integers, SequencesExt

CONSTANTS Envs,            \* the environments to consider, see EnvType
          SeqSpace,        \* sequence numbers are u32: here modulo SeqSpace
          ClientISS,       \* rand() of the client's and of the server's
          ServerISS,       \*   alloc_tcp_sock
          TimeWaitScans    \* TCP_TIMEWAIT_TIMEOUT / TCP_TIMER_SCAN_INTERVAL

\* What the code leaves to its environment:
\*   timely       the second between the two sleep() calls of the applications
\*                is enough for the client's FIN to reach the server
\*   serverFirst  the server listens before the client connects
\*   foreign      another peer sends a SYN to the server's port
\*   spurious     pthread_cond_wait may return without a signal
\*   dups         how many packets the network may deliver twice
EnvType == [timely : BOOLEAN, serverFirst : BOOLEAN, foreign : BOOLEAN,
            spurious : BOOLEAN, dups : Nat]

ASSUME ConnAssumption ==
  /\ Envs \subseteq EnvType
  /\ SeqSpace \in Nat \ {0}
  /\ ClientISS \in 0 .. SeqSpace - 1
  /\ ServerISS \in 0 .. SeqSpace - 1
  /\ TimeWaitScans \in Nat \ {0}

Hosts == {"client", "server"}
Socks == {"K", "L", "C", "X"}
Other(h) == IF h = "client" THEN "server" ELSE "client"
Host(s) == IF s = "K" THEN "client" ELSE "server"
HasParent(s) == s \in {"C", "X"}
Child(conn) == IF conn = "k" THEN "C" ELSE "X"

States == {"none", "CLOSED", "LISTEN", "SYN_RECV", "SYN_SENT", "ESTABLISHED",
           "CLOSE_WAIT", "LAST_ACK", "FIN_WAIT_1", "FIN_WAIT_2", "TIME_WAIT"}
SeqNo == 0 .. SeqSpace - 1

\* struct tcp_sock: "none" before malloc; hashed tells the table its hash_list
\* is in, bound whether it is in bind_table, timer the scans left in timer_list
\* (-1: not in it).
Sock == [state : States, snd_nxt : SeqNo, rcv_nxt : SeqNo, ref_cnt : Int,
         hashed : {"no", "listen", "established"}, bound : BOOLEAN,
         timer : Int, freed : BOOLEAN]
NoSock == [state |-> "none", snd_nxt |-> 0, rcv_nxt |-> 0, ref_cnt |-> 0,
           hashed |-> "no", bound |-> FALSE, timer |-> -1, freed |-> FALSE]

\* A TCP packet of the connection with the client ("k") or the other peer ("x").
Segment == [conn : {"k", "x"}, flags : SUBSET {"SYN", "ACK", "FIN", "RST"},
            seq : SeqNo, ack : SeqNo]

VARIABLES env,            \* the environment of this behaviour
          up,             \* per host: running, or how its process ended
          sk,             \* the socks
          listen_queue,   \* the queues of L
          accept_queue,
          accept_backlog,
          backlog_read,    \* what the packet thread and the application have
                           \*   loaded of it, on the way of += 1 and of -= 1
          lost_update,     \* history: a store has overwritten a newer count
          wait_connect,   \* the wait structures of K and of L
          wait_accept,
          app,            \* per host: where the application thread is
          csk,            \* what tcp_sock_accept returned
          closeTo,        \* per host: the branch tcp_sock_close has chosen
          rx,             \* per host: what the packet thread still has to do
          net,            \* per host: the packets on their way to it
          left            \* what the network may still do of env.foreign, env.dups

counter == <<accept_backlog, backlog_read, lost_update>>
queues == <<listen_queue, accept_queue, counter>>
vars == <<env, left, up, sk, queues, wait_connect, wait_accept, app, csk, closeTo,
          rx, net>>
waits == <<wait_connect, wait_accept>>
appVars == <<app, csk, closeTo>>

RxPcs == {"idle", "end", "wake_connect", "count_load", "count_store", "wake_accept",
          "close_wait"}
RxIdle == [pc |-> "idle", sock |-> "none", rst |-> FALSE]

Init ==
  /\ env \in Envs
  /\ left = [foreign |-> env.foreign, dups |-> env.dups]
  /\ up = [h \in Hosts |-> "running"]
  /\ sk = [s \in Socks |-> NoSock]
  /\ listen_queue = <<>> /\ accept_queue = <<>> /\ accept_backlog = 0
  /\ backlog_read = [rx |-> 0, app |-> 0] /\ lost_update = FALSE
  /\ wait_connect = wait_init /\ wait_accept = wait_init
  /\ app = [h \in Hosts |-> "start"]
  /\ csk = "none"
  /\ closeTo = [h \in Hosts |-> "none"]
  /\ rx = [h \in Hosts |-> RxIdle]
  /\ net = [h \in Hosts |-> <<>>]

-----------------------------------------------------------------------------
(* tcp_sock.c and tcp_out.c: helpers on one sock.                           *)

alloc_tcp_sock(iss) == [NoSock EXCEPT !.state = "CLOSED", !.snd_nxt = iss]

\* Mutant: the reference of bind_table is not counted.
tcp_bind_hash_NoRef(r) == [r EXCEPT !.bound = TRUE]
tcp_bind_hash(r) == [r EXCEPT !.bound = TRUE, !.ref_cnt = @ + 1]

\* Mutant: only listening socks are put into a table.
tcp_hash_ListenOnly(r) ==
  IF r.state # "LISTEN" THEN r
  ELSE [r EXCEPT !.hashed = "listen", !.ref_cnt = @ + 1]
tcp_hash(r) ==
  IF r.state = "CLOSED" THEN r
  ELSE [r EXCEPT !.hashed = IF r.state = "LISTEN" THEN "listen" ELSE "established",
                 !.ref_cnt = @ + 1]

\* The memory is released when the count drops to zero, whatever still points
\* to it.
free_tcp_sock(r) ==
  [r EXCEPT !.ref_cnt = @ - 1, !.freed = (r.ref_cnt - 1 <= 0)]

tcp_bind_unhash(r) ==
  IF r.bound THEN free_tcp_sock([r EXCEPT !.bound = FALSE]) ELSE r

\* Mutant: no wrap at the width of the sequence number.
SeqInc_NoWrap(n) == n + 1
SeqInc(n) == (n + 1) % SeqSpace

\* Mutant: FIN takes no sequence number.
Consumes_SynOnly(flags) == "SYN" \in flags
Consumes(flags) == "SYN" \in flags \/ "FIN" \in flags

\* tcp_send_control_packet: the packet, and the sock after sending it.
ControlPacket(s, r, flags) ==
  [conn |-> IF s = "X" THEN "x" ELSE "k", flags |-> flags,
   seq |-> r.snd_nxt, ack |-> r.rcv_nxt]
AfterControl(r, flags) ==
  [r EXCEPT !.snd_nxt = IF Consumes(flags) THEN SeqInc(@) ELSE @]

\* tcp_send_reset: the fields come from the packet it answers.
ResetPacket(seg) ==
  [conn |-> seg.conn, flags |-> {"RST", "ACK"}, seq |-> 0,
   ack |-> IF Consumes(seg.flags) THEN SeqInc(seg.seq) ELSE seg.seq]

\* What host h puts on the wire; packets to the other peer leave the model.
Emit(n, h, seg) ==
  IF seg.conn = "x" THEN n ELSE [n EXCEPT ![Other(h)] = Append(@, seg)]

\* tcp_sock_lookup: the established table first, then the listen table.
tcp_sock_lookup(h, conn) ==
  LET e == IF h = "client" THEN "K" ELSE Child(conn)
  IN  IF sk[e].hashed = "established" THEN e
      ELSE IF h = "server" /\ sk["L"].hashed = "listen" THEN "L"
      ELSE "none"

-----------------------------------------------------------------------------
(* The application threads: tcp_apps.c over tcp_sock.c.                     *)

Running(h) == up[h] = "running"
Goto(h, p) == app' = [app EXCEPT ![h] = p]

\* tcp_client: alloc_tcp_sock and tcp_sock_connect up to its sleep_on.  Nobody
\* can reach K before tcp_hash, and no packet for K exists before the SYN.
Connect ==
  LET r == tcp_hash([tcp_bind_hash(alloc_tcp_sock(ClientISS))
                       EXCEPT !.state = "SYN_SENT"])
  IN  /\ Running("client") /\ app["client"] = "start"
      /\ env.serverFirst => sk["L"].state # "none"
      /\ sk' = [sk EXCEPT !["K"] = AfterControl(r, {"SYN"})]
      /\ net' = Emit(net, "client", ControlPacket("K", r, {"SYN"}))
      /\ Goto("client", "sleep_on")
      /\ UNCHANGED <<env, left, up, queues, waits, csk, closeTo, rx>>

ConnectSleep ==
  /\ Running("client") /\ app["client"] = "sleep_on"
  /\ wait_connect' = sleep_on(wait_connect, "client")
  /\ Goto("client", IF "client" \in wait_connect'.waiting THEN "blocked" ELSE "sleep")
  /\ UNCHANGED <<env, left, up, sk, queues, wait_accept, csk, closeTo, rx, net>>

ConnectWake ==
  /\ Running("client") /\ app["client"] = "blocked"
  /\ CanResume(wait_connect, "client", env.spurious)
  /\ wait_connect' = resume(wait_connect, "client")
  /\ Goto("client", "sleep")
  /\ UNCHANGED <<env, left, up, sk, queues, wait_accept, csk, closeTo, rx, net>>

\* tcp_server: alloc_tcp_sock, tcp_sock_bind and tcp_sock_listen.
Listen ==
  /\ Running("server") /\ app["server"] = "start"
  /\ sk' = [sk EXCEPT !["L"] =
              tcp_hash([tcp_bind_hash(alloc_tcp_sock(ServerISS)) EXCEPT !.state = "LISTEN"])]
  /\ Goto("server", "accept")
  /\ UNCHANGED <<env, left, up, queues, waits, csk, closeTo, rx, net>>

\* Mutant: accept does not look at the queue before it takes from it.
AcceptTest_None ==
  /\ Running("server") /\ app["server"] = "accept"
  /\ Goto("server", "dequeue")
  /\ UNCHANGED <<env, left, up, sk, queues, waits, csk, closeTo, rx, net>>

\* tcp_sock_accept: the test of the queue, sleep_on, and the dequeue are three
\* steps of the application thread.
AcceptTest ==
  /\ Running("server") /\ app["server"] = "accept"
  /\ Goto("server", IF accept_queue = <<>> THEN "sleep_on" ELSE "dequeue")
  /\ UNCHANGED <<env, left, up, sk, queues, waits, csk, closeTo, rx, net>>

AcceptSleep ==
  /\ Running("server") /\ app["server"] = "sleep_on"
  /\ wait_accept' = sleep_on(wait_accept, "server")
  /\ Goto("server", IF "server" \in wait_accept'.waiting THEN "blocked" ELSE "dequeue")
  /\ UNCHANGED <<env, left, up, sk, queues, wait_connect, csk, closeTo, rx, net>>

AcceptWake ==
  /\ Running("server") /\ app["server"] = "blocked"
  /\ CanResume(wait_accept, "server", env.spurious)
  /\ wait_accept' = resume(wait_accept, "server")
  /\ Goto("server", "dequeue")
  /\ UNCHANGED <<env, left, up, sk, queues, wait_connect, csk, closeTo, rx, net>>

\* Mutant: accept_backlog is not counted down.
AcceptDequeue_NoCount ==
  /\ Running("server") /\ app["server"] = "dequeue" /\ accept_queue # <<>>
  /\ accept_queue' = Tail(accept_queue) /\ csk' = Head(accept_queue)
  /\ Goto("server", "sleep")
  /\ UNCHANGED <<env, left, up, sk, listen_queue, counter, waits, closeTo, rx, net>>

\* tcp_sock_accept_dequeue takes the sock from the list and goes on to the count.
\* It does not test the queue: on an empty one list_entry yields an address inside
\* L that is no tcp_sock, and the model of the server ends there.
AcceptDequeue ==
  /\ Running("server") /\ app["server"] = "dequeue"
  /\ IF accept_queue = <<>>
     THEN up' = [up EXCEPT !["server"] = "wild pointer"] /\ UNCHANGED <<accept_queue, csk>>
     ELSE accept_queue' = Tail(accept_queue) /\ csk' = Head(accept_queue) /\ UNCHANGED up
  /\ Goto("server", "uncount_load")
  /\ UNCHANGED <<env, left, sk, listen_queue, counter, waits, closeTo, rx, net>>

\* accept_backlog += 1 and -= 1 are a load and a store each, of two threads that
\* share no lock: the store of t writes d more than t has loaded.
LoadBacklog(t) ==
  /\ backlog_read' = [backlog_read EXCEPT ![t] = accept_backlog]
  /\ UNCHANGED <<listen_queue, accept_queue, accept_backlog, lost_update>>
StoreBacklog(t, d) ==
  /\ accept_backlog' = backlog_read[t] + d
  /\ lost_update' = (lost_update \/ backlog_read[t] # accept_backlog)
  /\ UNCHANGED <<listen_queue, accept_queue, backlog_read>>

AcceptUncount ==
  /\ Running("server")
  /\ \/ app["server"] = "uncount_load" /\ LoadBacklog("app") /\ Goto("server", "uncount_store")
     \/ app["server"] = "uncount_store" /\ StoreBacklog("app", -1) /\ Goto("server", "sleep")
  /\ UNCHANGED <<env, left, up, sk, waits, csk, closeTo, rx, net>>

MySock(h) == IF h = "client" THEN "K" ELSE csk

\* Mutant: no case for TCP_CLOSE_WAIT, both sides close the same way.
CloseBranch_Same(st) ==
  IF st \in {"ESTABLISHED", "CLOSE_WAIT"} THEN "FIN_WAIT_1" ELSE "none"
CloseBranch(st) ==
  CASE st = "ESTABLISHED" -> "FIN_WAIT_1"
    [] st = "CLOSE_WAIT"  -> "LAST_ACK"
    [] OTHER              -> "none"

\* tcp_sock_close: the switch reads the state, ...
CloseSwitch(h) ==
  LET st == sk[MySock(h)].state
  IN  /\ Running(h) /\ app[h] = "sleep"
      /\ (env.timely /\ h = "server") =>
            app["client"] = "done" /\ net["server"] = <<>> /\ rx["server"] = RxIdle
      /\ closeTo' = [closeTo EXCEPT ![h] = CloseBranch(st)]
      /\ Goto(h, IF CloseBranch(st) = "none" THEN "done" ELSE "set_state")
      /\ UNCHANGED <<env, left, up, sk, queues, waits, csk, rx, net>>

\* ... its branch writes the new one, whatever the packet thread did since (the
\* second write of FIN_WAIT_1 repeats the first), ...
CloseSetState(h) ==
  /\ Running(h) /\ app[h] = "set_state"
  /\ sk' = [sk EXCEPT ![MySock(h)].state = closeTo[h]]
  /\ Goto(h, "send_fin")
  /\ UNCHANGED <<env, left, up, queues, waits, csk, closeTo, rx, net>>

\* ... and sends FIN|ACK.
CloseSendFin(h) ==
  LET s == MySock(h) IN
  /\ Running(h) /\ app[h] = "send_fin"
  /\ net' = Emit(net, h, ControlPacket(s, sk[s], {"FIN", "ACK"}))
  /\ sk' = [sk EXCEPT ![s] = AfterControl(@, {"FIN", "ACK"})]
  /\ Goto(h, "done")
  /\ UNCHANGED <<env, left, up, queues, waits, csk, closeTo, rx>>

-----------------------------------------------------------------------------
(* The packet thread: handle_tcp_packet looks the sock up and tcp_process   *)
(* switches on its state.                                                   *)

\* The packet at the head of net[h] is for sock s, which is in state st.
Arrives(h) == Running(h) /\ rx[h] = RxIdle /\ net[h] # <<>>
ArrivesIn(h, s, st) ==
  /\ Arrives(h)
  /\ s = tcp_sock_lookup(h, Head(net[h]).conn)
  /\ s # "none" /\ ~ sk[s].freed
  /\ sk[s].state = st
Rest(h) == [net EXCEPT ![h] = Tail(@)]

\* The packet thread goes on with p; the last step of tcp_process tests RST.
Then(h, s, p, rst) ==
  rx' = [rx EXCEPT ![h] = IF p = "end" /\ ~ rst THEN RxIdle
                          ELSE [pc |-> p, sock |-> s, rst |-> rst]]
HasRst(h) == "RST" \in Head(net[h]).flags

\* tcp_sock_lookup finds nothing and ends the process with exit(-1).
RxNoSock(h) ==
  /\ Arrives(h)
  /\ tcp_sock_lookup(h, Head(net[h]).conn) = "none"
  /\ up' = [up EXCEPT ![h] = "exit(-1)"]
  /\ net' = Rest(h)
  /\ UNCHANGED <<env, left, sk, queues, waits, appVars, rx>>

\* The table still points to a sock whose memory has been released.
RxUsesFreed(h) ==
  /\ Arrives(h)
  /\ LET s == tcp_sock_lookup(h, Head(net[h]).conn) IN s # "none" /\ sk[s].freed
  /\ up' = [up EXCEPT ![h] = "use after free"]
  /\ UNCHANGED <<env, left, sk, queues, waits, appVars, rx, net>>

\* tcp_state_closed: every packet is answered with RST, a RST too.
RxClosed(h, s) ==
  /\ ArrivesIn(h, s, "CLOSED")
  /\ net' = Emit(Rest(h), h, ResetPacket(Head(net[h])))
  /\ Then(h, s, "end", HasRst(h))
  /\ UNCHANGED <<env, left, up, sk, queues, waits, appVars>>

\* tcp_state_listen: no flag is tested; the child is a copy of L, made after L
\* itself has been moved to SYN_RECV.
RxListen(h, s) ==
  LET seg == Head(net[h])
      l   == [sk[s] EXCEPT !.state = "SYN_RECV"]
      c   == tcp_hash([l EXCEPT !.rcv_nxt = SeqInc(seg.seq), !.bound = FALSE])
      n   == Child(seg.conn)
  IN  /\ ArrivesIn(h, s, "LISTEN")
      /\ sk' = [sk EXCEPT ![s] = l, ![n] = AfterControl(c, {"SYN", "ACK"})]
      /\ listen_queue' = Append(listen_queue, n)
      /\ net' = Emit(Rest(h), h, ControlPacket(n, c, {"SYN", "ACK"}))
      /\ Then(h, s, "end", HasRst(h))
      /\ UNCHANGED <<env, left, up, accept_queue, counter, waits, appVars>>

\* tcp_state_syn_sent: only SYN|ACK counts; wake_up is a step of its own.
RxSynSent(h, s) ==
  LET seg == Head(net[h])
      r   == [sk[s] EXCEPT !.rcv_nxt = SeqInc(seg.seq)]
  IN  /\ ArrivesIn(h, s, "SYN_SENT")
      /\ IF seg.flags = {"SYN", "ACK"}
         THEN /\ sk' = [sk EXCEPT ![s] = [r EXCEPT !.state = "ESTABLISHED"]]
              /\ net' = Emit(Rest(h), h, ControlPacket(s, r, {"ACK"}))
              /\ Then(h, s, "wake_connect", FALSE)
         ELSE /\ sk' = sk
              /\ net' = Rest(h)
              /\ Then(h, s, "end", HasRst(h))
      /\ UNCHANGED <<env, left, up, queues, waits, appVars>>

\* tcp_state_syn_recv: any packet establishes the connection.  For L itself,
\* which has no parent, tcp_sock_accept_enqueue dereferences NULL.  The count and
\* wake_up are steps of their own.
RxSynRecv(h, s) ==
  /\ ArrivesIn(h, s, "SYN_RECV")
  /\ sk' = [sk EXCEPT ![s].state = "ESTABLISHED"]
  /\ net' = Rest(h)
  /\ IF HasParent(s)
     THEN /\ listen_queue' = RemoveFirst(listen_queue, s)
          /\ accept_queue' = Append(accept_queue, s)
          /\ Then(h, s, "count_load", HasRst(h))
          /\ UNCHANGED <<up, counter>>
     ELSE /\ up' = [up EXCEPT ![h] = "null pointer"]
          /\ UNCHANGED <<queues, rx>>
  /\ UNCHANGED <<env, left, waits, appVars>>

\* ESTABLISHED: FIN is acknowledged, then the state is written.
RxEstablished(h, s) ==
  LET seg == Head(net[h])
      r   == [sk[s] EXCEPT !.rcv_nxt = SeqInc(seg.seq)]
  IN  /\ ArrivesIn(h, s, "ESTABLISHED")
      /\ IF "FIN" \in seg.flags
         THEN /\ sk' = [sk EXCEPT ![s] = r]
              /\ net' = Emit(Rest(h), h, ControlPacket(s, r, {"ACK"}))
              /\ Then(h, s, "close_wait", HasRst(h))
         ELSE /\ sk' = sk
              /\ net' = Rest(h)
              /\ Then(h, s, "end", HasRst(h))
      /\ UNCHANGED <<env, left, up, queues, waits, appVars>>

\* FIN_WAIT_1: any packet with ACK, whatever it acknowledges.
RxFinWait1(h, s) ==
  /\ ArrivesIn(h, s, "FIN_WAIT_1")
  /\ sk' = IF "ACK" \in Head(net[h]).flags
           THEN [sk EXCEPT ![s].state = "FIN_WAIT_2"] ELSE sk
  /\ net' = Rest(h)
  /\ Then(h, s, "end", HasRst(h))
  /\ UNCHANGED <<env, left, up, queues, waits, appVars>>

\* FIN_WAIT_2: FIN is acknowledged and the TIME_WAIT timer set.
RxFinWait2(h, s) ==
  LET seg == Head(net[h])
      r   == [sk[s] EXCEPT !.rcv_nxt = SeqInc(seg.seq)]
  IN  /\ ArrivesIn(h, s, "FIN_WAIT_2")
      /\ IF "FIN" \in seg.flags
         THEN /\ sk' = [sk EXCEPT ![s] = [r EXCEPT !.state = "TIME_WAIT",
                           !.timer = TimeWaitScans, !.ref_cnt = @ + 1]]
              /\ net' = Emit(Rest(h), h, ControlPacket(s, r, {"ACK"}))
         ELSE /\ sk' = sk
              /\ net' = Rest(h)
      /\ Then(h, s, "end", HasRst(h))
      /\ UNCHANGED <<env, left, up, queues, waits, appVars>>

RxLastAck(h, s) ==
  /\ ArrivesIn(h, s, "LAST_ACK")
  /\ sk' = IF "ACK" \in Head(net[h]).flags THEN [sk EXCEPT ![s].state = "CLOSED"] ELSE sk
  /\ net' = Rest(h)
  /\ Then(h, s, "end", HasRst(h))
  /\ UNCHANGED <<env, left, up, queues, waits, appVars>>

\* CLOSE_WAIT and TIME_WAIT have no case in the switch.
RxIgnored(h, s) ==
  /\ ArrivesIn(h, s, "CLOSE_WAIT") \/ ArrivesIn(h, s, "TIME_WAIT")
  /\ net' = Rest(h)
  /\ Then(h, s, "end", HasRst(h))
  /\ UNCHANGED <<env, left, up, sk, queues, waits, appVars>>

\* The second steps of the handlers above.
RxWakeConnect(h) ==
  /\ Running(h) /\ rx[h].pc = "wake_connect"
  /\ wait_connect' \in wake_up(wait_connect)
  /\ Then(h, rx[h].sock, "end", rx[h].rst)
  /\ UNCHANGED <<env, left, up, sk, queues, wait_accept, appVars, net>>

RxCount(h) ==
  /\ Running(h)
  /\ \/ /\ rx[h].pc = "count_load" /\ LoadBacklog("rx")
        /\ Then(h, rx[h].sock, "count_store", rx[h].rst)
     \/ /\ rx[h].pc = "count_store" /\ StoreBacklog("rx", 1)
        /\ Then(h, rx[h].sock, "wake_accept", rx[h].rst)
  /\ UNCHANGED <<env, left, up, sk, waits, appVars, net>>

RxWakeAccept(h) ==
  /\ Running(h) /\ rx[h].pc = "wake_accept"
  /\ wait_accept' \in wake_up(wait_accept)
  /\ Then(h, rx[h].sock, "end", rx[h].rst)
  /\ UNCHANGED <<env, left, up, sk, queues, wait_connect, appVars, net>>

RxCloseWait(h) ==
  /\ Running(h) /\ rx[h].pc = "close_wait"
  /\ sk' = [sk EXCEPT ![rx[h].sock].state = "CLOSE_WAIT"]
  /\ Then(h, rx[h].sock, "end", rx[h].rst)
  /\ UNCHANGED <<env, left, up, queues, waits, appVars, net>>

\* The tail of tcp_process: a packet with RST closes the sock, which may send a
\* FIN, and drops one reference.
RxReset(h) ==
  LET s == rx[h].sock
      r == sk[s]
      fin == CloseBranch(r.state) # "none"
      c == IF fin THEN [r EXCEPT !.state = CloseBranch(@)] ELSE r
  IN  /\ Running(h) /\ rx[h].pc = "end"
      /\ rx' = [rx EXCEPT ![h] = RxIdle]
      /\ IF r.freed
         THEN up' = [up EXCEPT ![h] = "use after free"] /\ UNCHANGED <<sk, net>>
         ELSE /\ sk' = [sk EXCEPT ![s] =
                    free_tcp_sock(IF fin THEN AfterControl(c, {"FIN", "ACK"}) ELSE c)]
              /\ net' = IF fin THEN Emit(net, h, ControlPacket(s, c, {"FIN", "ACK"})) ELSE net
              /\ UNCHANGED up
      /\ UNCHANGED <<env, left, queues, waits, appVars>>

-----------------------------------------------------------------------------
(* The timer thread: tcp_scan_timer_list over every sock in timer_list.     *)

OnTimer(h) == {s \in Socks : Host(s) = h /\ sk[s].timer > 0}

\* Mutant: the sock is released but stays in TIME_WAIT.
Scan_KeepsState(s) ==
  LET r == [sk[s] EXCEPT !.timer = @ - 1]
      u == IF HasParent(s) THEN r ELSE tcp_bind_unhash(r)
  IN  IF r.timer > 0 THEN r ELSE free_tcp_sock([u EXCEPT !.timer = -1])

Scan(s) ==
  LET r == [sk[s] EXCEPT !.timer = @ - 1]
      u == IF HasParent(s) THEN r ELSE tcp_bind_unhash(r)
  IN  IF r.timer > 0 THEN r
      ELSE free_tcp_sock([u EXCEPT !.timer = -1, !.state = "CLOSED"])

\* Released by tcp_bind_unhash, or before, and used again by the same scan.
ScanUsesFreed(s) ==
  \/ sk[s].freed
  \/ sk[s].timer = 1 /\ ~ HasParent(s) /\ tcp_bind_unhash(sk[s]).freed

TimerScan(h) ==
  /\ Running(h) /\ OnTimer(h) # {}
  /\ IF \E s \in OnTimer(h) : ScanUsesFreed(s)
     THEN up' = [up EXCEPT ![h] = "use after free"] /\ sk' = sk
     ELSE sk' = [s \in Socks |-> IF s \in OnTimer(h) THEN Scan(s) ELSE sk[s]]
          /\ UNCHANGED up
  /\ UNCHANGED <<env, left, queues, waits, appVars, rx, net>>

-----------------------------------------------------------------------------
(* The network (external): FIFO, with the liberties env gives it.           *)

ForeignSyn ==
  /\ left.foreign
  /\ left' = [left EXCEPT !.foreign = FALSE]
  /\ net' = [net EXCEPT !["server"] =
               Append(@, [conn |-> "x", flags |-> {"SYN"}, seq |-> 0, ack |-> 0])]
  /\ UNCHANGED <<env, up, sk, queues, waits, appVars, rx>>

Duplicate(h) ==
  /\ left.dups > 0 /\ net[h] # <<>>
  /\ left' = [left EXCEPT !.dups = @ - 1]
  /\ net' = [net EXCEPT ![h] = Append(@, Head(@))]
  /\ UNCHANGED <<env, up, sk, queues, waits, appVars, rx>>

-----------------------------------------------------------------------------
AppStep(h) ==
  \/ h = "client" /\ (Connect \/ ConnectSleep \/ ConnectWake)
  \/ h = "server" /\ (Listen \/ AcceptTest \/ AcceptSleep \/ AcceptWake \/ AcceptDequeue
                       \/ AcceptUncount)
  \/ CloseSwitch(h) \/ CloseSetState(h) \/ CloseSendFin(h)

RxStep(h) ==
  \/ RxNoSock(h) \/ RxUsesFreed(h)
  \/ \E s \in Socks :
       \/ RxClosed(h, s) \/ RxListen(h, s) \/ RxSynSent(h, s) \/ RxSynRecv(h, s)
       \/ RxEstablished(h, s) \/ RxFinWait1(h, s) \/ RxFinWait2(h, s)
       \/ RxLastAck(h, s) \/ RxIgnored(h, s)
  \/ RxWakeConnect(h) \/ RxCount(h) \/ RxWakeAccept(h) \/ RxCloseWait(h) \/ RxReset(h)

NetStep == ForeignSyn \/ \E h \in Hosts : Duplicate(h)

Next == (\E h \in Hosts : AppStep(h) \/ RxStep(h) \/ TimerScan(h)) \/ NetStep

\* Every thread that can run is run: sleep() and usleep() end, the packet
\* thread polls its interfaces forever and the links lose nothing.
Fairness == \A h \in Hosts :
  WF_vars(AppStep(h)) /\ WF_vars(RxStep(h)) /\ WF_vars(TimerScan(h))

Spec == Init /\ [][Next]_vars /\ Fairness

-----------------------------------------------------------------------------
TypeOK ==
  /\ env \in EnvType
  /\ left \in [foreign : BOOLEAN, dups : Nat]
  /\ up \in [Hosts -> {"running", "exit(-1)", "null pointer", "wild pointer",
                       "use after free"}]
  /\ sk \in [Socks -> Sock]
  /\ listen_queue \in Seq({"C", "X"}) /\ accept_queue \in Seq({"C", "X"})
  /\ accept_backlog \in Int /\ backlog_read \in [rx : Int, app : Int]
  /\ lost_update \in BOOLEAN
  /\ wait_connect \in WaitStruct({"client"}) /\ wait_accept \in WaitStruct({"server"})
  /\ app \in [Hosts -> {"start", "sleep_on", "blocked", "accept", "dequeue",
                        "uncount_load", "uncount_store", "sleep", "set_state", "send_fin", "done"}]
  /\ csk \in {"none", "C", "X"}
  /\ closeTo \in [Hosts -> {"none", "FIN_WAIT_1", "LAST_ACK"}]
  /\ rx \in [Hosts -> [pc : RxPcs, sock : Socks \cup {"none"}, rst : BOOLEAN]]
  /\ net \in [Hosts -> Seq(Segment)]

\* The environment the two programs are meant for.
Friendly == /\ env.serverFirst /\ env.dups = 0
            /\ ~ env.foreign /\ ~ env.spurious

\* In it neither stack exits, follows a bad pointer or uses freed memory,
\* however the threads interleave and whichever side closes first.
HostsSurvive == Friendly => \A h \in Hosts : up[h] = "running"

\* What the application holds is a connection: tcp_sock_accept never takes the
\* head of an empty queue (as long as sleep_on waits for its notification), what
\* it returns has been established, and no sock is released under the
\* application that is about to close it.
AppSockValid ==
  /\ ~ env.spurious => up["server"] # "wild pointer"
  /\ csk # "none" => sk[csk].state \notin {"none", "LISTEN", "SYN_RECV"}
  /\ \A h \in Hosts : app[h] \in {"sleep", "set_state", "send_fin"} /\ up[h] = "running"
                      => ~ sk[MySock(h)].freed

\* The child sock is in exactly the queue its state calls for.  accept_backlog
\* counts accept_queue, but for the updates under way: the lists are changed
\* before the count, so it may be one behind either of them, and -1 when only the
\* dequeue has been counted.  It goes wrong for good only when an update is lost,
\* and then accept took the connection before it was told of it: the notification
\* that follows the count has nobody to wake and is left in wait_accept.
Elements(q) == {q[i] : i \in DOMAIN q}
Pending(pc, pcs) == IF pc \in pcs THEN 1 ELSE 0
Uncounted == Pending(rx["server"].pc, {"count_load", "count_store"})
Overcounted == Pending(app["server"], {"uncount_load", "uncount_store"})
QueuesConsistent ==
  /\ Elements(listen_queue) = {s \in {"C", "X"} : sk[s].state = "SYN_RECV"}
  /\ Elements(listen_queue) \cap Elements(accept_queue) = {}
  /\ csk \notin Elements(listen_queue) \cup Elements(accept_queue)
  /\ up["server"] # "wild pointer" /\ ~ lost_update =>
       accept_backlog + Uncounted = Len(accept_queue) + Overcounted
  /\ lost_update => wait_accept.notified \/ rx["server"].pc = "wake_accept"

References(r) == (IF r.hashed = "no" THEN 0 ELSE 1) + (IF r.bound THEN 1 ELSE 0)
                 + (IF r.timer > 0 THEN 1 ELSE 0)

\* ref_cnt counts at least the tables and the timer list that refer to the
\* sock, as the comment of free_tcp_sock asks, when no packet is duplicated.
RefCountCovers ==
  env.dups = 0 => \A s \in Socks : sk[s].ref_cnt >= References(sk[s])

\* The purpose of ref_cnt: a sock that a table or the timer list still refers
\* to has not been released.
NoDanglingReference == \A s \in Socks : References(sk[s]) > 0 => ~ sk[s].freed

\* FIN_WAIT_2 means that the peer has taken our FIN (step 8 of tcp_process: "if
\* it ACKs the outgoing FIN packet, switch to correpsonding state").
Peer(s) == IF s = "K" THEN "C" ELSE "K"
FinTaken == \A s \in {"K", "C"} :
  sk[s].state \in {"FIN_WAIT_2", "TIME_WAIT"} => sk[Peer(s)].rcv_nxt = sk[s].snd_nxt

\* When the server closes after the client, FIN_WAIT_2 has that meaning, and
\* once the client is in TIME_WAIT each side has taken the other's FIN and
\* nothing else: states and sequence numbers of the two ends agree.
CleanShutdown ==
  (env.timely /\ Friendly) =>
     /\ FinTaken
     /\ sk["K"].state \in {"TIME_WAIT", "CLOSED"} =>
           /\ sk["C"].state \in {"LAST_ACK", "CLOSED"}
           /\ sk["K"].rcv_nxt = sk["C"].snd_nxt
           /\ sk["C"].rcv_nxt = sk["K"].snd_nxt

\* The state diagram of TCP, as far as this stack goes.
Diagram == {<<"none", "SYN_SENT">>, <<"none", "LISTEN">>, <<"none", "SYN_RECV">>,
  <<"LISTEN", "SYN_RECV">>, <<"SYN_SENT", "ESTABLISHED">>, <<"SYN_RECV", "ESTABLISHED">>,
  <<"ESTABLISHED", "CLOSE_WAIT">>, <<"ESTABLISHED", "FIN_WAIT_1">>,
  <<"CLOSE_WAIT", "LAST_ACK">>, <<"FIN_WAIT_1", "FIN_WAIT_2">>,
  <<"FIN_WAIT_2", "TIME_WAIT">>, <<"LAST_ACK", "CLOSED">>, <<"TIME_WAIT", "CLOSED">>}

\* No step takes a sock off the diagram, when the two closes do not race.
FollowsDiagram ==
  [][env.timely /\ env.dups = 0 =>
       \A s \in Socks : sk'[s].state # sk[s].state =>
                          <<sk[s].state, sk'[s].state>> \in Diagram]_vars

\* Both applications get their connection; and when the server closes after
\* the client, both ends are closed in the end and stay so.
ConnectThenClose ==
  /\ Friendly => <>(app["client"] = "sleep") /\ <>(csk = "C")
  /\ (Friendly /\ env.timely) =>
       <>[](sk["K"].state = "CLOSED" /\ sk["C"].state = "CLOSED")
=============================================================================
