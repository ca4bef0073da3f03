------------------------------ MODULE TcpData ------------------------------
(***************************************************************************)
(* One connection of the TCP stack of 16-tcp_data_transfer: tcp_client     *)
(* connects, writes and reads in turn and closes; tcp_server accepts,      *)
(* echoes what it reads and never closes.  Each host has an application    *)
(* thread and a packet thread that share the sock without a lock, so       *)
(* every access to snd_wnd is a step of its own.                           *)
(*                                                                         *)
(* The listening sock and the child it makes for the client are one here:  *)
(* only one packet is for the former, and the child, copied from it by     *)
(* memcpy, has its buffer, its windows and its wait structures.            *)
(*                                                                         *)
(* The receive buffer is the queue that RingBuffer is shown to implement.  *)
(* Sequence and acknowledgment numbers are left out: no test of lab 16     *)
(* reads them.                                                             *)
(***************************************************************************)
EXTENDS WaitOps, Integers, SequencesExt

CONSTANTS Workloads,     \* what the applications do, see Workload
          MaxSeg         \* max_seg_size: the payload of an Ethernet frame

\* The largest value of a u16, which snd_wnd and rcv_wnd are.
MaxU16 == 65535

\* writes   how many times tcp_client calls tcp_sock_write, and the length of
\* len        what it writes
\* banner   the length of "server echoes: "
\* readMax  the length tcp_server passes to tcp_sock_read
\* window   TCP_DEFAULT_WINDOW
Workload == [writes : Nat \ {0}, len : Nat \ {0}, banner : Nat,
             readMax : Nat \ {0}, window : 2 .. MaxU16]

ASSUME DataAssumption == Workloads \subseteq Workload /\ MaxSeg \in Nat \ {0}

Hosts == {"client", "server"}
Other(h) == IF h = "client" THEN "server" ELSE "client"

VARIABLES load,      \* the workload of this behaviour
          up,        \* per host: FALSE once an assert has ended the process
          state,     \* tsk->state
          snd_wnd, rcv_wnd, rcv_buf, wait_send,
          wait_conn, \* the client's wait_connect, the server's wait_accept
          app,       \* the application thread, see Thread
          rx,        \* the packet thread inside tcp_update_window
          net,       \* the packets on their way to each host
          sent, got  \* history: bytes each host has put into packets, and bytes
                     \* its application has taken from tcp_sock_read

vars == <<load, wait_conn, up, state, snd_wnd, rcv_wnd, rcv_buf, wait_send, app, rx, net, sent, got>>
sock == <<state, snd_wnd, rcv_wnd, rcv_buf, wait_send>>

-----------------------------------------------------------------------------
(* The bytes.  The client's are numbered, so that order and loss show.      *)

Banner == 0
Junk == -1                    \* what lies in memory after the caller's buffer
Total == load.writes * load.len
Byte == {Junk, Banner} \cup 1 .. Total
Upto(n) == [i \in 1 .. n |-> i]

ClientWrite(round) == [i \in 1 .. load.len |-> (round - 1) * load.len + i]
Echo(bytes) == [i \in 1 .. load.banner |-> Banner] \o bytes

\* memcpy(packet + hdr_size, buf + wlen, seg_size), which may run past buf.
Payload(buf, wlen, seg) ==
  [i \in 1 .. seg |-> IF wlen + i \in DOMAIN buf THEN buf[wlen + i] ELSE Junk]

Packet == [flags : SUBSET {"SYN", "PSH", "ACK", "FIN"}, rwnd : 0 .. MaxU16, data : Seq(Byte)]

\* Where an application thread is: in tcp_sock_connect, tcp_sock_listen or
\* tcp_sock_accept (connect .. waiting), in tcp_send_data (check .. store), in
\* tcp_sock_read (read .. window), in tcp_sock_close (close, fin), or done.
Thread == [pc : {"connect", "listen", "accept", "wait", "waiting",
                 "check", "sleep", "asleep", "compare", "take", "load", "store",
                 "read", "settle", "get", "window", "close", "fin", "done"},
           round : Nat, buf : Seq(Byte), wlen : Nat,
           seg : 0 .. MaxU16, wnd : 0 .. MaxU16]

\* alloc_tcp_sock: snd_wnd is zero until the peer's first packet is processed.
Init ==
  /\ load \in Workloads
  /\ up = [h \in Hosts |-> TRUE]
  /\ state = [h \in Hosts |-> "CLOSED"]
  /\ snd_wnd = [h \in Hosts |-> 0]
  /\ rcv_wnd = [h \in Hosts |-> load.window]
  /\ rcv_buf = [h \in Hosts |-> <<>>]
  /\ wait_send = [h \in Hosts |-> wait_init]
  /\ wait_conn = [h \in Hosts |-> wait_init]
  /\ app = [h \in Hosts |->
              [pc |-> IF h = "client" THEN "connect" ELSE "listen", round |-> 1,
               buf |-> IF h = "client" THEN ClientWrite(1) ELSE <<>>,
               wlen |-> 0, seg |-> 0, wnd |-> 0]]
  /\ rx = [h \in Hosts |-> [pc |-> "idle", rwnd |-> 0, old |-> 0]]
  /\ net = [h \in Hosts |-> <<>>]
  /\ sent = [h \in Hosts |-> <<>>]
  /\ got = [h \in Hosts |-> <<>>]

At(h, pc) == up[h] /\ app[h].pc = pc
Goto(h, pc) == app' = [app EXCEPT ![h].pc = pc]
Send(h, p) == net' = [net EXCEPT ![Other(h)] = Append(@, p)]
Control(h, flags) == [flags |-> flags, rwnd |-> rcv_wnd[h], data |-> <<>>]

-----------------------------------------------------------------------------
(* Opening the connection, in the application threads.                      *)

\* tcp_sock_bind and tcp_sock_listen.
Listen ==
  /\ At("server", "listen")
  /\ state' = [state EXCEPT !["server"] = "LISTEN"]
  /\ Goto("server", "accept")
  /\ UNCHANGED <<load, wait_conn, up, snd_wnd, rcv_wnd, rcv_buf, wait_send, rx, net, sent, got>>

\* tcp_sock_connect up to its sleep_on; the server is started first.
Connect ==
  /\ At("client", "connect")
  /\ state["server"] # "CLOSED"
  /\ state' = [state EXCEPT !["client"] = "SYN_SENT"]
  /\ Send("client", Control("client", {"SYN"}))
  /\ Goto("client", "wait")
  /\ UNCHANGED <<load, wait_conn, up, snd_wnd, rcv_wnd, rcv_buf, wait_send, rx, sent, got>>

\* Where an application goes when its connection is there: the client to its
\* first write, the server to its first read.
Opened(h) == IF h = "client" THEN "check" ELSE "read"

\* tcp_sock_accept tests the accept queue, which holds the child from ESTABLISHED
\* on, and dequeues it after the test or after sleep_on.
Queued == state["server"] \in {"ESTABLISHED", "CLOSE_WAIT"}
AcceptTest ==
  /\ At("server", "accept")
  /\ Goto("server", IF Queued THEN Opened("server") ELSE "wait")
  /\ UNCHANGED <<load, wait_conn, up, sock, rx, net, sent, got>>

\* sleep_on(wait_connect), sleep_on(wait_accept), ...
OpenSleep(h) ==
  /\ At(h, "wait")
  /\ LET w == sleep_on(wait_conn[h], h)
     IN  /\ wait_conn' = [wait_conn EXCEPT ![h] = w]
         /\ Goto(h, IF h \in w.waiting THEN "waiting" ELSE Opened(h))
  /\ UNCHANGED <<load, up, sock, rx, net, sent, got>>

\* ... and its return.
OpenReturn(h) ==
  /\ At(h, "waiting")
  /\ CanResume(wait_conn[h], h, FALSE)
  /\ wait_conn' = [wait_conn EXCEPT ![h] = resume(@, h)]
  /\ Goto(h, Opened(h))
  /\ UNCHANGED <<load, up, sock, rx, net, sent, got>>

-----------------------------------------------------------------------------
(* tcp_send_data, in the application thread.                                *)

\* while (wlen < len) { if (tsk->snd_wnd == 0) sleep_on ...
CheckWindow(h) ==
  /\ At(h, "check")
  /\ app[h].wlen < Len(app[h].buf)
  /\ Goto(h, IF snd_wnd[h] = 0 THEN "sleep" ELSE "compare")
  /\ UNCHANGED <<load, wait_conn, up, sock, rx, net, sent, got>>

SleepOn(h) ==
  /\ At(h, "sleep")
  /\ LET w == sleep_on(wait_send[h], h)
     IN  /\ wait_send' = [wait_send EXCEPT ![h] = w]
         /\ Goto(h, IF h \in w.waiting THEN "asleep" ELSE "compare")
  /\ UNCHANGED <<load, wait_conn, up, state, snd_wnd, rcv_wnd, rcv_buf, rx, net, sent, got>>

CondWaitReturn(h) ==
  /\ At(h, "asleep")
  /\ CanResume(wait_send[h], h, FALSE)
  /\ wait_send' = [wait_send EXCEPT ![h] = resume(@, h)]
  /\ Goto(h, "compare")
  /\ UNCHANGED <<load, wait_conn, up, state, snd_wnd, rcv_wnd, rcv_buf, rx, net, sent, got>>

Smaller(a, b) == IF a < b THEN a ELSE b

\* Mutant: the segment is bounded by the whole message, not by what is left.
Wanted_WholeBuffer(a) == Smaller(MaxSeg, Len(a.buf))
\* What tcp_send_data wants to send next: min(max_seg_size, len - wlen).
Wanted(a) == Smaller(MaxSeg, Len(a.buf) - a.wlen)

\* min3 reads snd_wnd twice, once to compare ...
CompareWindow(h) ==
  /\ At(h, "compare")
  /\ LET want == Wanted(app[h])
     IN  IF want < snd_wnd[h]
         THEN app' = [app EXCEPT ![h].seg = want, ![h].pc = "load"]
         ELSE Goto(h, "take")
  /\ UNCHANGED <<load, wait_conn, up, sock, rx, net, sent, got>>

\* ... and once to use it.
TakeWindow(h) ==
  /\ At(h, "take")
  /\ app' = [app EXCEPT ![h].seg = snd_wnd[h], ![h].pc = "load"]
  /\ UNCHANGED <<load, wait_conn, up, sock, rx, net, sent, got>>

\* tcp_send_packet: snd_wnd -= tcp_data_len is a load ...
LoadWindow(h) ==
  /\ At(h, "load")
  /\ app' = [app EXCEPT ![h].wnd = snd_wnd[h], ![h].pc = "store"]
  /\ UNCHANGED <<load, wait_conn, up, sock, rx, net, sent, got>>

\* ... and a store, modulo 2^16; then the packet leaves.
StoreWindow(h) ==
  /\ At(h, "store")
  /\ LET a == app[h]
         data == Payload(a.buf, a.wlen, a.seg)
     IN  /\ snd_wnd' = [snd_wnd EXCEPT ![h] = (a.wnd - a.seg) % (MaxU16 + 1)]
         /\ Send(h, [flags |-> {"PSH", "ACK"}, rwnd |-> rcv_wnd[h], data |-> data])
         /\ sent' = [sent EXCEPT ![h] = @ \o data]
         /\ app' = [app EXCEPT ![h].wlen = a.wlen + a.seg, ![h].pc = "check"]
  /\ UNCHANGED <<load, wait_conn, up, state, rcv_wnd, rcv_buf, wait_send, rx, got>>

\* tcp_sock_write returns; both applications go on to tcp_sock_read.
WriteReturns(h) ==
  /\ At(h, "check")
  /\ app[h].wlen >= Len(app[h].buf)
  /\ Goto(h, "read")
  /\ UNCHANGED <<load, wait_conn, up, sock, rx, net, sent, got>>

-----------------------------------------------------------------------------
(* tcp_sock_read and tcp_sock_close, in the application thread.             *)

\* Mutant: the loop ends one round early.
NextRound_Early(a) ==
  IF a.round + 1 < load.writes
  THEN [a EXCEPT !.round = @ + 1, !.buf = ClientWrite(a.round + 1), !.wlen = 0,
                 !.pc = "check"]
  ELSE [a EXCEPT !.pc = "close"]

\* The next round of tcp_client's loop, or its end.
NextRound(a) ==
  IF a.round < load.writes
  THEN [a EXCEPT !.round = @ + 1, !.buf = ClientWrite(a.round + 1), !.wlen = 0,
                 !.pc = "check"]
  ELSE [a EXCEPT !.pc = "close"]

\* With an empty buffer the client goes on; the server polls again.
ReadNothing(h) ==
  /\ At(h, "read")
  /\ rcv_buf[h] = <<>>
  /\ h = "client"
  /\ app' = [app EXCEPT ![h] = NextRound(@)]
  /\ UNCHANGED <<load, wait_conn, up, sock, rx, net, sent, got>>

ReadMax(h) == IF h = "server" THEN load.readMax ELSE 1000

\* Mutant: what has been read stays in the buffer when it is read only in part.
Rest_Kept(buf, n) == IF n < Len(buf) THEN buf ELSE <<>>
Rest(buf, n) == SubSeq(buf, n + 1, Len(buf))

\* The steps of read_ring_buffer are those of ByteQueue.  Ask: min compares what is
\* there with the size, ...
ReadAsk(h) ==
  /\ At(h, "read")
  /\ rcv_buf[h] # <<>>
  /\ IF Len(rcv_buf[h]) < ReadMax(h)
     THEN Goto(h, "settle")
     ELSE app' = [app EXCEPT ![h].seg = ReadMax(h), ![h].pc = "get"]
  /\ UNCHANGED <<load, wait_conn, up, sock, rx, net, sent, got>>

\* Settle: ... and evaluates what is there once more, which may exceed the size by
\* now; the bytes are then taken to fit where the caller put its buffer ...
ReadSettle(h) ==
  /\ At(h, "settle")
  /\ app' = [app EXCEPT ![h].seg = Len(rcv_buf[h]), ![h].pc = "get"]
  /\ UNCHANGED <<load, wait_conn, up, sock, rx, net, sent, got>>

\* Get: ... and they leave the buffer; the server makes its echo of what it has got.
ReadGet(h) ==
  /\ At(h, "get")
  /\ LET n == app[h].seg
         bytes == SubSeq(rcv_buf[h], 1, n)
     IN  /\ rcv_buf' = [rcv_buf EXCEPT ![h] = Rest(@, n)]
         /\ got' = [got EXCEPT ![h] = @ \o bytes]
         /\ app' = [app EXCEPT ![h].pc = "window",
                               ![h].buf = IF h = "server" THEN Echo(bytes) ELSE @,
                               ![h].wlen = IF h = "server" THEN 0 ELSE @]
  /\ UNCHANGED <<load, wait_conn, up, state, snd_wnd, rcv_wnd, wait_send, rx, net, sent>>

\* Mutant: the space in use instead of the space left.
ring_buffer_free_Used(buf) == Len(buf)
ring_buffer_free(buf) == load.window - Len(buf) - 1

\* tsk->rcv_wnd = ring_buffer_free(...), of the buffer as it is by then.
UpdateRcvWindow(h) ==
  /\ At(h, "window")
  /\ rcv_wnd' = [rcv_wnd EXCEPT ![h] = ring_buffer_free(rcv_buf[h])]
  /\ app' = [app EXCEPT ![h] = IF h = "server" THEN [@ EXCEPT !.pc = "check"]
                                               ELSE NextRound(@)]
  /\ UNCHANGED <<load, wait_conn, up, state, snd_wnd, rcv_buf, wait_send, rx, net, sent, got>>

\* tcp_sock_close of the client: FIN_WAIT_1 first, then the FIN.
Close(h) ==
  /\ At(h, "close")
  /\ state' = [state EXCEPT ![h] = "FIN_WAIT_1"]
  /\ Goto(h, "fin")
  /\ UNCHANGED <<load, wait_conn, up, snd_wnd, rcv_wnd, rcv_buf, wait_send, rx, net, sent, got>>

SendFin(h) ==
  /\ At(h, "fin")
  /\ Send(h, Control(h, {"FIN", "ACK"}))
  /\ Goto(h, "done")
  /\ UNCHANGED <<load, wait_conn, up, sock, rx, sent, got>>

-----------------------------------------------------------------------------
(* tcp_process, in the packet thread.                                       *)

Arriving(h) == up[h] /\ rx[h].pc = "idle" /\ net[h] # <<>>
Taken(h) == [net EXCEPT ![h] = Tail(@)]
Answered(h, flags) == [Taken(h) EXCEPT ![Other(h)] = Append(@, Control(h, flags))]

\* tcp_state_listen: the child is made in SYN_RECV and answers.
ReceiveSyn(h) ==
  /\ Arriving(h)
  /\ state[h] = "LISTEN"
  /\ state' = [state EXCEPT ![h] = "SYN_RECV"]
  /\ net' = Answered(h, {"SYN", "ACK"})
  /\ UNCHANGED <<load, wait_conn, up, snd_wnd, rcv_wnd, rcv_buf, wait_send, app, rx, sent, got>>

\* tcp_state_syn_sent: the ACK leaves before tcp_update_window and ESTABLISHED.
ReceiveSynAck(h) ==
  /\ Arriving(h)
  /\ state[h] = "SYN_SENT"
  /\ Head(net[h]).flags = {"SYN", "ACK"}
  /\ net' = Answered(h, {"ACK"})
  /\ rx' = [rx EXCEPT ![h].pc = "old", ![h].rwnd = Head(net[h]).rwnd]
  /\ UNCHANGED <<load, wait_conn, up, sock, app, sent, got>>

\* tcp_state_syn_recv: any packet will do.
ReceiveAck(h) ==
  /\ Arriving(h)
  /\ state[h] = "SYN_RECV"
  /\ net' = Taken(h)
  /\ rx' = [rx EXCEPT ![h].pc = "old", ![h].rwnd = Head(net[h]).rwnd]
  /\ UNCHANGED <<load, wait_conn, up, sock, app, sent, got>>

\* What follows tcp_update_window: in the handshake the state is set, and the child
\* put into the accept queue, ...
AfterUpdate(h) == IF state[h] \in {"SYN_SENT", "SYN_RECV"} THEN "establish" ELSE "idle"
Establish(h) ==
  /\ up[h] /\ rx[h].pc = "establish"
  /\ state' = [state EXCEPT ![h] = "ESTABLISHED"]
  /\ rx' = [rx EXCEPT ![h].pc = "opened"]
  /\ UNCHANGED <<load, wait_conn, up, snd_wnd, rcv_wnd, rcv_buf, wait_send, app, net, sent, got>>

\* ... and the application is woken.
WakeOpened(h) ==
  /\ up[h] /\ rx[h].pc = "opened"
  /\ \E w \in wake_up(wait_conn[h]) : wait_conn' = [wait_conn EXCEPT ![h] = w]
  /\ rx' = [rx EXCEPT ![h].pc = "idle"]
  /\ UNCHANGED <<load, up, sock, app, net, sent, got>>

\* Mutant: room for one byte is enough.
Fits_AnyRoom(buf, data) == Len(data) > 0 /\ ring_buffer_free(buf) > 0
\* assert(size > 0 && ring_buffer_free(rbuf) >= size)
Fits(buf, data) == Len(data) > 0 /\ ring_buffer_free(buf) >= Len(data)

ReceiveData(h) ==
  /\ Arriving(h)
  /\ state[h] = "ESTABLISHED"
  /\ LET p == Head(net[h])
     IN  /\ "PSH" \in p.flags
         /\ Fits(rcv_buf[h], p.data)
         /\ rcv_buf' = [rcv_buf EXCEPT ![h] = @ \o p.data]
         /\ rx' = [rx EXCEPT ![h].pc = "old", ![h].rwnd = p.rwnd]
  /\ net' = Taken(h)
  /\ UNCHANGED <<load, wait_conn, up, state, snd_wnd, rcv_wnd, wait_send, app, sent, got>>

\* The assert of write_ring_buffer fails and ends the process.
AssertFails(h) ==
  /\ Arriving(h)
  /\ state[h] = "ESTABLISHED"
  /\ "PSH" \in Head(net[h]).flags
  /\ ~ Fits(rcv_buf[h], Head(net[h]).data)
  /\ up' = [up EXCEPT ![h] = FALSE]
  /\ net' = Taken(h)
  /\ UNCHANGED <<load, wait_conn, sock, app, rx, sent, got>>

\* tcp_update_window: old_snd_wnd = tsk->snd_wnd,
ReadOldWindow(h) ==
  /\ up[h] /\ rx[h].pc = "old"
  /\ rx' = [rx EXCEPT ![h].pc = "new", ![h].old = snd_wnd[h]]
  /\ UNCHANGED <<load, wait_conn, up, sock, app, net, sent, got>>

\* tsk->snd_wnd = cb->rwnd,
SetWindow(h) ==
  /\ up[h] /\ rx[h].pc = "new"
  /\ snd_wnd' = [snd_wnd EXCEPT ![h] = rx[h].rwnd]
  /\ rx' = [rx EXCEPT ![h].pc = IF rx[h].old = 0 THEN "wake" ELSE AfterUpdate(h)]
  /\ UNCHANGED <<load, wait_conn, up, state, rcv_wnd, rcv_buf, wait_send, app, net, sent, got>>

\* and wake_up(tsk->wait_send) when the old window was zero.
WakeSender(h) ==
  /\ up[h] /\ rx[h].pc = "wake"
  /\ \E w \in wake_up(wait_send[h]) : wait_send' = [wait_send EXCEPT ![h] = w]
  /\ rx' = [rx EXCEPT ![h].pc = AfterUpdate(h)]
  /\ UNCHANGED <<load, wait_conn, up, state, snd_wnd, rcv_wnd, rcv_buf, app, net, sent, got>>

ReceiveFin(h) ==
  /\ Arriving(h)
  /\ state[h] = "ESTABLISHED"
  /\ "FIN" \in Head(net[h]).flags
  /\ state' = [state EXCEPT ![h] = "CLOSE_WAIT"]
  /\ net' = Answered(h, {"ACK"})
  /\ UNCHANGED <<load, wait_conn, up, snd_wnd, rcv_wnd, rcv_buf, wait_send, app, rx, sent, got>>

\* FIN_WAIT_1: every packet has ACK, and whatever data it carries is dropped.
ReceiveInFinWait1(h) ==
  /\ Arriving(h)
  /\ state[h] = "FIN_WAIT_1"
  /\ "ACK" \in Head(net[h]).flags
  /\ state' = [state EXCEPT ![h] = "FIN_WAIT_2"]
  /\ net' = Taken(h)
  /\ UNCHANGED <<load, wait_conn, up, snd_wnd, rcv_wnd, rcv_buf, wait_send, app, rx, sent, got>>

\* FIN_WAIT_2: no FIN ever comes, and everything else is dropped.
ReceiveInFinWait2(h) ==
  /\ Arriving(h)
  /\ state[h] = "FIN_WAIT_2"
  /\ "FIN" \notin Head(net[h]).flags
  /\ net' = Taken(h)
  /\ UNCHANGED <<load, wait_conn, up, sock, app, rx, sent, got>>

-----------------------------------------------------------------------------
SendStep(h) == \/ CheckWindow(h) \/ SleepOn(h) \/ CondWaitReturn(h)
               \/ CompareWindow(h) \/ TakeWindow(h)
               \/ LoadWindow(h) \/ StoreWindow(h) \/ WriteReturns(h)
ReadStep(h) == \/ ReadNothing(h) \/ ReadAsk(h) \/ ReadSettle(h) \/ ReadGet(h)
               \/ UpdateRcvWindow(h)
CloseStep(h) == Close(h) \/ SendFin(h)
OpenStep(h) == \/ h = "client" /\ Connect
               \/ h = "server" /\ (Listen \/ AcceptTest)
               \/ OpenSleep(h) \/ OpenReturn(h)
AppStep(h) == OpenStep(h) \/ SendStep(h) \/ ReadStep(h) \/ CloseStep(h)

RxStep(h) == \/ ReceiveSyn(h) \/ ReceiveSynAck(h) \/ ReceiveAck(h)
             \/ Establish(h) \/ WakeOpened(h)
             \/ ReceiveData(h) \/ AssertFails(h)
             \/ ReadOldWindow(h) \/ SetWindow(h) \/ WakeSender(h)
             \/ ReceiveFin(h) \/ ReceiveInFinWait1(h) \/ ReceiveInFinWait2(h)

Next == \E h \in Hosts : AppStep(h) \/ RxStep(h)

\* Each thread that can run runs.
Fairness == \A h \in Hosts : WF_vars(AppStep(h)) /\ WF_vars(RxStep(h))

Spec == Init /\ [][Next]_vars /\ Fairness

-----------------------------------------------------------------------------
(* Properties.                                                              *)

TypeOK ==
  /\ load \in Workloads
  /\ up \in [Hosts -> BOOLEAN]
  /\ state \in [Hosts -> {"CLOSED", "LISTEN", "SYN_SENT", "SYN_RECV", "ESTABLISHED",
                         "FIN_WAIT_1", "FIN_WAIT_2", "CLOSE_WAIT"}]
  /\ snd_wnd \in [Hosts -> 0 .. MaxU16]
  /\ rcv_wnd \in [Hosts -> 0 .. MaxU16]
  /\ rcv_buf \in [Hosts -> Seq(Byte)]
  /\ \A h \in Hosts : Len(rcv_buf[h]) < load.window
  /\ DOMAIN wait_send = Hosts /\ DOMAIN wait_conn = Hosts
  /\ \A h \in Hosts : wait_send[h] \in WaitStruct({h}) /\ wait_conn[h] \in WaitStruct({h})
  /\ app \in [Hosts -> Thread]
  /\ rx \in [Hosts -> [pc : {"idle", "old", "new", "wake", "establish", "opened"}, rwnd : 0 .. MaxU16,
                       old : 0 .. MaxU16]]
  /\ net \in [Hosts -> Seq(Packet)]
  /\ sent \in [Hosts -> Seq(Byte)]
  /\ got \in [Hosts -> Seq(Byte)]

InFlight(h) == FlattenSeq([i \in DOMAIN net[h] |-> net[h][i].data])

\* No byte is lost, repeated or reordered between the sender's tcp_send_packet
\* and the receiver's application: as long as the receiver takes data, what its
\* application has, what is in rcv_buf and what is on its way are together what
\* the peer has sent.
StreamIntact ==
  \A h \in Hosts :
    up[h] => LET held == got[h] \o rcv_buf[h]
             IN  IF state[h] \in {"ESTABLISHED", "CLOSE_WAIT"}
                 THEN held \o InFlight(h) = sent[Other(h)]
                 ELSE IsPrefix(held, sent[Other(h)])

\* The traffic of the connection fits into one window, one byte less than
\* a buffer can hold; the echo is the longest when every byte is read alone.
Ample == Total * (1 + load.banner) <= load.window - 2

\* With an ample window the asserts of write_ring_buffer hold, no thread waits
\* for window, no segment is empty, and the two reads of snd_wnd that min3 makes
\* never yield more than what is left of the message.
WindowSuffices ==
  Ample => \A h \in Hosts :
    /\ up[h]
    /\ app[h].pc \notin {"sleep", "asleep"}
    /\ app[h].pc \in {"load", "store"} => app[h].seg \in 1 .. Len(app[h].buf) - app[h].wlen

\* What is left of some bytes without the banners.
Pieces(bytes) == [i \in DOMAIN bytes |-> IF bytes[i] = Banner THEN <<>> ELSE <<bytes[i]>>]
Text(bytes) == FlattenSeq(Pieces(bytes))

\* With an ample window the server gets the client's bytes in order, and what the
\* client gets back is, banners apart, a prefix of what it wrote.
EchoFaithful ==
  Ample => /\ got["server"] = Upto(Len(got["server"]))
           /\ IsPrefix(Text(got["client"]), Upto(Total))

\* With an ample window everything the client wrote is read and echoed by the
\* server, and the client ends in FIN_WAIT_2, for the server never closes.
AllEchoed ==
  Ample => <>[](/\ got["server"] = Upto(Total)
                /\ Text(sent["server"]) = Upto(Total)
                /\ state["client"] = "FIN_WAIT_2")

\* "wait until snd_wnd allows to send more data": what tcp_send_data has chosen
\* to send is never nothing.
WaitsForWindow == \A h \in Hosts : app[h].pc = "store" => app[h].seg > 0

\* "if the snd_wnd before updating is zero, notify tcp_sock_send": a thread does not
\* sleep on wait_send while it has window, unless the wakeup is on its way.
WindowWakes ==
  \A h \in Hosts :
    (up[h] /\ app[h].pc = "asleep" /\ snd_wnd[h] > 0)
      => h \in wait_send[h].signaled \/ rx[h].pc = "wake"
=============================================================================
