-------------------------- MODULE SockParts_proofs --------------------------
(***************************************************************************)
(* The two structures of a sock that the packet thread and the application *)
(* share, each by itself.                                                  *)
(*                                                                         *)
(* The wait structures: with one sleeper, as every structure of this stack *)
(* has, no wakeup is lost and none is invented, whatever the number of     *)
(* threads that call wake_up and wait_exit.                                *)
(*                                                                         *)
(* The receive buffer: for every size, every set of byte values and every  *)
(* payload, the unlocked writer and the unlocked reader never touch the    *)
(* same slot, and what the two do is a FIFO queue.                         *)
(***************************************************************************)
EXTENDS SynchWait, RingBuffer, TLAPS

-----------------------------------------------------------------------------
(* The wait structures.                                                     *)

OneSleeper == \A s, t \in Sleepers : s = t

\* A thread is in waiting exactly while it is blocked, the flag sleep tells it,
\* a wakeup has been delivered once notified or dead is set, and only then.
WaitInv ==
  /\ WaitTypeOK
  /\ \A t \in Sleepers : t \in w.waiting <=> pc[t] = "blocked"
  /\ w.waiting # {} => w.sleep
  /\ w.signaled \subseteq w.waiting
  /\ (w.notified \/ w.dead) => w.waiting \subseteq w.signaled
  /\ w.signaled # {} => w.notified \/ w.dead

\* The invariant holds initially.
LEMMA WaitInitInv == WaitInit => WaitInv
  BY ThreadsAssumption DEF WaitInit, WaitInv, WaitTypeOK, WaitStruct, wait_init, PCs, Threads

\* What wake_up makes of a structure that satisfies the invariant.
LEMMA WakeUpEffect ==
  ASSUME OneSleeper, WaitInv, NEW v \in wake_up(w)
  PROVE  /\ v \in WaitStruct(Sleepers)
         /\ v.waiting = w.waiting /\ v.sleep = w.sleep /\ v.dead = w.dead
         /\ v.signaled = w.waiting
         /\ v.notified \/ v.dead
<1>1. CASE w.dead \/ w.notified
  BY <1>1 DEF wake_up, WaitInv, WaitTypeOK
<1>2. CASE ~ (w.dead \/ w.notified)
  <2> DEFINE n == [w EXCEPT !.notified = TRUE]
  <2>1. /\ n \in WaitStruct(Sleepers) /\ n.notified
        /\ n.waiting = w.waiting /\ n.sleep = w.sleep /\ n.dead = w.dead
        /\ n.signaled = w.signaled
    BY DEF WaitInv, WaitTypeOK, WaitStruct
  <2>2. w.waiting \subseteq Sleepers /\ w.signaled \subseteq w.waiting /\ w.signaled = {}
    BY <1>2 DEF WaitInv, WaitTypeOK, WaitStruct
  <2>3. CASE w.waiting = {}
    <3>1. v = n
      BY <1>2, <2>1, <2>2, <2>3 DEF wake_up, Signal
    <3> QED  BY <2>1, <2>2, <2>3, <3>1
  <2>4. CASE w.waiting # {}
    <3>1. w.sleep /\ ~ (n.waiting \subseteq n.signaled)
      BY <2>1, <2>2, <2>4 DEF WaitInv
    <3>2. v \in {[n EXCEPT !.signaled = @ \cup {t}] : t \in n.waiting \ n.signaled}
      BY <1>2, <3>1 DEF wake_up, Signal
    <3>3. PICK t \in n.waiting : v = [n EXCEPT !.signaled = @ \cup {t}]
      BY <3>2
    <3>4. w.waiting = {t}
      BY <2>1, <2>2, <3>3 DEF OneSleeper
    <3>5. v.signaled = w.signaled \cup {t} /\ v.waiting = w.waiting /\ v.sleep = w.sleep
          /\ v.dead = w.dead /\ v.notified /\ v \in WaitStruct(Sleepers)
      BY <2>1, <2>2, <3>3 DEF WaitStruct
    <3> QED  BY <2>2, <3>4, <3>5
  <2> QED  BY <2>3, <2>4
<1> QED  BY <1>1, <1>2

\* Every step of every thread preserves the invariant.
LEMMA WaitNextInv == OneSleeper /\ ~ Spurious /\ WaitInv /\ [WaitNext]_waitVars => WaitInv'
<1> SUFFICES ASSUME OneSleeper, ~ Spurious, WaitInv, [WaitNext]_waitVars PROVE WaitInv'
  OBVIOUS
<1>0. /\ \A t \in Sleepers : t \in Threads /\ t # Nobody
      /\ \A t \in Wakers : t \in Threads /\ t \notin Sleepers
      /\ pc \in [Threads -> PCs] /\ w \in WaitStruct(Sleepers)
  BY ThreadsAssumption DEF Threads, WaitInv, WaitTypeOK
<1>1. CASE UNCHANGED waitVars
  BY <1>1 DEF waitVars, WaitInv, WaitTypeOK
<1>2. ASSUME NEW t \in Threads, NEW op \in PCs \ {"blocked"}, Lock(t, op) PROVE WaitInv'
  BY <1>0, <1>2 DEF Lock, Goto, WaitInv, WaitTypeOK
<1>3. ASSUME NEW t \in Sleepers, SleepOn(t) PROVE WaitInv'
  <2>1. pc[t] = "sleep_on" /\ w' = sleep_on(w, t) /\ w.waiting = {}
    <3>1. w.waiting \subseteq Sleepers /\ t \notin w.waiting
      BY <1>0, <1>3 DEF SleepOn, WaitInv, WaitStruct
    <3> QED  BY <1>3, <3>1 DEF SleepOn, OneSleeper
  <2>2. w.signaled = {}
    BY <2>1 DEF WaitInv
  <2>3. CASE w.dead
    <3>1. w' = w /\ Goto(t, "unlock") /\ lock' = lock /\ ret' = ret
      BY <1>3, <2>1, <2>3 DEF SleepOn, sleep_on
    <3> QED  BY <1>0, <2>1, <2>2, <3>1 DEF Goto, WaitInv, WaitTypeOK, PCs
  <2>4. CASE ~ w.dead /\ w.notified
    <3>1. w' = [w EXCEPT !.notified = FALSE, !.sleep = FALSE]
      BY <2>1, <2>4 DEF sleep_on
    <3>2. /\ w' \in WaitStruct(Sleepers) /\ w'.waiting = {} /\ w'.signaled = {}
      BY <1>0, <2>1, <2>2, <3>1 DEF WaitStruct
    <3>3. Goto(t, "unlock") /\ lock' = lock /\ ret' = ret
      BY <1>3, <3>2 DEF SleepOn
    <3> QED  BY <1>0, <2>1, <3>2, <3>3 DEF Goto, WaitInv, WaitTypeOK, PCs
  <2>5. CASE ~ w.dead /\ ~ w.notified
    <3>1. w' = [w EXCEPT !.sleep = TRUE, !.waiting = @ \cup {t}]
      BY <2>1, <2>5 DEF sleep_on
    <3> DEFINE u == [w EXCEPT !.sleep = TRUE]
    <3>a. /\ u \in WaitStruct(Sleepers) /\ u.sleep /\ u.waiting = {} /\ u.signaled = {}
          /\ u.notified = w.notified /\ u.dead = w.dead
      BY <1>0, <2>1, <2>2 DEF WaitStruct
    <3>b. w' = [u EXCEPT !.waiting = {t}]
      BY <1>0, <2>1, <3>1 DEF WaitStruct
    <3>c. {t} \in SUBSET Sleepers
      OBVIOUS
    <3> HIDE DEF u
    <3>2. /\ w' \in WaitStruct(Sleepers) /\ w'.waiting = {t} /\ w'.signaled = {}
          /\ w'.sleep /\ ~ w'.notified /\ ~ w'.dead
      BY <2>5, <3>a, <3>b, <3>c DEF WaitStruct
    <3>3. Goto(t, "blocked") /\ lock' = Nobody /\ ret' = ret
      BY <1>3, <3>2 DEF SleepOn
    <3> QED  BY <1>0, <2>1, <3>2, <3>3 DEF Goto, WaitInv, WaitTypeOK, PCs, OneSleeper
  <2> QED  BY <2>3, <2>4, <2>5
<1>4. ASSUME NEW t \in Sleepers, CondWaitReturn(t) PROVE WaitInv'
  <2>1. pc[t] = "blocked" /\ w' = resume(w, t) /\ lock' = t /\ Goto(t, "unlock") /\ ret' = ret
    BY <1>4 DEF CondWaitReturn
  <2>2. w.waiting \subseteq {t} /\ w.signaled \subseteq {t}
    <3>1. w.waiting \subseteq Sleepers
      BY <1>0 DEF WaitStruct
    <3> QED  BY <3>1 DEF WaitInv, OneSleeper
  <2>3. w' \in WaitStruct(Sleepers) /\ w'.waiting = {} /\ w'.signaled = {}
    BY <1>0, <2>1, <2>2 DEF resume, WaitStruct
  <2> QED  BY <1>0, <2>1, <2>3 DEF Goto, WaitInv, WaitTypeOK, PCs, OneSleeper
<1>5. ASSUME NEW t \in Wakers, WakeUp(t) PROVE WaitInv'
  <2>1. /\ w' \in WaitStruct(Sleepers)
        /\ w'.waiting = w.waiting /\ w'.sleep = w.sleep /\ w'.dead = w.dead
        /\ w'.signaled = w.waiting /\ (w'.notified \/ w'.dead)
    BY <1>5, WakeUpEffect DEF WakeUp
  <2>2. Goto(t, "unlock") /\ lock' = lock /\ ret' = ret
    BY <1>5 DEF WakeUp
  <2> QED  BY <1>0, <2>1, <2>2 DEF Goto, WaitInv, WaitTypeOK, PCs
<1>6. ASSUME NEW t \in Wakers, WaitExit(t) PROVE WaitInv'
  <2>1. w' = wait_exit(w) /\ Goto(t, "unlock") /\ lock' = lock /\ ret' = ret
    BY <1>6 DEF WaitExit
  <2>2. /\ w' \in WaitStruct(Sleepers) /\ w'.dead
        /\ w'.waiting = w.waiting /\ w'.sleep = w.sleep /\ w'.signaled = w.waiting
    BY <1>0, <2>1 DEF wait_exit, WaitStruct, WaitInv
  <2> QED  BY <1>0, <2>1, <2>2 DEF Goto, WaitInv, WaitTypeOK, PCs
<1>7. ASSUME NEW t \in Threads, Unlock(t) PROVE WaitInv'
  BY <1>0, <1>7 DEF Unlock, Goto, WaitInv, WaitTypeOK, PCs
<1>8. ASSUME NEW t \in Threads, Return(t) PROVE WaitInv'
  BY <1>0, <1>8 DEF Return, Goto, WaitInv, WaitTypeOK, PCs
<1> QED
  BY <1>0, <1>1, <1>2, <1>3, <1>4, <1>5, <1>6, <1>7, <1>8
     DEF WaitNext, SleeperStep, WakerStep, PCs

\* The invariant holds in every reachable state.
THEOREM WaitInvariance ==
  ASSUME OneSleeper, ~ Spurious
  PROVE  WaitSpec => []WaitInv
<1>1. WaitInv /\ [WaitNext]_waitVars => WaitInv'
  BY WaitNextInv
<1> QED  BY <1>1, WaitInitInv, PTL DEF WaitSpec

\* Types of the structure and its threads.
THEOREM WaitTypeCorrect ==
  ASSUME OneSleeper, ~ Spurious
  PROVE  WaitSpec => []WaitTypeOK
<1>1. WaitInv => WaitTypeOK
  BY DEF WaitInv
<1> QED  BY <1>1, WaitInvariance, PTL

\* No wakeup is lost.
THEOREM WakeupsNotLost ==
  ASSUME OneSleeper, ~ Spurious
  PROVE  WaitSpec => []NoLostWakeup
<1>1. WaitInv => NoLostWakeup
  BY DEF WaitInv, NoLostWakeup
<1> QED  BY <1>1, WaitInvariance, PTL

\* No wakeup is invented: sleep_on returns only after a notification.
THEOREM ReturnsJustified ==
  ASSUME OneSleeper, ~ Spurious
  PROVE  WaitSpec => JustifiedReturn
<1>1. WaitInv /\ [WaitNext]_waitVars
        => [\A t \in Sleepers : CondWaitReturn(t) => w.notified \/ w.dead]_waitVars
  BY DEF WaitInv, CondWaitReturn, CanResume
<1> QED  BY <1>1, WaitInvariance, PTL DEF WaitSpec, JustifiedReturn

-----------------------------------------------------------------------------
(* The receive buffer.                                                      *)

-----------------------------------------------------------------------------
(* Arithmetic of the two indices.                                           *)

Index == 0 .. Size - 1

\* Indices are added modulo Size, and a sum wraps at most once.
LEMMA SlotCases ==
  ASSUME NEW x \in Index, NEW i \in Index
  PROVE  /\ Slot(x, i) \in Index
         /\ x + i < Size  => Slot(x, i) = x + i
         /\ x + i >= Size => Slot(x, i) = x + i - Size
<1>1. x + i \in 0 .. 2 * Size - 2
  BY SizeAssumption DEF Index
<1>2. ASSUME NEW y \in 0 .. Size - 1 PROVE y % Size = y
  BY SizeAssumption, SMTT(30)
<1>3. ASSUME NEW y \in Size .. 2 * Size - 1 PROVE y % Size = y - Size
  BY SizeAssumption, SMTT(30)
<1>4. CASE x + i < Size
  <2>1. x + i \in 0 .. Size - 1
    BY <1>1, <1>4, SizeAssumption
  <2> QED  BY <1>2, <1>4, <2>1, SizeAssumption DEF Slot, Index
<1>5. CASE x + i >= Size
  <2>1. x + i \in Size .. 2 * Size - 1
    BY <1>1, <1>5, SizeAssumption
  <2> QED  BY <1>1, <1>3, <1>5, <2>1, SizeAssumption DEF Slot, Index
<1> QED  BY <1>1, <1>4, <1>5, SizeAssumption

\* The distance from head to tail, without the modulo.
Distance(h, t) == (t - h + Size) % Size

LEMMA DistanceCases ==
  ASSUME NEW h \in Index, NEW t \in Index
  PROVE  /\ Distance(h, t) \in Index
         /\ t >= h => Distance(h, t) = t - h
         /\ t < h  => Distance(h, t) = t - h + Size
<1>2. ASSUME NEW y \in 0 .. Size - 1 PROVE y % Size = y
  BY SizeAssumption, SMTT(30)
<1>3. ASSUME NEW y \in Size .. 2 * Size - 1 PROVE y % Size = y - Size
  BY SizeAssumption, SMTT(30)
<1>4. CASE t >= h
  <2>1. t - h + Size \in Size .. 2 * Size - 1
    BY <1>4, SizeAssumption DEF Index
  <2> QED  BY <1>3, <1>4, <2>1, SizeAssumption DEF Distance, Index
<1>5. CASE t < h
  <2>1. t - h + Size \in 0 .. Size - 1
    BY <1>5, SizeAssumption DEF Index
  <2> QED  BY <1>2, <1>5, <2>1, SizeAssumption DEF Distance, Index
<1> QED  BY <1>4, <1>5, SizeAssumption DEF Index

\* Moving tail by n bytes that fit makes the distance n longer.
LEMMA AdvanceTail ==
  ASSUME NEW h \in Index, NEW t \in Index, NEW n \in Nat,
         n <= Size - Distance(h, t) - 1
  PROVE  Distance(h, Slot(t, n)) = Distance(h, t) + n
<1>0. n \in Index
  BY DistanceCases, SizeAssumption DEF Index
<1> DEFINE y == Slot(t, n)
<1>1. /\ Slot(t, n) \in Index
      /\ t + n < Size  => Slot(t, n) = t + n
      /\ t + n >= Size => Slot(t, n) = t + n - Size
  BY <1>0, SlotCases
<1>2. /\ Distance(h, t) \in Index
      /\ t >= h => Distance(h, t) = t - h
      /\ t < h  => Distance(h, t) = t - h + Size
  BY <1>0, DistanceCases
<1> HIDE DEF y
<1>3. /\ Distance(h, y) \in Index
      /\ y >= h => Distance(h, y) = y - h
      /\ y < h  => Distance(h, y) = y - h + Size
  BY <1>1, DistanceCases DEF y
<1> QED  BY <1>0, <1>1, <1>2, <1>3, SizeAssumption DEF Index, y

\* Moving head over n bytes that are there makes it n shorter.
LEMMA AdvanceHead ==
  ASSUME NEW h \in Index, NEW t \in Index, NEW n \in Nat, n <= Distance(h, t)
  PROVE  Distance(Slot(h, n), t) = Distance(h, t) - n
<1>0. n \in Index
  BY DistanceCases, SizeAssumption DEF Index
<1> DEFINE y == Slot(h, n)
<1>1. /\ Slot(h, n) \in Index
      /\ h + n < Size  => Slot(h, n) = h + n
      /\ h + n >= Size => Slot(h, n) = h + n - Size
  BY <1>0, SlotCases
<1>2. /\ Distance(h, t) \in Index
      /\ t >= h => Distance(h, t) = t - h
      /\ t < h  => Distance(h, t) = t - h + Size
  BY <1>0, DistanceCases
<1> HIDE DEF y
<1>3. /\ Distance(y, t) \in Index
      /\ t >= y => Distance(y, t) = t - y
      /\ t < y  => Distance(y, t) = t - y + Size
  BY <1>1, DistanceCases DEF y
<1> QED  BY <1>0, <1>1, <1>2, <1>3, SizeAssumption DEF Index, y

\* Two steps from an index are one step by their sum.
LEMMA SlotSlot ==
  ASSUME NEW x \in Index, NEW n \in Index, NEW i \in Index, n + i < Size
  PROVE  Slot(Slot(x, n), i) = Slot(x, n + i)
<1>0. Slot(x, n) \in Index /\ n + i \in Index
  BY SlotCases, SizeAssumption DEF Index
<1> DEFINE y == Slot(x, n)  j == n + i
<1>1. /\ Slot(x, n) \in Index
      /\ x + n < Size  => Slot(x, n) = x + n
      /\ x + n >= Size => Slot(x, n) = x + n - Size
  BY <1>0, SlotCases
<1>2. /\ Slot(y, i) \in Index
      /\ y + i < Size  => Slot(y, i) = y + i
      /\ y + i >= Size => Slot(y, i) = y + i - Size
  BY <1>0, SlotCases
<1>3. /\ Slot(x, j) \in Index
      /\ x + j < Size  => Slot(x, j) = x + j
      /\ x + j >= Size => Slot(x, j) = x + j - Size
  BY <1>0, SlotCases
<1> HIDE DEF y
<1> QED  BY <1>0, <1>1, <1>2, <1>3, SizeAssumption DEF Index, y

\* A used slot, counted from head, is not a free one, counted from tail.
LEMMA UsedNotFree ==
  ASSUME NEW h \in Index, NEW t \in Index, NEW i \in Nat, NEW k \in Nat,
         i < Distance(h, t), k < Size - Distance(h, t)
  PROVE  Slot(h, i) # Slot(t, k)
<1>0. i \in Index /\ k \in Index
  BY DistanceCases, SizeAssumption DEF Index
<1>1. /\ Slot(h, i) \in Index
      /\ h + i < Size  => Slot(h, i) = h + i
      /\ h + i >= Size => Slot(h, i) = h + i - Size
  BY <1>0, SlotCases
<1>2. /\ Slot(t, k) \in Index
      /\ t + k < Size  => Slot(t, k) = t + k
      /\ t + k >= Size => Slot(t, k) = t + k - Size
  BY <1>0, SlotCases
<1>3. /\ Distance(h, t) \in Index
      /\ t >= h => Distance(h, t) = t - h
      /\ t < h  => Distance(h, t) = t - h + Size
  BY <1>0, DistanceCases
<1> QED  BY <1>0, <1>1, <1>2, <1>3, SizeAssumption DEF Index

-----------------------------------------------------------------------------
(* The inductive invariant: what a writer or a reader that is half way      *)
(* through its memcpy may rely on.                                          *)

\* The payload still fits, and its first wn bytes are in the free slots.
WriterInv == wpc = "copy" =>
  /\ wdata \in Payload
  /\ Len(wdata) <= Size - Distance(head, tail) - 1
  /\ \A k \in 0 .. wn - 1 : buf[Slot(tail, k)] = wdata[k + 1]

\* The bytes to be read are still there, and the first ones have been copied.
\* There is something to read from the first evaluation on, for the second one
\* finds no less.
ReaderInv ==
  /\ rpc = "idle" <=> rsize = 0
  /\ rpc # "copy" => rlen = 0 /\ rdata = <<>>
  /\ rpc = "again" => Distance(head, tail) > 0
  /\ rpc = "copy" =>
       /\ rlen \in 1 .. Size - 1
       /\ rlen <= Distance(head, tail)
       /\ Len(rdata) <= rlen
       /\ \A k \in 0 .. Len(rdata) - 1 : rdata[k + 1] = buf[Slot(head, k)]

IInv == TypeOK /\ WriterInv /\ ReaderInv

\* The invariant holds initially ...
LEMMA InitInv == Init => IInv
  BY SizeAssumption DEF Init, IInv, TypeOK, WriterInv, ReaderInv

\* A payload is a sequence of bytes.
LEMMA PayloadType ==
  ASSUME NEW d \in Payload
  PROVE  d \in Seq(Byte) /\ Len(d) \in 1 .. MaxLen /\ DOMAIN d = 1 .. Len(d)
  BY SizeAssumption DEF Payload

\* ... and every step keeps it.
LEMMA NextInv == IInv /\ [Next]_vars => IInv'
<1> SUFFICES ASSUME IInv, [Next]_vars PROVE IInv'
  OBVIOUS
<1> USE DEF IInv
<1>0. head \in Index /\ tail \in Index /\ Distance(head, tail) \in Index
  BY DistanceCases DEF TypeOK, Index
<1>1. CASE UNCHANGED vars
  BY <1>1 DEF vars, TypeOK, WriterInv, ReaderInv, Payload, Distance
<1>2. ASSUME NEW d \in Payload, WriteAssert(d) PROVE IInv'
  <2>1. CASE Len(d) <= ring_buffer_free
    <3>1. TypeOK'
      BY <1>2, <2>1, PayloadType DEF WriteAssert, TypeOK, reader
    <3>2. WriterInv'
      BY <1>2, <2>1, SizeAssumption
         DEF WriteAssert, WriterInv, reader, ring_buffer_free, ring_buffer_used, Distance
    <3>3. ReaderInv'
      BY <1>2, <2>1 DEF WriteAssert, ReaderInv, reader, Distance
    <3> QED  BY <3>1, <3>2, <3>3
  <2>2. CASE ~ (Len(d) <= ring_buffer_free)
    BY <1>2, <2>2 DEF WriteAssert, TypeOK, WriterInv, ReaderInv, reader, writer, Distance
  <2> QED  BY <2>1, <2>2
<1>3. CASE WriteByte
  <2> DEFINE i == Slot(tail, wn)
  <2>1. /\ wpc = "copy" /\ wn \in Nat /\ wn < Len(wdata) /\ wdata \in Payload
        /\ wdata \in Seq(Byte)
        /\ wn < Size - Distance(head, tail) /\ wn \in Index
    BY <1>0, <1>3, PayloadType, SizeAssumption DEF WriteByte, WriterInv, TypeOK, Index
  <2>2. i \in Index /\ wdata[wn + 1] \in Byte
    BY <1>0, <2>1, SlotCases
  <2>3. buf' = [buf EXCEPT ![i] = wdata[wn + 1]] /\ wn' = wn + 1
    BY <1>3 DEF WriteByte
  <2>4. TypeOK'
    BY <1>3, <2>1, <2>2, <2>3 DEF WriteByte, TypeOK, reader, Index
  <2>5. WriterInv'
    <3>1. UNCHANGED <<wpc, wdata, head, tail>>
      BY <1>3 DEF WriteByte
    <3>2. ASSUME NEW k \in 0 .. wn' - 1 PROVE buf'[Slot(tail, k)] = wdata[k + 1]
      <4>1. CASE k = wn
        BY <2>2, <2>3, <4>1 DEF TypeOK, Index
      <4>2. CASE k # wn
        <5>0. wn' - 1 = wn
          BY <2>1, <2>3
        <5>1. k \in Index /\ k \in 0 .. wn - 1
          BY <2>1, <5>0, <3>2, <4>2, SizeAssumption DEF Index
        <5>2. Slot(tail, k) # i /\ Slot(tail, k) \in Index
          <6>1. /\ Slot(tail, k) \in Index
                /\ tail + k < Size  => Slot(tail, k) = tail + k
                /\ tail + k >= Size => Slot(tail, k) = tail + k - Size
            BY <1>0, <5>1, SlotCases
          <6>2. /\ tail + wn < Size  => i = tail + wn
                /\ tail + wn >= Size => i = tail + wn - Size
            BY <1>0, <2>1, SlotCases
          <6> QED  BY <1>0, <2>1, <4>2, <5>1, <6>1, <6>2, SizeAssumption DEF Index
        <5> QED  BY <2>1, <2>3, <5>1, <5>2 DEF WriterInv, TypeOK, Index
      <4> QED  BY <4>1, <4>2
    <3> QED  BY <2>1, <3>1, <3>2 DEF WriterInv, Distance, Payload
  <2>6. ReaderInv'
    <3>1. UNCHANGED <<rpc, rsize, rlen, rdata, head, tail>>
      BY <1>3 DEF WriteByte, reader
    <3>2. ASSUME rpc = "copy", NEW k \in 0 .. Len(rdata) - 1
          PROVE  buf'[Slot(head, k)] = buf[Slot(head, k)]
      <4>1. k \in Nat /\ k < Distance(head, tail) /\ k \in Index
        BY <1>0, <3>2, SizeAssumption DEF ReaderInv, TypeOK, Index
      <4>2. Slot(head, k) # i /\ Slot(head, k) \in Index
        BY <1>0, <2>1, <4>1, UsedNotFree, SlotCases
      <4> QED  BY <2>3, <4>2 DEF TypeOK, Index
    <3> QED  BY <3>1, <3>2 DEF ReaderInv, Distance
  <2> QED  BY <2>4, <2>5, <2>6
<1>4. CASE WriteAdvance
  <2> DEFINE n == Len(wdata)
  <2>1. wpc = "copy" /\ n \in Nat /\ n <= Size - Distance(head, tail) - 1 /\ n \in Index
    BY <1>0, <1>4, PayloadType, SizeAssumption DEF WriteAdvance, WriterInv, TypeOK, Index
  <2>2. tail' = Slot(tail, n) /\ tail' \in Index /\ UNCHANGED <<head, buf, reader, out, aborted>>
    BY <1>0, <1>4, <2>1, SlotCases DEF WriteAdvance
  <2>3. Distance(head, tail') = Distance(head, tail) + n
    BY <1>0, <2>1, <2>2, AdvanceTail
  <2>4. TypeOK'
    BY <1>4, <2>2 DEF WriteAdvance, TypeOK, Index, reader
  <2>5. WriterInv'
    BY <1>4 DEF WriteAdvance, WriterInv
  <2>6. Distance(head, tail)' = Distance(head, tail) + n
    BY <2>2, <2>3 DEF Distance
  <2>7. ReaderInv'
    BY <1>0, <2>1, <2>2, <2>6 DEF ReaderInv, reader, TypeOK, Index
  <2> QED  BY <2>4, <2>5, <2>7
<1>5. ASSUME NEW n \in 1 .. MaxRead, ReadCompare(n) PROVE IInv'
  <2>1. Distance(head, tail) > 0 /\ ring_buffer_used = Distance(head, tail) /\ n \in Nat
    BY <1>5, SizeAssumption DEF ReadCompare, ring_buffer_used, Distance
  <2>2. /\ rpc = "idle" /\ rsize' = n
        /\ UNCHANGED <<head, tail, buf, wpc, wdata, wn, rdata, out, aborted>>
    BY <1>5 DEF ReadCompare, writer
  <2>3. \/ rpc' = "again" /\ rlen' = 0
        \/ rpc' = "copy" /\ rlen' = n /\ n <= Distance(head, tail)
    BY <1>0, <1>5, <2>1, <2>2, SizeAssumption DEF ReadCompare, ReaderInv, Index
  <2>4. TypeOK'
    BY <1>0, <2>2, <2>3, SizeAssumption DEF TypeOK, Index
  <2>5. WriterInv'
    BY <2>2 DEF WriterInv, Distance, Payload
  <2>6. ReaderInv'
    BY <1>0, <2>1, <2>2, <2>3, SizeAssumption DEF ReaderInv, Distance, Index
  <2> QED  BY <2>4, <2>5, <2>6
<1>8. CASE ReadLen
  <2>1. /\ rpc = "again" /\ rpc' = "copy" /\ rlen' = Distance(head, tail)
        /\ UNCHANGED <<head, tail, buf, wpc, wdata, wn, rsize, rdata, out, aborted>>
    BY <1>8 DEF ReadLen, writer, ring_buffer_used, Distance
  <2>2. rlen' \in 1 .. Size - 1 /\ rdata = <<>>
    BY <1>0, <2>1, SizeAssumption DEF ReaderInv, Index
  <2>3. TypeOK'
    BY <2>1, <2>2, SizeAssumption DEF TypeOK
  <2>4. WriterInv'
    BY <2>1 DEF WriterInv, Distance, Payload
  <2>5. ReaderInv'
    <3>1. Distance(head, tail)' = Distance(head, tail)
      BY <2>1 DEF Distance
    <3>2. rdata' = <<>> /\ Len(rdata') = 0
      BY <2>1, <2>2
    <3> QED  BY <1>0, <2>1, <2>2, <3>1, <3>2, SizeAssumption DEF ReaderInv, Index
  <2> QED  BY <2>3, <2>4, <2>5
<1>6. CASE ReadByte
  <2> DEFINE m == Len(rdata)
  <2>1. rpc = "copy" /\ m \in Nat /\ m < rlen /\ m \in Index
    BY <1>0, <1>6, SizeAssumption DEF ReadByte, ReaderInv, TypeOK, Index
  <2>2. Slot(head, m) \in Index
    BY <1>0, <2>1, SlotCases
  <2>3. /\ rdata' = Append(rdata, buf[Slot(head, m)])
        /\ UNCHANGED <<head, tail, buf, wpc, wdata, wn, rpc, rsize, rlen, out, aborted>>
    BY <1>6 DEF ReadByte, writer
  <2>4. buf[Slot(head, m)] \in Byte
    BY <2>2 DEF TypeOK, Index
  <2>5. TypeOK'
    BY <2>3, <2>4 DEF TypeOK
  <2>6. WriterInv'
    BY <2>3 DEF WriterInv, Distance, Payload
  <2>7. ReaderInv'
    BY <2>1, <2>3, <2>4 DEF ReaderInv, Distance, TypeOK
  <2> QED  BY <2>5, <2>6, <2>7
<1>7. CASE ReadAdvance
  <2>1. /\ rpc = "copy" /\ rlen \in Nat /\ rlen <= Distance(head, tail) /\ rlen \in Index
    BY <1>0, <1>7, SizeAssumption DEF ReadAdvance, ReaderInv, TypeOK, Index
  <2>2. head' = Slot(head, rlen) /\ head' \in Index /\ UNCHANGED <<tail, buf, writer, aborted>>
    BY <1>0, <1>7, <2>1, SlotCases DEF ReadAdvance
  <2>3. Distance(head', tail) = Distance(head, tail) - rlen
    BY <1>0, <2>1, <2>2, AdvanceHead
  <2>4. Distance(head, tail)' = Distance(head, tail) - rlen
    BY <2>2, <2>3 DEF Distance
  <2>5. TypeOK'
    BY <1>7, <2>2, SizeAssumption DEF ReadAdvance, TypeOK, Index, writer
  <2>6. ReaderInv'
    BY <1>7 DEF ReadAdvance, ReaderInv
  <2>7. WriterInv'
    <3>1. Len(wdata) \in Nat
      BY DEF TypeOK
    <3> QED  BY <1>0, <2>1, <2>2, <2>4, <3>1, SizeAssumption
             DEF WriterInv, writer, Payload, Index
  <2> QED  BY <2>5, <2>6, <2>7
<1> QED
  BY <1>1, <1>2, <1>3, <1>4, <1>5, <1>6, <1>7, <1>8 DEF Next

\* The invariant holds in every reachable state.
THEOREM Invariance == Spec => []IInv
  BY InitInv, NextInv, PTL DEF Spec

\* Types: both indices stay inside the buffer.
THEOREM TypeCorrect == Spec => []TypeOK
<1>1. IInv => TypeOK
  BY DEF IInv
<1> QED  BY <1>1, Invariance, PTL

\* The writer and the reader never copy at the same slot.
THEOREM Disjointness == Spec => []CopiesDisjoint
<1>1. IInv => CopiesDisjoint
  <2> SUFFICES ASSUME IInv, NEW i \in 0 .. Size - 1, Filled(i), Taken(i) PROVE FALSE
    BY DEF CopiesDisjoint
  <2>1. PICK k \in 0 .. Len(wdata) - 1 : i = Slot(tail, k)
    BY DEF Filled
  <2>2. PICK j \in 0 .. rlen - 1 : i = Slot(head, j)
    BY DEF Taken
  <2>3. head \in Index /\ tail \in Index /\ Distance(head, tail) \in Index
    BY DistanceCases DEF IInv, TypeOK, Index
  <2>4. wpc = "copy" /\ rpc = "copy"
    BY DEF Filled, Taken
  <2>5. k \in Nat /\ k < Size - Distance(head, tail)
    BY <2>3, <2>4, SizeAssumption DEF IInv, WriterInv, TypeOK, Index
  <2>6. j \in Nat /\ j < Distance(head, tail)
    BY <2>3, <2>4, SizeAssumption DEF IInv, ReaderInv, TypeOK, Index
  <2> QED  BY <2>1, <2>2, <2>3, <2>5, <2>6, UsedNotFree
<1> QED  BY <1>1, Invariance, PTL

-----------------------------------------------------------------------------
(* Refinement of ByteQueue.                                                 *)

\* The bytes between head and tail, as a sequence.
ContentsFacts ==
  /\ Contents \in Seq(Byte)
  /\ Len(Contents) = Distance(head, tail)
  /\ \A i \in 1 .. Distance(head, tail) : Contents[i] = buf[Slot(head, i - 1)]

\* Whatever the positions, Contents is a sequence of the bytes from head to tail.
LEMMA ContentsType == TypeOK => ContentsFacts
<1> SUFFICES ASSUME TypeOK PROVE ContentsFacts
  OBVIOUS
<1>1. head \in Index /\ tail \in Index /\ Distance(head, tail) \in Index
  BY DistanceCases DEF TypeOK, Index
<1>2. Contents = [i \in 1 .. Distance(head, tail) |-> buf[Slot(head, i - 1)]]
  BY DEF Contents, ring_buffer_used, Distance
<1>3. ASSUME NEW i \in 1 .. Distance(head, tail) PROVE buf[Slot(head, i - 1)] \in Byte
  <2>1. i - 1 \in Index
    BY <1>1, SizeAssumption DEF Index
  <2> QED  BY <1>1, <2>1, SlotCases DEF TypeOK, Index
<1>4. Contents \in Seq(Byte) /\ Len(Contents) = Distance(head, tail)
  BY <1>1, <1>2, <1>3, SizeAssumption DEF Index
<1>5. \A i \in 1 .. Distance(head, tail) : Contents[i] = buf[Slot(head, i - 1)]
  BY <1>2
<1> QED  BY <1>4, <1>5 DEF ContentsFacts

\* Two states with the same indices and the same used slots hold the same bytes.
LEMMA ContentsUnchanged ==
  ASSUME TypeOK, head' = head, tail' = tail,
         \A i \in 1 .. Distance(head, tail) : buf'[Slot(head, i - 1)] = buf[Slot(head, i - 1)]
  PROVE  Contents' = Contents
  BY DEF Contents, ring_buffer_used, Distance, Slot

\* The slot tail points to is the first one after the used ones.
LEMMA TailSlot ==
  ASSUME NEW h \in Index, NEW t \in Index
  PROVE  Slot(h, Distance(h, t)) = t
<1>1. /\ Distance(h, t) \in Index
      /\ t >= h => Distance(h, t) = t - h
      /\ t < h  => Distance(h, t) = t - h + Size
  BY DistanceCases
<1> DEFINE i == Distance(h, t)
<1>2. /\ h + i < Size  => Slot(h, i) = h + i
      /\ h + i >= Size => Slot(h, i) = h + i - Size
  BY <1>1, SlotCases
<1> QED  BY <1>1, <1>2, SizeAssumption DEF Index

\* A sequence with the first n elements of another.
LEMMA SubSeqFront ==
  ASSUME NEW S, NEW p \in Seq(S), NEW q \in Seq(S), NEW n \in Nat,
         Len(p) = n, n <= Len(q), \A i \in 1 .. n : p[i] = q[i]
  PROVE  p = SubSeq(q, 1, n)
<1>1. Len(SubSeq(q, 1, n)) = n /\ SubSeq(q, 1, n) \in Seq(S)
  OBVIOUS
<1>2. ASSUME NEW i \in 1 .. n PROVE SubSeq(q, 1, n)[i] = q[i]
  OBVIOUS
<1> QED  BY <1>1, <1>2

\* A sequence with the elements of another after the first n.
LEMMA SubSeqRest ==
  ASSUME NEW S, NEW p \in Seq(S), NEW q \in Seq(S), NEW n \in Nat,
         Len(p) = Len(q) - n, n <= Len(q), \A i \in 1 .. Len(q) - n : p[i] = q[n + i]
  PROVE  p = SubSeq(q, n + 1, Len(q))
<1>1. Len(SubSeq(q, n + 1, Len(q))) = Len(q) - n /\ SubSeq(q, n + 1, Len(q)) \in Seq(S)
  OBVIOUS
<1>2. ASSUME NEW i \in 1 .. Len(q) - n PROVE SubSeq(q, n + 1, Len(q))[i] = q[n + i]
  OBVIOUS
<1> QED  BY <1>1, <1>2

\* A sequence with the elements of two sequences is their concatenation.
LEMMA IsConcat ==
  ASSUME NEW S, NEW s \in Seq(S), NEW d \in Seq(S), NEW r \in Seq(S),
         Len(r) = Len(s) + Len(d),
         \A i \in 1 .. Len(s) : r[i] = s[i],
         \A k \in 1 .. Len(d) : r[Len(s) + k] = d[k]
  PROVE  r = s \o d
<1>1. s \o d \in Seq(S) /\ Len(s \o d) = Len(s) + Len(d)
  OBVIOUS
<1>2. ASSUME NEW i \in 1 .. Len(r) PROVE r[i] = (s \o d)[i]
  <2>1. CASE i <= Len(s)
    BY <2>1
  <2>2. CASE i > Len(s)
    <3>1. i - Len(s) \in 1 .. Len(d) /\ Len(s) + (i - Len(s)) = i
      BY <2>2
    <3>2. r[i] = d[i - Len(s)]
      BY <3>1
    <3> QED  BY <2>2, <3>1, <3>2
  <2> QED  BY <2>1, <2>2
<1> QED  BY <1>1, <1>2

\* The initial state is an empty queue.
LEMMA InitQueue == Init => Queue!Init
<1> SUFFICES ASSUME Init PROVE Queue!Init
  OBVIOUS
<1>1. TypeOK /\ Distance(head, tail) = 0
  <2>1. head \in Index /\ tail \in Index /\ head = tail
    BY SizeAssumption DEF Init, Index
  <2> QED  BY <2>1, InitInv, DistanceCases, SizeAssumption DEF IInv, Index
<1>2. Contents \in Seq(Byte) /\ Len(Contents) = 0
  BY <1>1, ContentsType DEF ContentsFacts
<1>3. Contents = <<>>
  BY <1>2
<1> QED  BY <1>3 DEF Init, Queue!Init

\* Every step of the buffer is a step of the queue or leaves it alone.
LEMMA StepQueue ==
  IInv /\ [Next]_vars => [Queue!Next]_<<Contents, rsize, rlen, out, aborted>>
<1> SUFFICES ASSUME IInv, [Next]_vars
             PROVE  [Queue!Next]_<<Contents, rsize, rlen, out, aborted>>
  OBVIOUS
<1> USE DEF IInv
<1> DEFINE u == Distance(head, tail)
<1>0. head \in Index /\ tail \in Index /\ u \in Index /\ u \in Nat
  <2>1. head \in Index /\ tail \in Index
    BY DEF TypeOK, Index
  <2>2. u \in Index
    BY <2>1, DistanceCases
  <2> QED  BY <2>1, <2>2, SizeAssumption DEF Index
<1>1. CASE UNCHANGED vars
  BY <1>1, ContentsUnchanged DEF vars
<1>2. ASSUME NEW d \in Payload, WriteAssert(d)
      PROVE  [Queue!Next]_<<Contents, rsize, rlen, out, aborted>>
  <2>1. Contents' = Contents /\ out' = out /\ rsize' = rsize /\ rlen' = rlen
    BY <1>2, ContentsUnchanged DEF WriteAssert, reader
  <2>2. CASE Len(d) <= ring_buffer_free
    BY <1>2, <2>1, <2>2 DEF WriteAssert
  <2>3. CASE ~ (Len(d) <= ring_buffer_free)
    <3>1. Len(d) \in 1 .. MaxLen
      BY PayloadType
    <3>2. Len(Contents) + Len(d) > Size - 1
      BY <1>0, <2>3, <3>1, ContentsType, SizeAssumption
         DEF ContentsFacts, ring_buffer_free, ring_buffer_used, Distance, Index
    <3>3. ~ aborted /\ aborted' = TRUE
      BY <1>2, <2>3 DEF WriteAssert
    <3>4. Queue!Overrun(Len(d))
      BY <2>1, <3>2, <3>3 DEF Queue!Overrun
    <3> QED  BY <3>1, <3>4 DEF Queue!Next
  <2> QED  BY <2>2, <2>3
<1>3. CASE WriteByte
  <2>1. wpc = "copy" /\ wn \in Nat /\ wn < Size - u
    BY <1>0, <1>3, PayloadType, SizeAssumption DEF WriteByte, WriterInv, TypeOK, Index
  <2>2. /\ buf' = [buf EXCEPT ![Slot(tail, wn)] = wdata[wn + 1]]
        /\ head' = head /\ tail' = tail /\ out' = out /\ aborted' = aborted
        /\ rsize' = rsize /\ rlen' = rlen
    BY <1>3 DEF WriteByte, reader
  <2>3. ASSUME NEW i \in 1 .. u PROVE buf'[Slot(head, i - 1)] = buf[Slot(head, i - 1)]
    <3>1. i - 1 \in Nat /\ i - 1 < u /\ i - 1 \in Index
      BY <1>0, SizeAssumption DEF Index
    <3>2. Slot(head, i - 1) # Slot(tail, wn) /\ Slot(head, i - 1) \in Index
      BY <1>0, <2>1, <3>1, UsedNotFree, SlotCases
    <3> QED  BY <2>2, <3>2 DEF TypeOK, Index
  <2>4. Contents' = Contents
    BY <2>2, <2>3, ContentsUnchanged
  <2> QED  BY <2>2, <2>4
<1>4. CASE WriteAdvance
  <2> DEFINE n == Len(wdata)
  <2>1. /\ wpc = "copy" /\ wdata \in Payload /\ n \in 1 .. MaxLen
        /\ n \in Nat /\ n <= Size - u - 1 /\ n \in Index /\ wn = n
        /\ wdata \in Seq(Byte) /\ DOMAIN wdata = 1 .. n
    BY <1>0, <1>4, PayloadType, SizeAssumption DEF WriteAdvance, WriterInv, TypeOK, Index
  <2>2. /\ tail' = Slot(tail, n) /\ tail' \in Index
        /\ UNCHANGED <<head, buf, rsize, rlen, out, aborted>> /\ ~ aborted
    BY <1>0, <1>4, <2>1, SlotCases DEF WriteAdvance, reader
  <2>3. Distance(head, tail)' = u + n
    BY <1>0, <2>1, <2>2, AdvanceTail DEF Distance
  <2>4. /\ Contents' \in Seq(Byte) /\ Len(Contents') = u + n
        /\ \A i \in 1 .. u + n : Contents'[i] = buf[Slot(head, i - 1)]
    <3>1. TypeOK'
      BY NextInv
    <3>2. ContentsFacts'
      BY <3>1, ContentsType, PTL
    <3>3. /\ \A i \in 1 .. Distance(head, tail)' : Contents'[i] = buf'[Slot(head', i - 1)]
          /\ Contents' \in Seq(Byte) /\ Len(Contents') = Distance(head, tail)'
      BY <3>2 DEF ContentsFacts, Slot
    <3> QED  BY <2>2, <2>3, <3>3
  <2>5. Contents \in Seq(Byte) /\ Len(Contents) = u
        /\ \A i \in 1 .. u : Contents[i] = buf[Slot(head, i - 1)]
    BY ContentsType DEF ContentsFacts
  <2>6. ASSUME NEW k \in 1 .. n PROVE Contents'[u + k] = wdata[k]
    <3>1. k - 1 \in 0 .. n - 1 /\ k - 1 \in Index /\ u + (k - 1) < Size
          /\ u + k \in 1 .. u + n /\ (u + k) - 1 = u + (k - 1) /\ (k - 1) + 1 = k
      BY <1>0, <2>1, SizeAssumption DEF Index
    <3>2. Slot(tail, k - 1) = Slot(head, (u + k) - 1)
      <4>1. Slot(Slot(head, u), k - 1) = Slot(head, u + (k - 1))
        BY <1>0, <3>1, SlotSlot
      <4> QED  BY <1>0, <3>1, <4>1, TailSlot
    <3>3. buf[Slot(tail, k - 1)] = wdata[(k - 1) + 1]
      BY <2>1, <3>1 DEF WriterInv
    <3> QED  BY <2>4, <3>1, <3>2, <3>3
  <2>7. Contents' = Contents \o wdata
    <3>1. ASSUME NEW i \in 1 .. u PROVE Contents'[i] = Contents[i]
      <4>1. i \in 1 .. u + n
        BY <1>0, <2>1
      <4> QED  BY <2>4, <2>5, <4>1
    <3> HIDE DEF n, u
    <3> QED  BY <2>1, <2>4, <2>5, <2>6, <3>1, IsConcat DEF n
  <2>8. Queue!Put(wdata)
    BY <1>0, <2>1, <2>2, <2>5, <2>7, SizeAssumption DEF Queue!Put
  <2> QED  BY <2>1, <2>8 DEF Queue!Next, Queue!Payload, Payload
<1>5. ASSUME NEW n \in 1 .. MaxRead, ReadCompare(n)
      PROVE  [Queue!Next]_<<Contents, rsize, rlen, out, aborted>>
  <2>1. Contents' = Contents /\ ~ aborted /\ out' = out /\ aborted' = aborted /\ rsize' = n
    BY <1>5, ContentsUnchanged DEF ReadCompare
  <2>2. Len(Contents) = ring_buffer_used /\ ring_buffer_used > 0
    BY <1>5, ContentsType DEF ContentsFacts, ring_buffer_used, Distance, ReadCompare
  <2>3. Contents # <<>>
    BY <2>2
  <2>4. rsize = 0 /\ rlen = 0 /\ rlen' = IF Len(Contents) < n THEN 0 ELSE n
    BY <1>5, <2>2 DEF ReadCompare, ReaderInv
  <2>5. Queue!Ask(n)
    BY <2>1, <2>3, <2>4 DEF Queue!Ask
  <2> QED  BY <2>5 DEF Queue!Next
<1>8. CASE ReadLen
  <2>1. Contents' = Contents /\ ~ aborted /\ UNCHANGED <<rsize, out, aborted>>
    BY <1>8, ContentsUnchanged DEF ReadLen
  <2>2. rlen' = Len(Contents)
    BY <1>8, ContentsType DEF ContentsFacts, ring_buffer_used, Distance, ReadLen
  <2>3. rsize > 0 /\ rlen = 0
    BY <1>8, SizeAssumption DEF ReadLen, ReaderInv, TypeOK
  <2>4. Queue!Settle
    BY <2>1, <2>2, <2>3 DEF Queue!Settle
  <2> QED  BY <2>4 DEF Queue!Next
<1>6. CASE ReadByte
  BY <1>6, ContentsUnchanged DEF ReadByte
<1>7. CASE ReadAdvance
  <2>1. /\ rpc = "copy" /\ rlen \in 1 .. Size - 1 /\ rlen <= u /\ rlen \in Index
        /\ Len(rdata) = rlen /\ rdata \in Seq(Byte)
        /\ \A k \in 0 .. rlen - 1 : rdata[k + 1] = buf[Slot(head, k)]
    BY <1>0, <1>7, SizeAssumption DEF ReadAdvance, ReaderInv, TypeOK, Index
  <2>2. /\ head' = Slot(head, rlen) /\ head' \in Index /\ out' = rdata
        /\ UNCHANGED <<tail, buf, aborted>> /\ ~ aborted /\ rsize' = 0 /\ rlen' = 0
    BY <1>0, <1>7, <2>1, SlotCases DEF ReadAdvance
  <2>3. Distance(head, tail)' = u - rlen
    BY <1>0, <2>1, <2>2, AdvanceHead DEF Distance
  <2>4. /\ Contents' \in Seq(Byte) /\ Len(Contents') = u - rlen
        /\ \A i \in 1 .. u - rlen : Contents'[i] = buf[Slot(head', i - 1)]
    <3>1. TypeOK'
      BY NextInv
    <3>2. ContentsFacts'
      BY <3>1, ContentsType, PTL
    <3>3. /\ \A i \in 1 .. Distance(head, tail)' : Contents'[i] = buf'[Slot(head', i - 1)]
          /\ Contents' \in Seq(Byte) /\ Len(Contents') = Distance(head, tail)'
      BY <3>2 DEF ContentsFacts, Slot
    <3> QED  BY <2>2, <2>3, <3>3
  <2>5. Contents \in Seq(Byte) /\ Len(Contents) = u
        /\ \A i \in 1 .. u : Contents[i] = buf[Slot(head, i - 1)]
    BY ContentsType DEF ContentsFacts
  <2>6. rdata = SubSeq(Contents, 1, rlen)
    <3>1. ASSUME NEW i \in 1 .. rlen PROVE rdata[i] = Contents[i]
      <4>1. i - 1 \in 0 .. rlen - 1 /\ (i - 1) + 1 = i /\ i \in 1 .. u
        BY <1>0, <2>1
      <4> QED  BY <2>1, <2>5, <4>1
    <3>2. rlen \in Nat
      BY <1>0, <2>1, SizeAssumption
    <3>3. rlen <= Len(Contents)
      BY <2>1, <2>5
    <3> HIDE DEF u
    <3> QED  BY <2>1, <2>5, <3>1, <3>2, <3>3, SubSeqFront
  <2>7. Contents' = SubSeq(Contents, rlen + 1, Len(Contents))
    <3>1. ASSUME NEW i \in 1 .. u - rlen PROVE Contents'[i] = Contents[rlen + i]
      <4>1. i - 1 \in Index /\ rlen + (i - 1) < Size /\ rlen + i \in 1 .. u
            /\ rlen + (i - 1) = (rlen + i) - 1
        BY <1>0, <2>1, SizeAssumption DEF Index
      <4>2. Slot(head', i - 1) = Slot(head, (rlen + i) - 1)
        <5>1. Slot(Slot(head, rlen), i - 1) = Slot(head, rlen + (i - 1))
          BY <1>0, <2>1, <4>1, SlotSlot
        <5> QED  BY <2>2, <4>1, <5>1
      <4> QED  BY <2>4, <2>5, <4>1, <4>2
    <3>2. rlen \in Nat /\ rlen <= Len(Contents)
      BY <2>1, <2>5, SizeAssumption
    <3> HIDE DEF u
    <3> QED  BY <2>4, <2>5, <3>1, <3>2, SubSeqRest
  <2>8. Queue!Get
    BY <1>0, <2>1, <2>2, <2>5, <2>6, <2>7 DEF Queue!Get
  <2> QED  BY <2>1, <2>8 DEF Queue!Next
<1> QED
  BY <1>1, <1>2, <1>3, <1>4, <1>5, <1>6, <1>7, <1>8 DEF Next

\* The ring buffer behaves as a FIFO queue of Size - 1 bytes.
THEOREM Refinement == Spec => ImplementsQueue
  BY InitQueue, StepQueue, Invariance, PTL DEF Spec, ImplementsQueue, Queue!Spec
=============================================================================
