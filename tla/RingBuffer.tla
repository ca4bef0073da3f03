----------------------------- MODULE RingBuffer -----------------------------
(***************************************************************************)
(* The receive buffer of a tcp_sock (include/ring_buffer.h): the packet    *)
(* thread writes it from tcp_process, the application thread reads it from *)
(* tcp_sock_read, and no lock orders the two.  Each memcpy is copied byte  *)
(* by byte and the index is stored after it, in program order (the build   *)
(* does not optimise, and x86 keeps stores in order).                      *)
(***************************************************************************)
EXTENDS Integers, Sequences

CONSTANTS Byte,      \* the values of a byte
          Zero,      \* the byte alloc_ring_buffer fills the buffer with
          Size,      \* alloc_ring_buffer's size: one slot is never used
          MaxLen,    \* the longest payload
          MaxRead    \* the longest read a caller has room for

ASSUME SizeAssumption ==
  Size \in Nat \ {0} /\ MaxLen \in Nat /\ MaxRead \in Nat /\ Zero \in Byte

VARIABLES head, tail,      \* struct ring_buffer
          buf,
          wpc, wdata, wn,  \* write_ring_buffer: its data, and how much is copied
          rpc, rsize,      \* read_ring_buffer: the size its caller asked for,
          rlen, rdata,     \*   len, and the bytes copied so far
          out,             \* what the last read_ring_buffer gave its caller
          aborted          \* the assertion of write_ring_buffer has failed

vars == <<head, tail, buf, wpc, wdata, wn, rpc, rsize, rlen, rdata, out, aborted>>
writer == <<wpc, wdata, wn>>
reader == <<rpc, rsize, rlen, rdata>>

ring_buffer_used == (tail - head + Size) % Size
ring_buffer_free == Size - ring_buffer_used - 1

\* Mutant: the index does not wrap around.
Slot_NoWrap(x, i) == x + i
\* The slot i places after the index x, for the wrapping halves of a memcpy.
Slot(x, i) == (x + i) % Size

Payload == UNION {[1 .. n -> Byte] : n \in 1 .. MaxLen}

TypeOK ==
  /\ head \in 0 .. Size - 1 /\ tail \in 0 .. Size - 1
  /\ buf \in [0 .. Size - 1 -> Byte]
  /\ wpc \in {"idle", "copy"} /\ wdata \in Seq(Byte) /\ wn \in 0 .. Len(wdata)
  /\ rpc \in {"idle", "again", "copy"}
  /\ rsize \in 0 .. MaxRead /\ rlen \in 0 .. Size - 1 /\ rdata \in Seq(Byte)
  /\ out \in Seq(Byte)
  /\ aborted \in BOOLEAN

Init ==
  /\ head = 0 /\ tail = 0
  /\ buf = [i \in 0 .. Size - 1 |-> Zero]
  /\ wpc = "idle" /\ wdata = <<>> /\ wn = 0
  /\ rpc = "idle" /\ rsize = 0 /\ rlen = 0 /\ rdata = <<>>
  /\ out = <<>>
  /\ aborted = FALSE

-----------------------------------------------------------------------------
(* write_ring_buffer.                                                       *)

\* Mutant: the assertion is compiled out.
WriteAssert_None(d) ==
  /\ ~ aborted /\ wpc = "idle"
  /\ wpc' = "copy" /\ wdata' = d /\ wn' = 0
  /\ UNCHANGED <<head, tail, buf, reader, out, aborted>>

WriteAssert(d) ==
  /\ ~ aborted /\ wpc = "idle"
  /\ IF Len(d) <= ring_buffer_free
     THEN wpc' = "copy" /\ wdata' = d /\ wn' = 0 /\ UNCHANGED aborted
     ELSE aborted' = TRUE /\ UNCHANGED writer
  /\ UNCHANGED <<head, tail, buf, reader, out>>

WriteByte ==
  /\ ~ aborted /\ wpc = "copy" /\ wn < Len(wdata)
  /\ buf' = [buf EXCEPT ![Slot(tail, wn)] = wdata[wn + 1]]
  /\ wn' = wn + 1
  /\ UNCHANGED <<head, tail, wpc, wdata, reader, out, aborted>>

WriteAdvance ==
  /\ ~ aborted /\ wpc = "copy" /\ wn = Len(wdata)
  /\ tail' = Slot(tail, Len(wdata))
  /\ wpc' = "idle" /\ wdata' = <<>> /\ wn' = 0
  /\ UNCHANGED <<head, buf, reader, out, aborted>>

-----------------------------------------------------------------------------
(* read_ring_buffer, called by tcp_sock_read when the buffer is not empty.  *)

(* min is a macro: it evaluates ring_buffer_used to compare it with size and *)
(* once more for the value of len, and the writer may store tail in between. *)

\* Mutant: the size asked for is not looked at, the read takes all there is.
ReadCompare_All(n) ==
  /\ ~ aborted /\ rpc = "idle"
  /\ ring_buffer_used > 0
  /\ rsize' = n
  /\ rpc' = "copy" /\ rlen' = ring_buffer_used
  /\ UNCHANGED <<head, tail, buf, writer, rdata, out, aborted>>

ReadCompare(n) ==
  /\ ~ aborted /\ rpc = "idle"
  /\ ring_buffer_used > 0
  /\ rsize' = n
  /\ IF ring_buffer_used < n
     THEN rpc' = "again" /\ UNCHANGED rlen
     ELSE rpc' = "copy" /\ rlen' = n
  /\ UNCHANGED <<head, tail, buf, writer, rdata, out, aborted>>

\* len is what is there by now, which may be more than size: the copy then runs
\* past the end of the caller's buffer, but not past what the buffer holds.
ReadLen ==
  /\ ~ aborted /\ rpc = "again"
  /\ rpc' = "copy" /\ rlen' = ring_buffer_used
  /\ UNCHANGED <<head, tail, buf, writer, rsize, rdata, out, aborted>>

ReadByte ==
  /\ ~ aborted /\ rpc = "copy" /\ Len(rdata) < rlen
  /\ rdata' = Append(rdata, buf[Slot(head, Len(rdata))])
  /\ UNCHANGED <<head, tail, buf, writer, rpc, rsize, rlen, out, aborted>>

ReadAdvance ==
  /\ ~ aborted /\ rpc = "copy" /\ Len(rdata) = rlen
  /\ head' = Slot(head, rlen)
  /\ out' = rdata
  /\ rpc' = "idle" /\ rsize' = 0 /\ rlen' = 0 /\ rdata' = <<>>
  /\ UNCHANGED <<tail, buf, writer, aborted>>

Next == \/ \E d \in Payload : WriteAssert(d)
        \/ WriteByte \/ WriteAdvance
        \/ \E n \in 1 .. MaxRead : ReadCompare(n)
        \/ ReadLen \/ ReadByte \/ ReadAdvance

Spec == Init /\ [][Next]_vars

-----------------------------------------------------------------------------
\* The two copies never touch the same slot: what the writer fills was free
\* and what the reader takes was used, although either end may move while the
\* other is half way through its memcpy.
Filled(i) == wpc = "copy" /\ \E k \in 0 .. Len(wdata) - 1 : i = Slot(tail, k)
Taken(i) == rpc = "copy" /\ \E k \in 0 .. rlen - 1 : i = Slot(head, k)
CopiesDisjoint == \A i \in 0 .. Size - 1 : ~ (Filled(i) /\ Taken(i))

\* The buffer is a FIFO queue of Size - 1 bytes: a write takes effect when it
\* stores tail and a read when it stores head, nothing is lost, repeated or
\* reordered, a read that finds what it asked for gets just that, one that does
\* not gets all there is when it looks again, be it more than it asked for, and
\* the assertion fails only when the payload does not fit.
Contents == [i \in 1 .. ring_buffer_used |-> buf[Slot(head, i - 1)]]
Queue == INSTANCE ByteQueue WITH Capacity <- Size - 1, q <- Contents,
                              asked <- rsize, taking <- rlen
ImplementsQueue == Queue!Spec
=============================================================================
