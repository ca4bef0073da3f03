----------------------------- MODULE ByteQueue -----------------------------
(***************************************************************************)
(* What the receive buffer of a tcp_sock promises: a bounded FIFO queue of *)
(* bytes between one writer and one reader.  RingBuffer implements it.     *)
(***************************************************************************)
EXTENDS Integers, Sequences

CONSTANTS Byte,       \* the values of a byte
          Capacity,   \* how many bytes fit
          MaxLen,     \* the longest payload
          MaxRead     \* the longest read a caller has room for

VARIABLES q,          \* the bytes written and not yet read
          asked,      \* the size of the read in progress, 0 when there is none
          taking,     \* how many bytes that read takes, 0 while undecided
          out,        \* what the last read returned
          aborted     \* a write that did not fit has failed its assertion

Init == q = <<>> /\ asked = 0 /\ taking = 0 /\ out = <<>> /\ aborted = FALSE

Put(d) ==
  /\ ~ aborted
  /\ Len(q) + Len(d) <= Capacity
  /\ q' = q \o d
  /\ UNCHANGED <<asked, taking, out, aborted>>

\* A read of n bytes starts: it gets exactly these when they are all there.
Ask(n) ==
  /\ ~ aborted
  /\ asked = 0 /\ q # <<>>
  /\ asked' = n /\ taking' = IF Len(q) < n THEN 0 ELSE n
  /\ UNCHANGED <<q, out, aborted>>

\* They are not: it settles for what it finds now, which is no longer bounded by
\* what was asked for.
Settle ==
  /\ ~ aborted
  /\ asked > 0 /\ taking = 0
  /\ taking' = Len(q)
  /\ UNCHANGED <<q, asked, out, aborted>>

\* It takes the oldest bytes.
Get ==
  /\ ~ aborted
  /\ taking > 0
  /\ out' = SubSeq(q, 1, taking)
  /\ q' = SubSeq(q, taking + 1, Len(q))
  /\ asked' = 0 /\ taking' = 0
  /\ UNCHANGED aborted

Overrun(n) ==
  /\ ~ aborted
  /\ Len(q) + n > Capacity
  /\ aborted' = TRUE
  /\ UNCHANGED <<q, asked, taking, out>>

Payload == UNION {[1 .. n -> Byte] : n \in 1 .. MaxLen}

Next == \/ \E d \in Payload : Put(d)
        \/ \E n \in 1 .. MaxLen : Overrun(n)
        \/ \E n \in 1 .. MaxRead : Ask(n)
        \/ Settle \/ Get

Spec == Init /\ [][Next]_<<q, asked, taking, out, aborted>>
=============================================================================
