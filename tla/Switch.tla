------------------------------ MODULE Switch ------------------------------
(***************************************************************************)
(* The learning switch of lab 06 (handle_packet in main.c, mac.c): the     *)
(* hash table of addresses with their ports, the packet thread, which      *)
(* looks addresses up and learns them, and the thread that sweeps aged     *)
(* entries.                                                                *)
(*                                                                         *)
(* Every operation on the table holds its lock, but handling a frame takes *)
(* up to four of them, and lookup_port reads the port of the entry it has  *)
(* found after it has let go of the lock.  The sweep removes more than it  *)
(* should: of a chain with an aged entry it drops all, and frees one.      *)
(***************************************************************************)
EXTENDS Integers, FiniteSets, SequencesExt

CONSTANTS Stations, \* the hosts, by their addresses
          Others,   \* destinations that are no host's address: broadcasts
          Ignored,  \* the destination 33:33:00..., which compares equal to "33"
          Ports,    \* interfaces of the switch
          Place,    \* where each host is at first
          Buckets, Hash,  \* slots of hash_table, and hash8 of an address
          Timeout,  \* seconds an entry is kept (30)
          MaxMoves  \* bound on the moves of hosts, not in the code

Targets == Stations \cup Others \cup {Ignored}

ASSUME SwitchAssumption ==
  /\ Place \in [Stations -> Ports] /\ Hash \in [Stations -> Buckets]
  /\ Timeout \in Nat \ {0} /\ MaxMoves \in Nat
  /\ Stations \cap (Others \cup {Ignored}) = {} /\ Ignored \notin Others

VARIABLES table, \* per bucket the chain of entries: [mac, iface, age]
          rx,    \* the frame in hand and where its handling is
          late,  \* has a second passed since the frame was taken?
          fate,  \* "runs", or how the process has died
          at,    \* where each host is now
          moved, \* the hosts that have moved, as often as MaxMoves allows
          quiet  \* will no more frames come?

vars == <<table, rx, late, fate, at, moved, quiet>>

\* Between two frames.  "iface" and "freed" are the port of the entry that
\* lookup_port has found, and whether the sweep has freed it since; "wire" is
\* the set of ports the frame has left by.
Idle == [pc |-> "idle"]

Init ==
  /\ table = [b \in Buckets |-> <<>>]
  /\ rx = Idle
  /\ late = FALSE
  /\ fate = "runs"
  /\ at = Place
  /\ moved = {}
  /\ quiet = FALSE

-----------------------------------------------------------------------------
(* mac.c, called by the packet thread.                                      *)

EntryOf(m) == {e \in UNION {ToSet(table[b]) : b \in Buckets} : e.mac = m}
Known(m) == EntryOf(m) # {}

\* Mutant: visited is not set.
Visited_Not(m) == table
\* The table after lookup_port of m: the entry found, if any, is as new.
Visited(m) == [b \in Buckets |-> [i \in DOMAIN table[b] |->
                 IF table[b][i].mac = m THEN [table[b][i] EXCEPT !.age = 0]
                                        ELSE table[b][i]]]

\* Mutant: visited is left as malloc returns it.
Inserted_NoTime(m, p) ==
  [table EXCEPT ![Hash[m]] = Append(@, [mac |-> m, iface |-> p, age |-> Timeout + 2])]
\* The table after insert_mac_port: at the end of the chain.
Inserted(m, p) == [table EXCEPT ![Hash[m]] = Append(@, [mac |-> m, iface |-> p, age |-> 0])]

-----------------------------------------------------------------------------
(* handle_packet.                                                           *)

Running(pc) == fate = "runs" /\ rx.pc = pc
Env == <<at, moved, quiet>>

\* A frame of s comes in, and its destination is looked up.
Receive(s, d) ==
  /\ Running("idle") /\ ~ quiet
  /\ s # d
  /\ table' = Visited(d)
  /\ rx' = [pc |-> CASE d = Ignored -> "learn" [] Known(d) -> "send" [] OTHER -> "flood",
            src |-> s, dst |-> d, in |-> at[s], iface |-> at[s], freed |-> FALSE,
            wire |-> {}]
  /\ late' = FALSE
  /\ UNCHANGED <<fate, Env>>

\* Mutant: not to the first interface after the incoming one either.
Flooded_Short(p) == LET q == CHOOSE q \in Ports \ {p} : TRUE IN Ports \ {p, q}
\* The interfaces broadcast_packet sends to.
Flooded(p) == Ports \ {p}

Flood ==
  /\ Running("flood")
  /\ rx' = [rx EXCEPT !.pc = "learn", !.wire = Flooded(rx.in)]
  /\ UNCHANGED <<table, late, fate, Env>>

\* The second lookup of the destination.  If the sweep has dropped the entry
\* in between, NULL is handed to iface_send_packet.
LookUpAgain ==
  /\ Running("send")
  /\ table' = Visited(rx.dst)
  /\ IF Known(rx.dst)
     THEN /\ \E e \in EntryOf(rx.dst) :
               rx' = [rx EXCEPT !.pc = "out", !.iface = e.iface]
          /\ UNCHANGED fate
     ELSE fate' = "null" /\ UNCHANGED rx
  /\ UNCHANGED <<late, Env>>

\* iface_send_packet.  If the entry was freed after the unlock, the port read
\* from it may be anything: the frame is lost, or the process dies.
Emit ==
  /\ Running("out")
  /\ IF rx.freed
     THEN /\ fate' \in {"runs", "freed"}
          /\ rx' = [rx EXCEPT !.pc = "learn"]
     ELSE /\ rx' = [rx EXCEPT !.pc = "learn", !.wire = {rx.iface}]
          /\ UNCHANGED fate
  /\ UNCHANGED <<table, late, Env>>

\* Mutant: the source is inserted again with every frame.
Unknown_Always(m) == TRUE
\* Does the lookup of the source return NULL?
Unknown(m) == ~ Known(m)

\* The source is looked up; a source that is known is not learned again, be it
\* on another port.
Learn ==
  /\ Running("learn")
  /\ table' = Visited(rx.src)
  /\ rx' = IF Unknown(rx.src) /\ rx.dst # Ignored THEN [rx EXCEPT !.pc = "insert"]
                                                  ELSE Idle
  /\ UNCHANGED <<late, fate, Env>>

Insert ==
  /\ Running("insert")
  /\ table' = Inserted(rx.src, rx.in)
  /\ rx' = Idle
  /\ UNCHANGED <<late, fate, Env>>

-----------------------------------------------------------------------------
(* sweep_aged_mac_port_entry.                                               *)

\* Mutant: compared for equality, which a late pass misses.
Aged_Exactly(e) == e.age = Timeout
Aged(e) == e.age > Timeout

HasAged(b) == \E e \in ToSet(table[b]) : Aged(e)

\* The entry that is freed with the chain: the head, or the second if the head
\* has aged, hash_table[i] having been moved on to it.
FreedOf(chain) == IF Aged(Head(chain)) /\ Len(chain) > 1 THEN chain[2] ELSE chain[1]

\* An aged head that is alone is freed, and then printed.
PrintsFreed(chain) == Len(chain) = 1 /\ Aged(Head(chain))

\* What remains of a chain with an aged entry.
Kept(chain) == <<>>

Sweep ==
  /\ fate = "runs"
  /\ table' = [b \in Buckets |-> IF HasAged(b) THEN Kept(table[b]) ELSE table[b]]
  /\ rx' = IF rx.pc = "out" /\ \E b \in Buckets : HasAged(b) /\ FreedOf(table[b]).mac = rx.dst
           THEN [rx EXCEPT !.freed = TRUE] ELSE rx
  /\ fate' \in IF \E b \in Buckets : HasAged(b) /\ PrintsFreed(table[b])
               THEN {"runs", "freed"} ELSE {"runs"}
  /\ UNCHANGED <<late, Env>>

\* A second passes.  A frame is handled within two of them, so within less than
\* the timeout.
Second ==
  /\ fate = "runs"
  /\ rx.pc # "idle" => ~ late
  /\ late' = (rx.pc # "idle")
  /\ table' = [b \in Buckets |-> [i \in DOMAIN table[b] |->
                 [table[b][i] EXCEPT !.age = IF @ > Timeout THEN @ ELSE @ + 1]]]
  /\ UNCHANGED <<rx, fate, Env>>

-----------------------------------------------------------------------------
(* The hosts.                                                               *)

Move(m, p) ==
  /\ m \notin moved /\ Cardinality(moved) < MaxMoves
  /\ p # at[m] /\ ~ quiet
  /\ at' = [at EXCEPT ![m] = p]
  /\ moved' = moved \cup {m}
  /\ UNCHANGED <<table, rx, late, fate, quiet>>

Silence ==
  /\ ~ quiet
  /\ quiet' = TRUE
  /\ UNCHANGED <<table, rx, late, fate, at, moved>>

Handling == Flood \/ LookUpAgain \/ Emit \/ Learn \/ Insert

Next == \/ \E s \in Stations, d \in Targets : Receive(s, d)
        \/ Handling
        \/ Sweep \/ Second
        \/ \E m \in Stations, p \in Ports : Move(m, p)
        \/ Silence

\* Time passes, and both threads run.
Fairness == WF_vars(Handling) /\ WF_vars(Second) /\ WF_vars(Sweep)

Spec == Init /\ [][Next]_vars /\ Fairness

-----------------------------------------------------------------------------
(* Properties.                                                              *)

TypeOK ==
  /\ table \in [Buckets -> Seq([mac : Stations, iface : Ports, age : 0 .. Timeout + 1])]
  /\ \/ rx = Idle
     \/ rx \in [pc : {"flood", "send", "out", "learn", "insert"}, src : Stations,
                dst : Targets, in : Ports, iface : Ports, freed : BOOLEAN,
                wire : SUBSET Ports]
  /\ fate \in {"runs", "null", "freed"}
  /\ at \in [Stations -> Ports] /\ moved \subseteq Stations
  /\ {quiet, late} \subseteq BOOLEAN

\* An address has at most one entry, in its own bucket, although it is looked
\* up in one critical section and inserted in another: lookup_port stops at the
\* first, so a second entry would never be refreshed nor seen.
OneEntry ==
  \A m \in Stations :
    Cardinality({x \in UNION {{b} \X DOMAIN table[b] : b \in Buckets} :
                   table[x[1]][x[2]].mac = m}) <= 1

SharesBucket(m) == \E n \in Stations \ {m} : Hash[n] = Hash[m]

\* A frame to a host that has stayed in its place leaves by the port of that
\* host, or has come by it, whatever has been learned, swept and moved around
\* it.  The exception is a frame whose entry was freed under lookup_port.
Delivered ==
  rx.pc \in {"learn", "insert"} /\ rx.dst \in Stations \ moved
    => at[rx.dst] \in rx.wire \cup {rx.in} \/ rx.freed

\* No frame is handed to a NULL interface, or to one read from a freed entry,
\* unless its destination shares a bucket with another address: the first
\* lookup makes the entry new, and only a neighbour in the chain can take it
\* away before the port is read.
OwnBucketSafe ==
  fate = "null" \/ (rx.pc # "idle" /\ rx.freed) => SharesBucket(rx.dst)

\* A host that has moved is not lost for ever: once nobody refreshes it, every
\* entry is dropped, unless the sweep ends the process.
Forgets == quiet ~> (fate # "runs" \/ \A b \in Buckets : table[b] = <<>>)
=============================================================================
