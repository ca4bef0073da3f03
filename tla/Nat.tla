------------------------------- MODULE Nat -------------------------------
(***************************************************************************)
(* The network address translator of lab 12 (nat.c, entered from           *)
(* handle_ip_packet): the table of mappings, the pool of external ports,   *)
(* and the timeout thread.  do_translation and a pass of nat_timeout hold  *)
(* nat.lock from end to end, so each is one step.                          *)
(*                                                                         *)
(* A connection of an inner host has two copies of its mapping: one in the *)
(* bucket of its own port, which its packets find, and one in the bucket   *)
(* of the external port, which the answers find.  Each copy has its own    *)
(* time and its own FIN flags.  The model follows what that does: one copy *)
(* expires or is reset while the other stays.                              *)
(*                                                                         *)
(* A flow is an inner (address, port).  Checksums and sequence numbers are *)
(* left out: nothing in the code decides on them.                          *)
(***************************************************************************)
EXTENDS Integers, FiniteSets, SequencesExt

CONSTANTS Flows,     \* inner endpoints: internal_ip and internal_port
          Ports,     \* the external ports, in ascending order (65536 of them)
          Buckets,   \* slots of nat_mapping_list
          FlowHash,  \* hash8 of the port of a flow
          PortHash,  \* hash8 of an external port
          Timeout,   \* seconds after which a copy is dropped (5 in the code)
          Garbage,   \* what malloc may leave in <<internal_fin, external_fin>>,
                     \* in the first and in the second copy
          MaxCopies, \* bound on the copies in the table, not in the code
          NoPort

PortSet == ToSet(Ports)

ASSUME NatAssumption ==
  /\ FlowHash \in [Flows -> Buckets] /\ PortHash \in [PortSet -> Buckets]
  /\ Ports \in Seq(Nat) /\ IsInjective(Ports) /\ NoPort \notin PortSet
  /\ Timeout \in Nat \ {0} /\ Garbage \subseteq ((0 .. 255) \X (0 .. 255)) \X ((0 .. 255) \X (0 .. 255)) /\ MaxCopies \in Nat

VARIABLES table,    \* nat_mapping_list: the copies of each bucket, in order
          assigned, \* the ports whose assigned_ports entry is 1
          fate,     \* "runs", "spins" with the lock held, or "aborted"
          quiet,    \* has the traffic stopped for good?
          \* what an observer sees, for the properties:
          watch,    \* does it still watch "both" directions, "out", or "none"?
          port,     \* per flow: the source port of its last translated packet
          silent    \* per flow: seconds since a packet of it went "out", or "in"

code == <<table, assigned, fate>>
seen == <<watch, port, silent>>
vars == <<code, quiet, seen>>

Flags == {"fin", "rst", "other"}   \* exactly FIN + ACK, exactly RST, the rest
Ways == {"out", "in"}
Heard == [w \in Ways |-> 0]
Empty == [b \in Buckets |-> <<>>]

Init ==
  /\ table = Empty
  /\ assigned = {}
  /\ fate = "runs"
  /\ quiet = FALSE
  /\ port = [f \in Flows |-> NoPort]
  /\ silent = [f \in Flows |-> Heard]
  /\ watch = "both"

\* The observer watches until the first RST, and while there is traffic.
Unwatched == /\ watch' = "none"
             /\ port' = [f \in Flows |-> NoPort]
             /\ silent' = [f \in Flows |-> Heard]

Abort == fate' = "aborted" /\ table' = Empty /\ assigned' = {}

-----------------------------------------------------------------------------
(* get_packet_direction.  The routing table knows the two networks of the  *)
(* interfaces, "lan" and "wan" being the addresses of the interfaces; the  *)
(* entry of an address it does not know is NULL, and dereferenced.         *)

Places == {"inside", "outside", "lan", "wan", "nowhere"}
Route(a) == CASE a \in {"inside", "lan"} -> "internal"
              [] a \in {"outside", "wan"} -> "external"
              [] OTHER -> "null"

Direction(src, dst) ==
  CASE Route(src) = "null" -> "crash"
    [] Route(src) = "internal" /\ Route(dst) = "null" -> "crash"
    [] Route(src) = "internal" /\ Route(dst) = "external" -> "DIR_OUT"
    [] Route(src) = "external" /\ dst = "wan" -> "DIR_IN"
    [] OTHER -> "DIR_INVALID"

\* A packet between addresses one of which the routing table does not know:
\* the process dies.  (Any other packet that is not of a TCP connection to the
\* outside is answered, refused or dropped, and changes nothing.)
Unroutable ==
  /\ fate = "runs" /\ ~ quiet
  /\ \E src, dst \in Places : Direction(src, dst) = "crash"
  /\ Abort
  /\ Unwatched
  /\ UNCHANGED quiet

-----------------------------------------------------------------------------
(* do_translation.                                                          *)

CopyCount == Cardinality(UNION {{b} \X DOMAIN table[b] : b \in Buckets})

\* The ports assign_external_port may return; with none it never returns.
Free == PortSet \ assigned

\* Mutant: update_time is not set, and is as old as what malloc leaves.
Copy_NoTime(f, p, fins) == [flow |-> f, ext |-> p, age |-> Timeout + 2,
                            internal_fin |-> fins[1], external_fin |-> fins[2]]
Copy(f, p, fins) == [flow |-> f, ext |-> p, age |-> 0,
                     internal_fin |-> fins[1], external_fin |-> fins[2]]

\* The table t with the copies c and d of a new mapping of f to p.
Added(t, f, p, c, d) ==
  LET u == [t EXCEPT ![FlowHash[f]] = Append(@, c)]
  IN  [u EXCEPT ![PortHash[p]] = Append(@, d)]

\* Mutant: update_time is not set.
Touched_Never(c, way, flags) ==
  CASE flags = "fin" /\ way = "out" -> [c EXCEPT !.internal_fin = 1]
    [] flags = "fin" /\ way = "in"  -> [c EXCEPT !.external_fin = 1]
    [] OTHER -> c
\* A copy by which a packet has been translated.
Touched(c, way, flags) ==
  LET d == [c EXCEPT !.age = 0]
  IN  CASE flags = "fin" /\ way = "out" -> [d EXCEPT !.internal_fin = 1]
        [] flags = "fin" /\ way = "in"  -> [d EXCEPT !.external_fin = 1]
        [] OTHER -> d

Finished(c, flags) == flags = "rst" /\ c.internal_fin + c.external_fin = 2

\* The copies of chain a packet of flow f, or a packet to port p, matches.
OfFlow(chain, f) == {i \in DOMAIN chain : chain[i].flow = f}
OfPort(chain, p) == {i \in DOMAIN chain : chain[i].ext = p}

\* A packet is translated and sent by each copy of hits, in chain b of t, with
\* with the ports of a assigned.  Sending it frees it: a second copy sends what is
\* freed, and the C library aborts.  The flags are read from the freed buffer,
\* which nothing has reused.
Translate(t, a, b, hits, way, flags) ==
  IF Cardinality(hits) > 1
  THEN Abort
  ELSE /\ fate' = "runs"
       /\ IF hits = {}
          THEN table' = t /\ assigned' = a
          ELSE LET i == CHOOSE i \in hits : TRUE
                   c == Touched(t[b][i], way, flags)
               IN  IF Finished(c, flags)
                   THEN /\ table' = [t EXCEPT ![b] = RemoveAt(@, i)]
                        /\ assigned' = a \ {c.ext}
                   ELSE /\ table' = [t EXCEPT ![b][i] = c]
                        /\ assigned' = a

\* What it sees of packets of the flows fs by port p.
Observe(fs, p, ways, flags) ==
  /\ IF watch = "none" \/ flags = "rst" \/ fate' # "runs"
     THEN Unwatched
     ELSE /\ port' = [f \in Flows |-> IF f \in fs THEN p ELSE port[f]]
          /\ silent' = [f \in Flows |-> [w \in Ways |->
                          IF f \in fs /\ w \in ways THEN 0 ELSE silent[f][w]]]
          /\ UNCHANGED watch
  /\ UNCHANGED quiet

\* A packet of a flow that has a mapping.
Out(f, flags) ==
  /\ fate = "runs" /\ ~ quiet
  /\ LET b == FlowHash[f]
         hits == OfFlow(table[b], f)
     IN  /\ hits # {}
         /\ Translate(table, assigned, b, hits, "out", flags)
         /\ \E i \in hits : Observe({f}, table[b][i].ext, {"out"}, flags)

\* A packet of a flow that has none: a port is assigned, and both copies added.
\* A new connection counts as heard of in both directions.
Open(f, flags) ==
  /\ fate = "runs" /\ ~ quiet
  /\ CopyCount + 2 <= MaxCopies
  /\ LET b == FlowHash[f]
     IN  /\ OfFlow(table[b], f) = {}
         /\ \E p \in Free, m \in Garbage :
              LET t == Added(table, f, p, Copy(f, p, m[1]), Copy(f, p, m[2]))
              IN  /\ Translate(t, assigned \cup {p}, b, OfFlow(t[b], f), "out", flags)
                  /\ Observe({f}, p, Ways, flags)

\* Every port is assigned: assign_external_port never returns, and no thread
\* ever gets the lock again.
OutOfPorts(f) ==
  /\ fate = "runs" /\ ~ quiet
  /\ OfFlow(table[FlowHash[f]], f) = {}
  /\ Free = {}
  /\ fate' = "spins"
  /\ UNCHANGED <<table, assigned, quiet, seen>>

\* A packet from outside to port p of the external address.  With no copy for
\* p it is dropped without a word, and nothing changes.
In(p, flags) ==
  /\ fate = "runs" /\ ~ quiet
  /\ LET b == PortHash[p]
         hits == OfPort(table[b], p)
     IN  hits # {} /\ Translate(table, assigned, b, hits, "in", flags)
  /\ Observe({f \in Flows : port[f] = p}, p, {"in"}, flags)

-----------------------------------------------------------------------------
(* nat_timeout.                                                             *)

Older(n) == IF n > Timeout THEN n ELSE n + 1

\* A second passes.  No thread runs for long with the lock held, and the pass
\* sleeps a second after each: a second is not missed, but may be cut short.
Second ==
  /\ fate = "runs"
  /\ UNCHANGED <<assigned, fate, quiet, port>>
  /\ table' = [b \in Buckets |-> [i \in DOMAIN table[b] |->
                                    [table[b][i] EXCEPT !.age = Older(@)]]]
  /\ LET now == [f \in Flows |-> IF port[f] = NoPort THEN silent[f]
                                 ELSE [w \in Ways |-> Older(silent[f][w])]]
         lapses == \E f \in Flows, w \in Ways : now[f][w] > Timeout
     IN  IF watch = "both" /\ ~ lapses
         THEN silent' = now /\ UNCHANGED watch
         ELSE /\ silent' = [f \in Flows |-> [now[f] EXCEPT !["in"] = 0]]
              /\ watch' = IF watch = "both" THEN "out" ELSE watch

\* Mutant: a second too early.
Expired_Early(c) == c.age >= Timeout
Expired(c) == c.age > Timeout

\* The copies of a chain that are left.
Fresh(chain) == FlattenSeq([i \in DOMAIN chain |-> IF Expired(chain[i]) THEN <<>> ELSE <<chain[i]>>])

\* Mutant: only the port the pass looks at is given back.
Swept_OwnPort(st, p) ==
  IF p \notin st.assigned THEN st
  ELSE LET chain == st.table[PortHash[p]]
       IN  [table |-> [st.table EXCEPT ![PortHash[p]] = Fresh(@)],
            assigned |-> IF \E c \in ToSet(chain) : Expired(c)
                         THEN st.assigned \ {p} ELSE st.assigned]
\* Mutant: the port is not given back.
Swept_KeepsPort(st, p) ==
  IF p \notin st.assigned THEN st ELSE [st EXCEPT !.table[PortHash[p]] = Fresh(@)]
\* The pass at port p: every copy in p's bucket that has expired, of whatever
\* connection, is removed and its port free.
Swept(st, p) ==
  IF p \notin st.assigned THEN st
  ELSE LET chain == st.table[PortHash[p]]
       IN  [table |-> [st.table EXCEPT ![PortHash[p]] = Fresh(@)],
            assigned |-> st.assigned \ {c.ext : c \in {c \in ToSet(chain) : Expired(c)}}]

\* The table and the assigned ports after the first n ports.
Passed[n \in 0 .. Len(Ports)] ==
  IF n = 0 THEN [table |-> table, assigned |-> assigned] ELSE Swept(Passed[n - 1], Ports[n])

Sweep ==
  /\ fate = "runs"
  /\ UNCHANGED <<fate, quiet, seen>>
  /\ table' = Passed[Len(Ports)].table /\ assigned' = Passed[Len(Ports)].assigned

\* The hosts have nothing more to say.
Silence ==
  /\ ~ quiet
  /\ quiet' = TRUE
  /\ Unwatched
  /\ UNCHANGED code

-----------------------------------------------------------------------------
Next == \/ Unroutable
        \/ \E f \in Flows, flags \in Flags : Out(f, flags) \/ Open(f, flags)
        \/ \E f \in Flows : OutOfPorts(f)
        \/ \E p \in PortSet, flags \in Flags : In(p, flags)
        \/ Second \/ Sweep \/ Silence

\* Time passes, and the timeout thread runs.
Fairness == WF_vars(Second) /\ WF_vars(Sweep)

Spec == Init /\ [][Next]_vars /\ Fairness

-----------------------------------------------------------------------------
(* Properties.                                                              *)

TypeOK ==
  /\ table \in [Buckets -> Seq([flow : Flows, ext : PortSet, age : 0 .. Timeout + 1,
                                internal_fin : 0 .. 255, external_fin : 0 .. 255])]
  /\ assigned \subseteq PortSet
  /\ fate \in {"runs", "spins", "aborted"}
  /\ quiet \in BOOLEAN /\ watch \in {"both", "out", "none"}
  /\ port \in [Flows -> PortSet \cup {NoPort}]
  /\ silent \in [Flows -> [Ways -> 0 .. Timeout + 1]]

\* No port is lost: the timeout only looks at assigned ports, each in its own
\* bucket, so an assigned port has a copy there; and it has a copy its flow
\* finds, so there are never more ports assigned than flows with a mapping.
PortsCovered ==
  \A p \in assigned :
    /\ OfPort(table[PortHash[p]], p) # {}
    /\ \E f \in Flows : \E c \in ToSet(table[FlowHash[f]]) : c.flow = f /\ c.ext = p

\* As long as every connection is heard of in both directions within the
\* timeout and none is reset, what comes to the port of a flow goes to that
\* flow and to nobody else, although each direction keeps its own copy.
ExactDelivery ==
  watch = "both" =>
    \A f \in Flows : port[f] # NoPort =>
      LET chain == table[PortHash[port[f]]]
          to == OfPort(chain, port[f])
      IN  Cardinality(to) = 1 /\ \A i \in to : chain[i].flow = f

\* An inner host that goes on sending keeps its external port, whatever is
\* dropped around it: until there is a RST, the mapping by which its packets
\* leave is lost only when it has sent nothing for longer than the timeout.
PortKept ==
  \A f \in Flows : port[f] # NoPort /\ silent[f]["out"] <= Timeout =>
    LET chain == table[FlowHash[f]]
    IN  \E i \in OfFlow(chain, f) : chain[i].ext = port[f]

\* Whatever copies were left behind, the ports of connections that have ended
\* come back, unless the translator itself has stopped.
PortsReclaimed == quiet ~> (fate # "runs" \/ assigned = {})
=============================================================================
