--------------------------- MODULE Switch_proofs ---------------------------
(***************************************************************************)
(* The table of the learning switch holds one entry of an address, and a   *)
(* frame to a host that has not moved leaves by that host's port, for any  *)
(* hosts, ports, hash function, timeout and number of moves.               *)
(***************************************************************************)
EXTENDS Switch, FiniteSetTheorems, TLAPS

-----------------------------------------------------------------------------
(* The inductive invariant.                                                 *)

Item == [mac : Stations, iface : Ports, age : 0 .. Timeout + 1]
Tables == [Buckets -> Seq(Item)]

\* Every entry is in the bucket of its address, and the only one there.
Placed(t) == \A b \in Buckets : \A i \in DOMAIN t[b] : Hash[t[b][i].mac] = b
Unique(t) == \A b \in Buckets : \A i, j \in DOMAIN t[b] :
               t[b][i].mac = t[b][j].mac => i = j

Absent(t, m) == \A b \in Buckets : \A i \in DOMAIN t[b] : t[b][i].mac # m

\* The address about to be inserted is not in the table: the lookup did not find
\* it, and only the packet thread inserts.
Pending == rx.pc = "insert" => Absent(table, rx.src)

IInv == TypeOK /\ Placed(table) /\ Unique(table) /\ Pending

-----------------------------------------------------------------------------
(* Sequences and tables.                                                    *)

\* A sequence whose elements are replaced one by one is a sequence.
LEMMA SameLength ==
  ASSUME NEW S, NEW T, NEW s \in Seq(S), NEW u \in [DOMAIN s -> T]
  PROVE  u \in Seq(T) /\ DOMAIN u = DOMAIN s
<1>1. DOMAIN s = 1 .. Len(s) /\ Len(s) \in Nat
  OBVIOUS
<1> QED
  BY <1>1

\* The table t and the table u have the same addresses in the same places.
Same(t, u) == \A b \in Buckets : /\ DOMAIN u[b] = DOMAIN t[b]
                                 /\ \A i \in DOMAIN t[b] : u[b][i].mac = t[b][i].mac

\* Where the addresses stay, entries stay in place and alone.
LEMMA SameKeeps ==
  ASSUME NEW t, NEW u, Same(t, u)
  PROVE  /\ Placed(t) => Placed(u)
         /\ Unique(t) => Unique(u)
         /\ \A m : Absent(t, m) => Absent(u, m)
<1>1. Placed(t) => Placed(u)
  BY DEF Same, Placed
<1>2. Unique(t) => Unique(u)
  BY DEF Same, Unique
<1>3. \A m : Absent(t, m) => Absent(u, m)
  BY DEF Same, Absent
<1> QED
  BY <1>1, <1>2, <1>3

\* A lookup changes no address.
LEMMA VisitedKeeps ==
  ASSUME NEW m, table \in Tables, SwitchAssumption
  PROVE  Visited(m) \in Tables /\ Same(table, Visited(m))
<1> DEFINE New(b) == [i \in DOMAIN table[b] |->
                        IF table[b][i].mac = m THEN [table[b][i] EXCEPT !.age = 0]
                                               ELSE table[b][i]]
<1>1. ASSUME NEW b \in Buckets
      PROVE  /\ New(b) \in Seq(Item) /\ DOMAIN New(b) = DOMAIN table[b]
             /\ \A i \in DOMAIN table[b] : New(b)[i].mac = table[b][i].mac
  <2>1. table[b] \in Seq(Item)
    BY DEF Tables
  <2>2. \A i \in DOMAIN table[b] : table[b][i] \in Item
    BY <2>1
  <2>3. \A i \in DOMAIN table[b] : [table[b][i] EXCEPT !.age = 0] \in Item
    BY <2>2 DEF Item, SwitchAssumption
  <2>4. New(b) \in [DOMAIN table[b] -> Item]
    BY <2>2, <2>3
  <2>5. \A i \in DOMAIN table[b] : New(b)[i].mac = table[b][i].mac
    BY <2>2 DEF Item
  <2> QED
    BY <2>1, <2>4, <2>5, SameLength
<1>2. Visited(m) = [b \in Buckets |-> New(b)]
  BY DEF Visited
<1> QED
  BY <1>1, <1>2 DEF Tables, Same

\* Neither does the time.
LEMMA OlderKeeps ==
  ASSUME table \in Tables, SwitchAssumption, Second
  PROVE  table' \in Tables /\ Same(table, table')
<1> DEFINE New(b) == [i \in DOMAIN table[b] |->
                        [table[b][i] EXCEPT !.age = IF @ > Timeout THEN @ ELSE @ + 1]]
<1>1. ASSUME NEW b \in Buckets
      PROVE  /\ New(b) \in Seq(Item) /\ DOMAIN New(b) = DOMAIN table[b]
             /\ \A i \in DOMAIN table[b] : New(b)[i].mac = table[b][i].mac
  <2>1. table[b] \in Seq(Item)
    BY DEF Tables
  <2>2. \A i \in DOMAIN table[b] : table[b][i] \in Item
    BY <2>1
  <2>3. \A i \in DOMAIN table[b] : New(b)[i] \in Item
    BY <2>2 DEF Item, SwitchAssumption
  <2>4. New(b) \in [DOMAIN table[b] -> Item]
    BY <2>3
  <2>5. \A i \in DOMAIN table[b] : New(b)[i].mac = table[b][i].mac
    BY <2>2 DEF Item
  <2> QED
    BY <2>1, <2>4, <2>5, SameLength
<1>2. table' = [b \in Buckets |-> New(b)]
  BY DEF Second
<1> QED
  BY <1>1, <1>2 DEF Tables, Same

-----------------------------------------------------------------------------
(* The invariant holds at first and is preserved.                           *)

LEMMA InitInv == ASSUME SwitchAssumption, Init PROVE IInv
<1>1. table \in Tables
  BY DEF Init, Tables
<1>2. TypeOK
  BY <1>1 DEF SwitchAssumption, Init, TypeOK, Tables, Item
<1> QED
  BY <1>2 DEF Init, IInv, Placed, Unique, Pending, Idle

\* The part of TypeOK about the frame in hand.
Frame == [pc : {"flood", "send", "out", "learn", "insert"}, src : Stations,
          dst : Targets, in : Ports, iface : Ports, freed : BOOLEAN, wire : SUBSET Ports]
RxOK == rx = Idle \/ rx \in Frame

LEMMA TypeParts == TypeOK <=> /\ table \in Tables /\ RxOK
                              /\ fate \in {"runs", "null", "freed"}
                              /\ at \in [Stations -> Ports] /\ moved \subseteq Stations
                              /\ {quiet, late} \subseteq BOOLEAN
  BY DEF TypeOK, Tables, Item, RxOK, Frame

\* Once it is taken, a frame is in hand.
LEMMA InHand == ASSUME RxOK, rx.pc # "idle" PROVE rx \in Frame
  BY DEF RxOK, Idle

\* What a lookup leaves intact.
LEMMA LookupKeeps ==
  ASSUME NEW m, SwitchAssumption, IInv, table' = Visited(m)
  PROVE  /\ table' \in Tables /\ Placed(table') /\ Unique(table')
         /\ \A s : Absent(table, s) => Absent(table', s)
<1>1. table \in Tables /\ Placed(table) /\ Unique(table)
  BY TypeParts DEF IInv
<1>2. Visited(m) \in Tables /\ Same(table, Visited(m))
  BY <1>1, VisitedKeeps
<1> QED
  BY <1>1, <1>2, SameKeeps, Zenon

LEMMA UnknownAbsent == ASSUME NEW m, Unknown(m) PROVE Absent(table, m)
  BY DEF Unknown, Known, EntryOf, Absent, ToSet

\* The port of an entry is a port.
LEMMA EntryPort ==
  ASSUME table \in Tables, NEW m, NEW e \in EntryOf(m) PROVE e.iface \in Ports
<1>1. PICK b \in Buckets : e \in ToSet(table[b])
  BY DEF EntryOf
<1>2. table[b] \in Seq(Item)
  BY DEF Tables
<1>3. e \in Item
  BY <1>1, <1>2 DEF ToSet
<1> QED
  BY <1>3 DEF Item

\* insert_mac_port of an address that is absent.
LEMMA InsertKeeps ==
  ASSUME SwitchAssumption, table \in Tables, Placed(table), Unique(table),
         NEW m \in Stations, NEW p \in Ports, Absent(table, m)
  PROVE  /\ Inserted(m, p) \in Tables
         /\ Placed(Inserted(m, p)) /\ Unique(Inserted(m, p))
<1> DEFINE c == [mac |-> m, iface |-> p, age |-> 0]
           t == Inserted(m, p)
<1>1. c \in Item
  BY DEF Item, SwitchAssumption
<1>2. Hash[m] \in Buckets
  BY DEF SwitchAssumption
<1>3. \A b \in Buckets : table[b] \in Seq(Item)
  BY DEF Tables
<1>4. t = [table EXCEPT ![Hash[m]] = Append(@, c)]
  BY DEF Inserted
<1>5. \A b \in Buckets : b # Hash[m] => t[b] = table[b]
  BY <1>4 DEF Tables
<1>6. t[Hash[m]] = Append(table[Hash[m]], c)
  BY <1>2, <1>4 DEF Tables
<1> HIDE DEF t, c
<1>7. t[Hash[m]] \in Seq(Item)
  BY <1>1, <1>2, <1>3, <1>6
<1>8. t \in Tables
  <2>1. t \in [Buckets -> Seq(Item)]
    BY <1>3, <1>4, <1>7, <1>2, <1>1 DEF Tables
  <2> QED
    BY <2>1 DEF Tables
<1>9. /\ DOMAIN t[Hash[m]] = 1 .. Len(table[Hash[m]]) + 1
      /\ \A i \in 1 .. Len(table[Hash[m]]) : t[Hash[m]][i] = table[Hash[m]][i]
      /\ t[Hash[m]][Len(table[Hash[m]]) + 1] = c
      /\ DOMAIN table[Hash[m]] = 1 .. Len(table[Hash[m]])
      /\ Len(table[Hash[m]]) \in Nat
  BY <1>1, <1>2, <1>3, <1>6
<1>10. c.mac = m
  BY DEF c
<1>11. Placed(t)
  BY <1>2, <1>5, <1>9, <1>10 DEF Placed
<1>12. Unique(t)
  <2>1. \A i \in 1 .. Len(table[Hash[m]]) : t[Hash[m]][i].mac # m
    BY <1>2, <1>9 DEF Absent
  <2>2. \A i, j \in 1 .. Len(table[Hash[m]]) :
          t[Hash[m]][i].mac = t[Hash[m]][j].mac => i = j
    BY <1>2, <1>9 DEF Unique
  <2>3. ASSUME NEW i \in DOMAIN t[Hash[m]], NEW j \in DOMAIN t[Hash[m]],
               t[Hash[m]][i].mac = t[Hash[m]][j].mac
        PROVE  i = j
    <3> DEFINE n == Len(table[Hash[m]])
    <3>1. i \in 1 .. n \/ i = n + 1
      BY <1>9
    <3>2. j \in 1 .. n \/ j = n + 1
      BY <1>9
    <3>3. t[Hash[m]][n + 1].mac = m
      BY <1>9, <1>10
    <3> QED
      BY <2>1, <2>2, <2>3, <3>1, <3>2, <3>3, Zenon
  <2>4. \A b \in Buckets : b # Hash[m] =>
          \A i, j \in DOMAIN t[b] : t[b][i].mac = t[b][j].mac => i = j
    BY <1>5 DEF Unique
  <2> QED
    BY <2>3, <2>4, Zenon DEF Unique
<1> QED
  BY <1>8, <1>11, <1>12 DEF t

LEMMA NextInv == ASSUME SwitchAssumption, IInv, [Next]_vars PROVE IInv'
<1>1. /\ table \in Tables /\ Placed(table) /\ Unique(table) /\ Pending /\ RxOK
      /\ fate \in {"runs", "null", "freed"} /\ at \in [Stations -> Ports]
      /\ moved \subseteq Stations /\ {quiet, late} \subseteq BOOLEAN
  BY TypeParts DEF IInv
\* It is enough to look at the table and at the frame.
<1>2. SUFFICES /\ table' \in Tables /\ Placed(table') /\ Unique(table')
               /\ RxOK' /\ Pending'
               /\ fate' \in {"runs", "null", "freed"} /\ at' \in [Stations -> Ports]
               /\ moved' \subseteq Stations /\ {quiet, late}' \subseteq BOOLEAN
  BY DEF IInv, TypeOK, Tables, Item, RxOK, Frame
<1>3. ASSUME NEW s \in Stations, NEW d \in Targets, Receive(s, d)
      PROVE  /\ table' = Visited(d) /\ RxOK' /\ rx'.pc # "insert" /\ late' = FALSE
             /\ UNCHANGED <<fate, at, moved, quiet>>
  <2>1. at[s] \in Ports
    BY <1>1
  <2>2. rx' \in Frame
    BY <1>3, <2>1 DEF Receive, Frame
  <2> QED
    BY <1>3, <2>2 DEF Receive, RxOK, Env
<1>4. CASE \E s \in Stations, d \in Targets : Receive(s, d)
  <2>1. PICK s \in Stations, d \in Targets : Receive(s, d)
    BY <1>4
  <2>2. table' = Visited(d) /\ RxOK' /\ rx'.pc # "insert"
    BY <1>3, <2>1
  <2>3. table' \in Tables /\ Placed(table') /\ Unique(table')
    BY <2>2, LookupKeeps
  <2> QED
    BY <1>1, <1>3, <2>1, <2>2, <2>3 DEF Pending
<1>5. CASE Flood
  <2>1. RxOK' /\ rx'.pc # "insert"
    <3>1. RxOK /\ rx.pc = "flood" /\ rx' = [rx EXCEPT !.pc = "learn", !.wire = Ports \ {rx.in}]
      BY <1>1, <1>5 DEF Flood, Running, Flooded
    <3>2. rx \in Frame
      BY <3>1, InHand
    <3>3. rx' \in Frame /\ rx'.pc = "learn"
      BY <3>1, <3>2 DEF Frame
    <3> QED
      BY <3>3 DEF RxOK
  <2>2. UNCHANGED <<table, fate, at, moved, quiet>> /\ late' = late
    BY <1>5 DEF Flood, Env
  <2>3. Pending'
    BY <2>1 DEF Pending
  <2> QED
    BY <1>1, <2>1, <2>2, <2>3
<1>6. CASE LookUpAgain
  <2>1. table' \in Tables /\ Placed(table') /\ Unique(table')
    BY <1>6, LookupKeeps DEF LookUpAgain
  <2>2. RxOK' /\ rx'.pc # "insert"
    <3>1. rx \in Frame /\ rx.pc = "send"
      <4>1. RxOK /\ rx.pc = "send"
        BY <1>1, <1>6 DEF LookUpAgain, Running
      <4> QED
        BY <4>1, InHand
    <3>2. \A e \in EntryOf(rx.dst) : e.iface \in Ports
      BY <1>1, EntryPort
    <3>3. CASE Known(rx.dst)
      <4>1. PICK e \in EntryOf(rx.dst) : rx' = [rx EXCEPT !.pc = "out", !.iface = e.iface]
        BY <1>6, <3>3 DEF LookUpAgain
      <4>2. rx' \in Frame /\ rx'.pc = "out"
        BY <3>1, <3>2, <4>1 DEF Frame
      <4> QED
        BY <4>2 DEF RxOK
    <3>4. CASE ~ Known(rx.dst)
      <4>1. rx' = rx
        BY <1>6, <3>4 DEF LookUpAgain
      <4> QED
        BY <3>1, <4>1 DEF RxOK
    <3> QED
      BY <3>3, <3>4
  <2>3. UNCHANGED <<late, at, moved, quiet>> /\ fate' \in {"runs", "null", "freed"}
    BY <1>1, <1>6 DEF LookUpAgain, Env
  <2>4. Pending'
    BY <2>2 DEF Pending
  <2> QED
    BY <1>1, <2>1, <2>2, <2>3, <2>4
<1>7. CASE Emit
  <2>1. RxOK' /\ rx'.pc # "insert"
    <3>1. /\ RxOK /\ rx.pc = "out"
          /\ \/ rx' = [rx EXCEPT !.pc = "learn"]
             \/ rx' = [rx EXCEPT !.pc = "learn", !.wire = {rx.iface}]
      BY <1>1, <1>7 DEF Emit, Running
    <3>2. rx \in Frame
      BY <3>1, InHand
    <3>3. {rx.iface} \in SUBSET Ports
      BY <3>2 DEF Frame
    <3>4. ASSUME NEW w \in SUBSET Ports, rx' = [rx EXCEPT !.pc = "learn", !.wire = w]
          PROVE  rx' \in Frame /\ rx'.pc = "learn"
      BY <3>2, <3>4 DEF Frame
    <3>5. CASE rx' = [rx EXCEPT !.pc = "learn"]
      BY <3>2, <3>5 DEF Frame, RxOK
    <3>6. CASE rx' = [rx EXCEPT !.pc = "learn", !.wire = {rx.iface}]
      BY <3>3, <3>4, <3>6 DEF RxOK
    <3> QED
      BY <3>1, <3>5, <3>6
  <2>2. UNCHANGED <<table, late, at, moved, quiet>> /\ fate' \in {"runs", "null", "freed"}
    BY <1>1, <1>7 DEF Emit, Env
  <2>3. Pending'
    BY <2>1 DEF Pending
  <2> QED
    BY <1>1, <2>1, <2>2, <2>3
<1>8. CASE Learn
  <2>1. /\ table' \in Tables /\ Placed(table') /\ Unique(table')
        /\ Absent(table, rx.src) => Absent(table', rx.src)
    BY <1>8, LookupKeeps DEF Learn
  <2>2. rx \in Frame
    BY <1>1, <1>8 DEF Learn, Running, RxOK, Idle
  <2>3. RxOK'
    BY <1>8, <2>2 DEF Learn, RxOK, Frame
  <2>4. Pending'
    <3>1. CASE Unknown(rx.src) /\ rx.dst # Ignored
      <4>1. rx'.src = rx.src
        BY <1>8, <2>2, <3>1 DEF Learn, Frame
      <4> QED
        BY <2>1, <3>1, <4>1, UnknownAbsent DEF Pending
    <3>2. CASE ~ (Unknown(rx.src) /\ rx.dst # Ignored)
      BY <1>8, <3>2 DEF Learn, Pending, Idle
    <3> QED
      BY <3>1, <3>2
  <2> QED
    BY <1>1, <1>8, <2>1, <2>3, <2>4 DEF Learn, Env
<1>9. CASE Insert
  <2>1. rx \in Frame /\ rx.pc = "insert"
    BY <1>1, <1>9 DEF Insert, Running, RxOK, Idle
  <2>2. rx.src \in Stations /\ rx.in \in Ports /\ Absent(table, rx.src)
    BY <1>1, <2>1 DEF Frame, Pending
  <2>3. table' \in Tables /\ Placed(table') /\ Unique(table')
    BY <1>1, <1>9, <2>2, InsertKeeps DEF Insert
  <2> QED
    BY <1>1, <1>9, <2>3 DEF Insert, Env, RxOK, Pending, Idle
<1>10. CASE Sweep
  <2>1. table' = [b \in Buckets |-> IF HasAged(b) THEN <<>> ELSE table[b]]
    BY <1>10 DEF Sweep, Kept
  <2>2. table' \in Tables
    BY <1>1, <2>1 DEF Tables
  <2>3. Placed(table') /\ Unique(table') /\ \A m : Absent(table, m) => Absent(table', m)
    BY <1>1, <2>1 DEF Placed, Unique, Absent
  <2>4. RxOK' /\ (rx'.pc = "insert" => rx.pc = "insert" /\ rx'.src = rx.src)
    BY <1>1, <1>10 DEF Sweep, RxOK, Frame, Idle
  <2>5. Pending'
    BY <1>1, <2>3, <2>4 DEF Pending
  <2> QED
    BY <1>1, <1>10, <2>2, <2>3, <2>4, <2>5 DEF Sweep, Env
<1>11. CASE Second
  <2>1. table' \in Tables /\ Same(table, table')
    BY <1>1, <1>11, OlderKeeps
  <2>2. Placed(table') /\ Unique(table') /\ \A m : Absent(table, m) => Absent(table', m)
    BY <1>1, <2>1, SameKeeps, Zenon
  <2>3. UNCHANGED <<rx, fate, at, moved, quiet>> /\ late' \in BOOLEAN
    BY <1>11 DEF Second, Env
  <2> QED
    BY <1>1, <2>1, <2>2, <2>3 DEF RxOK, Pending
<1>12. CASE \E m \in Stations, p \in Ports : Move(m, p)
  BY <1>1, <1>12 DEF Move, RxOK, Pending
<1>13. CASE Silence
  BY <1>1, <1>13 DEF Silence, RxOK, Pending
<1>14. CASE UNCHANGED vars
  BY <1>1, <1>14 DEF vars, RxOK, Pending
<1> QED
  BY <1>4, <1>5, <1>6, <1>7, <1>8, <1>9, <1>10, <1>11, <1>12, <1>13, <1>14
     DEF Next, Handling

LEMMA Invariant == ASSUME SwitchAssumption PROVE Spec => []IInv
<1>1. Init => IInv
  BY InitInv
<1>2. IInv /\ [Next]_vars => IInv'
  BY NextInv
<1> QED
  BY <1>1, <1>2, PTL DEF Spec

-----------------------------------------------------------------------------
(* What follows.                                                            *)

\* The table, the frame in hand and the environment have their types.
THEOREM TypeCorrect == ASSUME SwitchAssumption PROVE Spec => []TypeOK
<1>1. IInv => TypeOK
  BY DEF IInv
<1> QED
  BY <1>1, Invariant, PTL

LEMMA AtMostOne ==
  ASSUME NEW S, \A x, y \in S : x = y PROVE Cardinality(S) <= 1
<1>1. CASE S = {}
  BY <1>1, FS_EmptySet
<1>2. CASE S # {}
  <2>1. PICK x \in S : TRUE
    BY <1>2
  <2>2. S = {x}
    BY <2>1
  <2> QED
    BY <2>2, FS_Singleton
<1> QED
  BY <1>1, <1>2

\* An address has at most one entry, although lookup and insertion are separate
\* critical sections (main.c:43-44) and the sweep runs between them.
THEOREM EntriesUnique == ASSUME SwitchAssumption PROVE Spec => []OneEntry
<1>1. ASSUME IInv PROVE OneEntry
  <2>1. SUFFICES ASSUME NEW m \in Stations
                 PROVE  Cardinality({x \in UNION {{b} \X DOMAIN table[b] : b \in Buckets} :
                                       table[x[1]][x[2]].mac = m}) <= 1
    BY DEF OneEntry
  <2> DEFINE S == {x \in UNION {{b} \X DOMAIN table[b] : b \in Buckets} :
                     table[x[1]][x[2]].mac = m}
  <2>2. ASSUME NEW x \in S
        PROVE  /\ x = <<x[1], x[2]>> /\ x[1] = Hash[m] /\ x[1] \in Buckets
               /\ x[2] \in DOMAIN table[x[1]] /\ table[x[1]][x[2]].mac = m
    <3>1. PICK b \in Buckets : x \in {b} \X DOMAIN table[b]
      OBVIOUS
    <3> QED
      BY <1>1, <3>1 DEF IInv, Placed
  <2>3. ASSUME NEW x \in S, NEW y \in S PROVE x = y
    <3>1. x[1] = y[1]
      BY <2>2
    <3>2. x[2] = y[2]
      BY <1>1, <2>2, <3>1 DEF IInv, Unique
    <3> QED
      BY <2>2, <3>1, <3>2
  <2> HIDE DEF S
  <2> QED
    BY <2>3, AtMostOne DEF S
<1> QED
  BY <1>1, Invariant, PTL

-----------------------------------------------------------------------------
(* The entry between the two lookups of handle_packet.                      *)

\* Table t has an entry of m that is no older than n seconds.
Fresh(t, m, n) ==
  \E i \in DOMAIN t[Hash[m]] : t[Hash[m]][i].mac = m /\ t[Hash[m]][i].age <= n

\* From the first lookup of the destination until its port is read, a
\* destination with a bucket of its own has an entry that cannot have aged.
Young ==
  fate = "runs" /\ rx.pc \in {"send", "out"} /\ ~ SharesBucket(rx.dst)
    => rx.dst \in Stations /\ Fresh(table, rx.dst, IF late THEN 1 ELSE 0)

\* A lookup that finds an entry makes it new.
LEMMA VisitedFresh ==
  ASSUME SwitchAssumption, IInv, NEW m, Known(m)
  PROVE  m \in Stations /\ Fresh(Visited(m), m, 0)
<1>1. table \in Tables /\ Placed(table)
  BY TypeParts DEF IInv
<1>2. PICK b \in Buckets : \E i \in DOMAIN table[b] : table[b][i].mac = m
  BY DEF Known, EntryOf, ToSet
<1>3. PICK i \in DOMAIN table[b] : table[b][i].mac = m
  BY <1>2
<1>4. table[b] \in Seq(Item)
  BY <1>1 DEF Tables
<1>5. table[b][i] \in Item
  BY <1>3, <1>4
<1>6. m \in Stations /\ Hash[m] = b
  BY <1>1, <1>3, <1>5 DEF Placed, Item
<1>7. DOMAIN Visited(m)[b] = DOMAIN table[b]
      /\ Visited(m)[b][i] = [table[b][i] EXCEPT !.age = 0]
  BY <1>2, <1>3 DEF Visited
<1>8. Visited(m)[b][i].mac = m /\ Visited(m)[b][i].age = 0
  BY <1>3, <1>5, <1>7 DEF Item
<1>9. \E j \in DOMAIN Visited(m)[b] :
        Visited(m)[b][j].mac = m /\ Visited(m)[b][j].age <= 0
  <2>1. i \in DOMAIN Visited(m)[b]
    BY <1>3, <1>7
  <2>2. Visited(m)[b][i].age <= 0
    BY <1>8
  <2> QED
    BY <1>8, <2>1, <2>2, Zenon
<1> QED
  BY <1>6, <1>9 DEF Fresh

\* A bucket with a fresh entry of an address that has it to itself is not swept.
LEMMA FreshStays ==
  ASSUME SwitchAssumption, IInv, NEW m \in Stations, ~ SharesBucket(m),
         Fresh(table, m, IF late THEN 1 ELSE 0)
  PROVE  ~ HasAged(Hash[m])
<1>1. table \in Tables /\ Placed(table) /\ Unique(table)
  BY TypeParts DEF IInv
<1>2. Hash[m] \in Buckets
  BY DEF SwitchAssumption
<1>3. table[Hash[m]] \in Seq(Item)
  BY <1>1, <1>2 DEF Tables
<1>4. PICK i \in DOMAIN table[Hash[m]] :
        table[Hash[m]][i].mac = m /\ table[Hash[m]][i].age <= IF late THEN 1 ELSE 0
  BY DEF Fresh
<1>5. ASSUME NEW j \in DOMAIN table[Hash[m]] PROVE j = i
  <2>1. table[Hash[m]][j] \in Item
    BY <1>3
  <2>2. Hash[table[Hash[m]][j].mac] = Hash[m] /\ table[Hash[m]][j].mac \in Stations
    BY <1>1, <1>2, <2>1 DEF Placed, Item
  <2>3. table[Hash[m]][j].mac = m
    BY <2>2 DEF SharesBucket
  <2> QED
    BY <1>1, <1>2, <1>4, <2>3 DEF Unique
<1>6. table[Hash[m]][i].age \in 0 .. Timeout + 1
  <2>1. table[Hash[m]][i] \in Item
    BY <1>3, <1>4
  <2> QED
    BY <2>1 DEF Item
<1>7. ~ Aged(table[Hash[m]][i])
  BY <1>4, <1>6 DEF Aged, SwitchAssumption
<1> QED
  BY <1>5, <1>7 DEF HasAged, ToSet

\* What the sweep frees is an entry of the chain.
LEMMA FreedInChain ==
  ASSUME table \in Tables, NEW b \in Buckets, HasAged(b)
  PROVE  \E i \in DOMAIN table[b] : FreedOf(table[b]) = table[b][i]
<1>1. table[b] \in Seq(Item)
  BY DEF Tables
<1>2. DOMAIN table[b] # {}
  BY DEF HasAged, ToSet
<1>3. 1 \in DOMAIN table[b] /\ (Len(table[b]) > 1 => 2 \in DOMAIN table[b])
  BY <1>1, <1>2
<1> QED
  BY <1>3 DEF FreedOf

\* The sweep cannot free the entry under a frame for a bucket of its own.
LEMMA SweepSpares ==
  ASSUME SwitchAssumption, IInv, Young, Sweep, rx.pc \in {"send", "out"},
         ~ SharesBucket(rx.dst)
  PROVE  /\ rx' = rx /\ rx.dst \in Stations
         /\ Fresh(table', rx.dst, IF late THEN 1 ELSE 0)
<1>1. /\ rx.dst \in Stations /\ Fresh(table, rx.dst, IF late THEN 1 ELSE 0)
      /\ Hash[rx.dst] \in Buckets /\ table \in Tables /\ Placed(table)
  BY TypeParts DEF Sweep, Young, SwitchAssumption, IInv
<1>2. ~ HasAged(Hash[rx.dst])
  BY <1>1, FreshStays
<1>3. table'[Hash[rx.dst]] = table[Hash[rx.dst]]
  BY <1>1, <1>2 DEF Sweep
<1>4. ASSUME NEW b \in Buckets, HasAged(b) PROVE FreedOf(table[b]).mac # rx.dst
  <2>1. PICK i \in DOMAIN table[b] : FreedOf(table[b]) = table[b][i]
    BY <1>1, <1>4, FreedInChain
  <2>2. Hash[table[b][i].mac] = b
    BY <1>1 DEF Placed
  <2> QED
    BY <1>2, <1>4, <2>1, <2>2
<1>5. rx' = rx
  BY <1>4 DEF Sweep
<1> QED
  BY <1>1, <1>3, <1>5 DEF Fresh

\* A second later the entry is a second older.
LEMMA SecondFresh ==
  ASSUME SwitchAssumption, IInv, NEW m \in Stations, Fresh(table, m, 0), Second
  PROVE  Fresh(table', m, 1)
<1>1. table \in Tables /\ Hash[m] \in Buckets
  BY TypeParts DEF IInv, SwitchAssumption
<1>2. table[Hash[m]] \in Seq(Item)
  BY <1>1 DEF Tables
<1>3. PICK i \in DOMAIN table[Hash[m]] :
        table[Hash[m]][i].mac = m /\ table[Hash[m]][i].age <= 0
  BY DEF Fresh
<1>4. table[Hash[m]][i] \in Item
  BY <1>2, <1>3
<1>5. /\ DOMAIN table'[Hash[m]] = DOMAIN table[Hash[m]]
      /\ table'[Hash[m]][i] = [table[Hash[m]][i] EXCEPT
                                 !.age = IF @ > Timeout THEN @ ELSE @ + 1]
  BY <1>1, <1>3 DEF Second
<1>6. table'[Hash[m]][i].mac = m /\ table'[Hash[m]][i].age <= 1
  BY <1>3, <1>4, <1>5 DEF Item, SwitchAssumption
<1> QED
  BY <1>3, <1>5, <1>6 DEF Fresh

\* Unchanged variables keep both.
LEMMA SafeKeeps ==
  ASSUME Young, OwnBucketSafe, UNCHANGED <<table, rx, late, fate>>
  PROVE  Young' /\ OwnBucketSafe'
  BY DEF Young, OwnBucketSafe, Fresh

\* A frame that has left by its port, or has none to leave by, is safe.
LEMMA PastKeeps ==
  ASSUME OwnBucketSafe, fate' # "null", rx.pc # "idle", rx'.pc \notin {"send", "out"},
         rx'.pc # "idle" => rx'.dst = rx.dst /\ rx'.freed = rx.freed
  PROVE  Young' /\ OwnBucketSafe'
<1>1. OwnBucketSafe'
  BY DEF OwnBucketSafe, SharesBucket
<1> QED
  BY <1>1 DEF Young

LEMMA SafeNext ==
  ASSUME SwitchAssumption, IInv, Young, OwnBucketSafe, [Next]_vars
  PROVE  Young' /\ OwnBucketSafe'
<1>1. RxOK
  BY TypeParts DEF IInv
<1>2. CASE \E s \in Stations, d \in Targets : Receive(s, d)
  <2>1. PICK s \in Stations, d \in Targets : Receive(s, d)
    BY <1>2
  <2>2. /\ fate' = "runs" /\ late' = FALSE /\ table' = Visited(d)
        /\ rx'.dst = d /\ rx'.freed = FALSE
        /\ rx'.pc = CASE d = Ignored -> "learn" [] Known(d) -> "send" [] OTHER -> "flood"
    BY <2>1 DEF Receive, Running
  <2>3. OwnBucketSafe'
    BY <2>2 DEF OwnBucketSafe
  <2>4. CASE rx'.pc = "send"
    <3>1. Known(d)
      BY <2>2, <2>4
    <3>2. d \in Stations /\ Fresh(Visited(d), d, 0)
      BY <3>1, VisitedFresh
    <3> QED
      BY <2>2, <2>3, <3>2 DEF Young
  <2>5. CASE rx'.pc # "send"
    BY <2>2, <2>3, <2>5 DEF Young
  <2> QED
    BY <2>4, <2>5
<1>3. CASE Flood
  <2>1. rx.pc = "flood" /\ fate' = "runs" /\ rx' = [rx EXCEPT !.pc = "learn", !.wire = Flooded(rx.in)]
    BY <1>3 DEF Flood, Running
  <2>2. rx \in Frame
    BY <1>1, <2>1, InHand
  <2>3. rx'.pc = "learn" /\ rx'.dst = rx.dst /\ rx'.freed = rx.freed
    BY <2>1, <2>2 DEF Frame
  <2> QED
    BY <2>1, <2>3, PastKeeps
<1>4. CASE LookUpAgain
  <2>1. rx.pc = "send" /\ fate = "runs" /\ table' = Visited(rx.dst) /\ late' = late
    BY <1>4 DEF LookUpAgain, Running
  <2>2. rx \in Frame
    BY <1>1, <2>1, InHand
  <2>3. CASE Known(rx.dst)
    <3>1. PICK e \in EntryOf(rx.dst) : rx' = [rx EXCEPT !.pc = "out", !.iface = e.iface]
      BY <1>4, <2>3 DEF LookUpAgain
    <3>2. rx'.dst = rx.dst /\ rx'.freed = rx.freed
      BY <2>2, <3>1 DEF Frame
    <3>3. OwnBucketSafe'
      BY <1>4, <2>1, <2>3, <3>2 DEF LookUpAgain, OwnBucketSafe, SharesBucket
    <3>4. rx.dst \in Stations /\ Fresh(table', rx'.dst, 0)
      BY <2>1, <2>3, <3>2, VisitedFresh
    <3>5. Fresh(table', rx'.dst, IF late' THEN 1 ELSE 0)
      <4>1. table'[Hash[rx'.dst]] \in Seq(Item)
        <5>1. table' \in Tables
          BY <2>1, LookupKeeps
        <5>2. Hash[rx'.dst] \in Buckets
          BY <3>2, <3>4 DEF SwitchAssumption
        <5> QED
          BY <5>1, <5>2 DEF Tables
      <4>2. \A i \in DOMAIN table'[Hash[rx'.dst]] : table'[Hash[rx'.dst]][i] \in Item
        BY <4>1
      <4>3. \A i \in DOMAIN table'[Hash[rx'.dst]] :
              table'[Hash[rx'.dst]][i].age \in 0 .. Timeout + 1
        BY <4>2 DEF Item
      <4> QED
        BY <3>4, <4>3 DEF Fresh, SwitchAssumption
    <3> QED
      BY <3>2, <3>3, <3>4, <3>5 DEF Young
  <2>4. CASE ~ Known(rx.dst)
    <3>1. rx' = rx /\ fate' = "null"
      BY <1>4, <2>4 DEF LookUpAgain
    <3>2. ~ Fresh(table, rx.dst, IF late THEN 1 ELSE 0) \/ rx.dst \notin Stations
      BY <2>4 DEF Fresh, Known, EntryOf, ToSet, SwitchAssumption
    <3>3. SharesBucket(rx.dst)
      BY <2>1, <3>2 DEF Young
    <3> QED
      BY <3>1, <3>3 DEF Young, OwnBucketSafe
  <2> QED
    BY <2>3, <2>4
<1>5. CASE Emit
  <2>1. /\ rx.pc = "out" /\ fate = "runs" /\ fate' \in {"runs", "freed"}
        /\ \/ rx' = [rx EXCEPT !.pc = "learn"]
           \/ rx' = [rx EXCEPT !.pc = "learn", !.wire = {rx.iface}]
    BY <1>5 DEF Emit, Running
  <2>2. rx \in Frame
    BY <1>1, <2>1, InHand
  <2>3. rx'.pc = "learn" /\ rx'.dst = rx.dst /\ rx'.freed = rx.freed
    BY <2>1, <2>2 DEF Frame
  <2> QED
    BY <2>1, <2>3, PastKeeps
<1>6. CASE Learn
  <2>1. /\ rx.pc = "learn" /\ fate' = "runs"
        /\ rx' = [rx EXCEPT !.pc = "insert"] \/ rx' = Idle
    BY <1>6 DEF Learn, Running
  <2>2. rx \in Frame
    BY <1>1, <2>1, InHand
  <2>3. /\ rx'.pc \in {"insert", "idle"}
        /\ rx'.pc # "idle" => rx'.dst = rx.dst /\ rx'.freed = rx.freed
    BY <2>1, <2>2 DEF Frame, Idle
  <2> QED
    BY <2>1, <2>3, PastKeeps
<1>7. CASE Insert
  <2>1. rx.pc = "insert" /\ fate' = "runs" /\ rx'.pc = "idle"
    BY <1>7 DEF Insert, Running, Idle
  <2> QED
    BY <2>1, PastKeeps
<1>8. CASE Sweep
  <2>1. fate = "runs" /\ fate' # "null" /\ late' = late
    BY <1>8 DEF Sweep
  <2>2. CASE rx.pc \in {"send", "out"} /\ ~ SharesBucket(rx.dst)
    <3>1. /\ rx' = rx /\ rx.dst \in Stations
          /\ Fresh(table', rx.dst, IF late THEN 1 ELSE 0)
      BY <1>8, <2>2, SweepSpares
    <3> QED
      BY <2>1, <3>1 DEF Young, OwnBucketSafe
  <2>3. CASE rx.pc \in {"send", "out"} /\ SharesBucket(rx.dst)
    <3>1. rx \in Frame
      BY <1>1, <2>3, InHand
    <3>2. rx' = rx \/ rx' = [rx EXCEPT !.freed = TRUE]
      BY <1>8 DEF Sweep
    <3>3. rx'.dst = rx.dst
      BY <3>1, <3>2 DEF Frame
    <3>4. SharesBucket(rx'.dst)
      BY <2>3, <3>3
    <3> QED
      BY <3>4 DEF Young, OwnBucketSafe, SharesBucket
  <2>4. CASE rx.pc \notin {"send", "out"}
    <3>1. rx' = rx
      BY <1>8, <2>4 DEF Sweep
    <3> QED
      BY <2>1, <2>4, <3>1 DEF Young, OwnBucketSafe
  <2> QED
    BY <2>2, <2>3, <2>4
<1>9. CASE Second
  <2>1. /\ fate = "runs" /\ (rx.pc # "idle" => ~ late) /\ late' = (rx.pc # "idle")
        /\ UNCHANGED <<rx, fate>>
    BY <1>9 DEF Second
  <2>2. OwnBucketSafe'
    BY <2>1 DEF OwnBucketSafe
  <2>3. CASE rx.pc \in {"send", "out"} /\ ~ SharesBucket(rx.dst)
    <3>1. rx.dst \in Stations /\ Fresh(table, rx.dst, 0) /\ late' = TRUE
      BY <2>1, <2>3 DEF Young
    <3>2. Fresh(table', rx.dst, 1)
      BY <1>9, <3>1, SecondFresh
    <3> QED
      BY <2>1, <2>2, <3>1, <3>2 DEF Young
  <2>4. CASE ~ (rx.pc \in {"send", "out"} /\ ~ SharesBucket(rx.dst))
    BY <2>1, <2>2, <2>4 DEF Young
  <2> QED
    BY <2>3, <2>4
<1>10. CASE \/ \E m \in Stations, p \in Ports : Move(m, p)
            \/ Silence \/ UNCHANGED vars
  <2>1. UNCHANGED <<table, rx, late, fate>>
    BY <1>10 DEF Move, Silence, vars
  <2> QED
    BY <2>1, SafeKeeps
<1> QED
  BY <1>2, <1>3, <1>4, <1>5, <1>6, <1>7, <1>8, <1>9, <1>10 DEF Next, Handling

\* A frame for an address with a bucket of its own is never sent through a NULL
\* or freed entry (main.c:38, mac.c:79-81), whatever ages and is swept meanwhile.
THEOREM OwnBucketAlwaysSafe == ASSUME SwitchAssumption PROVE Spec => []OwnBucketSafe
<1>1. Init => IInv /\ Young /\ OwnBucketSafe
  <2>1. ASSUME Init PROVE Young /\ OwnBucketSafe
    BY <2>1 DEF Init, Young, OwnBucketSafe, Idle
  <2> QED
    BY <2>1, InitInv
<1>2. IInv /\ Young /\ OwnBucketSafe /\ [Next]_vars => IInv' /\ Young' /\ OwnBucketSafe'
  BY NextInv, SafeNext
<1> QED
  BY <1>1, <1>2, PTL DEF Spec

-----------------------------------------------------------------------------
(* The port a frame leaves by.                                              *)

\* The entry of a host that has stayed in its place has its port.
Right(t) == \A b \in Buckets : \A i \in DOMAIN t[b] :
              t[b][i].mac \notin moved => t[b][i].iface = at[t[b][i].mac]

\* So does a frame of such a host, and one to it once its port has been read.
InPlace ==
  rx.pc # "idle" =>
    /\ rx.src \notin moved => rx.in = at[rx.src]
    /\ rx.pc = "out" /\ rx.dst \in Stations \ moved => rx.iface = at[rx.dst]

Located == Right(table) /\ InPlace /\ Delivered

\* Table u has no address and no port that t does not have in the same bucket.
Drawn(t, u) ==
  \A b \in Buckets : \A i \in DOMAIN u[b] :
    \E j \in DOMAIN t[b] : u[b][i].mac = t[b][j].mac /\ u[b][i].iface = t[b][j].iface

\* Only an insertion adds one.
LEMMA DrawnVisited ==
  ASSUME table \in Tables, NEW m
  PROVE  Drawn(table, Visited(m))
<1>1. ASSUME NEW b \in Buckets, NEW i \in DOMAIN Visited(m)[b]
      PROVE  /\ i \in DOMAIN table[b]
             /\ Visited(m)[b][i].mac = table[b][i].mac /\ Visited(m)[b][i].iface = table[b][i].iface
  <2>1. /\ i \in DOMAIN table[b]
        /\ Visited(m)[b][i] = IF table[b][i].mac = m THEN [table[b][i] EXCEPT !.age = 0] ELSE table[b][i]
    BY <1>1 DEF Visited
  <2>2. table[b] \in Seq(Item)
    BY DEF Tables
  <2>3. table[b][i] \in Item
    BY <2>1, <2>2
  <2> QED
    BY <2>1, <2>3 DEF Item
<1> QED
  BY <1>1, Zenon DEF Drawn

LEMMA DrawnSecond ==
  ASSUME table \in Tables, Second
  PROVE  Drawn(table, table')
<1>1. ASSUME NEW b \in Buckets, NEW i \in DOMAIN table'[b]
      PROVE  /\ i \in DOMAIN table[b]
             /\ table'[b][i].mac = table[b][i].mac /\ table'[b][i].iface = table[b][i].iface
  <2>1. /\ i \in DOMAIN table[b]
        /\ table'[b][i] = [table[b][i] EXCEPT !.age = IF @ > Timeout THEN @ ELSE @ + 1]
    BY <1>1 DEF Second
  <2>2. table[b] \in Seq(Item)
    BY DEF Tables
  <2>3. table[b][i] \in Item
    BY <2>1, <2>2
  <2> QED
    BY <2>1, <2>3 DEF Item
<1> QED
  BY <1>1, Zenon DEF Drawn

LEMMA DrawnSweep ==
  ASSUME Sweep
  PROVE  Drawn(table, table')
<1>1. \A b \in Buckets : table'[b] = <<>> \/ table'[b] = table[b]
  BY DEF Sweep, Kept
<1>2. ASSUME NEW b \in Buckets, NEW i \in DOMAIN table'[b] PROVE table'[b] = table[b]
  BY <1>1, <1>2
<1> QED
  BY <1>2 DEF Drawn

\* What is drawn from entries with the right ports has the right ports.
LEMMA DrawnRight ==
  ASSUME NEW u, Right(table), Drawn(table, u), UNCHANGED <<at, moved>>
  PROVE  \A b \in Buckets : \A i \in DOMAIN u[b] :
           u[b][i].mac \notin moved' => u[b][i].iface = at'[u[b][i].mac]
  BY DEF Right, Drawn

\* insert_mac_port of a frame that has come by the port of its host.
LEMMA InsertRight ==
  ASSUME SwitchAssumption, table \in Tables, Right(table), NEW m \in Stations, NEW p \in Ports,
         m \notin moved => p = at[m], table' = Inserted(m, p), UNCHANGED <<at, moved>>
  PROVE  Right(table)'
<1> DEFINE c == [mac |-> m, iface |-> p, age |-> 0]
<1>1. c \in Item /\ c.mac = m /\ c.iface = p
  BY DEF Item, SwitchAssumption
<1>2. Hash[m] \in Buckets
  BY DEF SwitchAssumption
<1>3. table' = [table EXCEPT ![Hash[m]] = Append(@, c)]
  BY DEF Inserted
<1> HIDE DEF c
<1>4. table[Hash[m]] \in Seq(Item)
  BY <1>2 DEF Tables
<1>5. table'[Hash[m]] = Append(table[Hash[m]], c) /\ \A b \in Buckets : b # Hash[m] => table'[b] = table[b]
  BY <1>2, <1>3 DEF Tables
<1>6. \A i \in DOMAIN table'[Hash[m]] :
        \/ i \in DOMAIN table[Hash[m]] /\ table'[Hash[m]][i] = table[Hash[m]][i]
        \/ table'[Hash[m]][i] = c
  BY <1>1, <1>4, <1>5
<1>7. ASSUME NEW b \in Buckets, NEW i \in DOMAIN table'[b], table'[b][i].mac \notin moved
      PROVE  table'[b][i].iface = at[table'[b][i].mac]
  <2>1. CASE b # Hash[m]
    BY <1>5, <1>7, <2>1 DEF Right
  <2>2. CASE b = Hash[m]
    BY <1>1, <1>2, <1>6, <1>7, <2>2 DEF Right
  <2> QED
    BY <2>1, <2>2
<1> QED
  BY <1>7 DEF Right

\* The port lookup_port returns for a host that has stayed in its place.
LEMMA EntryRight ==
  ASSUME Right(table), NEW m, m \notin moved, NEW e \in EntryOf(m)
  PROVE  e.iface = at[m]
<1>1. PICK b \in Buckets : e \in ToSet(table[b])
  BY DEF EntryOf
<1>2. PICK i \in DOMAIN table[b] : e = table[b][i]
  BY <1>1 DEF ToSet
<1> QED
  BY <1>2 DEF EntryOf, Right

LEMMA LocatedNext ==
  ASSUME SwitchAssumption, IInv, Located, [Next]_vars
  PROVE  Located'
<1>1. table \in Tables /\ RxOK /\ at \in [Stations -> Ports] /\ moved \subseteq Stations
  BY TypeParts DEF IInv
<1>2. CASE \E s \in Stations, d \in Targets : Receive(s, d)
  <2>1. PICK s \in Stations, d \in Targets : Receive(s, d)
    BY <1>2
  <2>2. /\ table' = Visited(d) /\ UNCHANGED <<at, moved>>
        /\ rx'.src = s /\ rx'.dst = d /\ rx'.in = at[s] /\ rx'.pc \in {"learn", "send", "flood"}
        /\ rx'.pc = "learn" => d = Ignored
    BY <2>1 DEF Receive, Env
  <2>3. Right(table)'
    BY <1>1, <2>2, DrawnVisited, DrawnRight DEF Located, Right
  <2>4. d = Ignored => d \notin Stations
    BY DEF SwitchAssumption
  <2> QED
    BY <2>2, <2>3, <2>4 DEF Located, InPlace, Delivered
<1>3. CASE Flood
  <2>1. rx.pc = "flood" /\ rx' = [rx EXCEPT !.pc = "learn", !.wire = Ports \ {rx.in}] /\ UNCHANGED <<table, at, moved>>
    BY <1>3 DEF Flood, Running, Flooded, Env
  <2>2. rx \in Frame
    BY <1>1, <2>1, InHand
  <2>3. /\ rx'.pc = "learn" /\ rx'.wire = Ports \ {rx.in} /\ rx'.src = rx.src /\ rx'.in = rx.in /\ rx'.dst = rx.dst
    BY <2>1, <2>2 DEF Frame
  <2>4. rx.dst \in Stations => at[rx.dst] \in Ports
    BY <1>1
  <2> QED
    BY <2>1, <2>3, <2>4 DEF Located, InPlace, Delivered, Right
<1>4. CASE LookUpAgain
  <2>1. rx.pc = "send" /\ table' = Visited(rx.dst) /\ UNCHANGED <<at, moved>>
    BY <1>4 DEF LookUpAgain, Running, Env
  <2>2. rx \in Frame
    BY <1>1, <2>1, InHand
  <2>3. Right(table)'
    BY <1>1, <2>1, DrawnVisited, DrawnRight DEF Located, Right
  <2>4. CASE Known(rx.dst)
    <3>1. PICK e \in EntryOf(rx.dst) : rx' = [rx EXCEPT !.pc = "out", !.iface = e.iface]
      BY <1>4, <2>4 DEF LookUpAgain
    <3>2. rx'.pc = "out" /\ rx'.iface = e.iface /\ rx'.src = rx.src /\ rx'.in = rx.in /\ rx'.dst = rx.dst
      BY <2>2, <3>1 DEF Frame
    <3>3. rx.dst \notin moved => e.iface = at[rx.dst]
      BY EntryRight DEF Located
    <3> QED
      BY <2>1, <2>3, <3>2, <3>3 DEF Located, InPlace, Delivered
  <2>5. CASE ~ Known(rx.dst)
    <3>1. rx' = rx
      BY <1>4, <2>5 DEF LookUpAgain
    <3> QED
      BY <2>1, <2>3, <3>1 DEF Located, InPlace, Delivered
  <2> QED
    BY <2>4, <2>5
<1>5. CASE Emit
  <2>1. /\ rx.pc = "out" /\ UNCHANGED <<table, at, moved>>
        /\ IF rx.freed THEN rx' = [rx EXCEPT !.pc = "learn"]
                       ELSE rx' = [rx EXCEPT !.pc = "learn", !.wire = {rx.iface}]
    BY <1>5 DEF Emit, Running, Env
  <2>2. rx \in Frame
    BY <1>1, <2>1, InHand
  <2>3. /\ rx'.pc = "learn" /\ rx'.src = rx.src /\ rx'.in = rx.in /\ rx'.dst = rx.dst /\ rx'.freed = rx.freed
        /\ ~ rx.freed => rx'.wire = {rx.iface}
    BY <2>1, <2>2 DEF Frame
  <2>4. Right(table)' /\ InPlace'
    BY <2>1, <2>3 DEF Located, Right, InPlace
  <2>5. Delivered'
    BY <2>1, <2>3 DEF Located, InPlace, Delivered
  <2> QED
    BY <2>4, <2>5 DEF Located
<1>6. CASE Learn
  <2>1. /\ rx.pc = "learn" /\ table' = Visited(rx.src) /\ UNCHANGED <<at, moved>>
        /\ rx' = [rx EXCEPT !.pc = "insert"] \/ rx' = Idle
    BY <1>6 DEF Learn, Running, Env
  <2>2. rx \in Frame
    BY <1>1, <2>1, InHand
  <2>3. Right(table)'
    BY <1>1, <2>1, DrawnVisited, DrawnRight DEF Located, Right
  <2>4. CASE rx' = [rx EXCEPT !.pc = "insert"]
    <3>1. /\ rx'.pc = "insert" /\ rx'.src = rx.src /\ rx'.in = rx.in /\ rx'.dst = rx.dst /\ rx'.freed = rx.freed
          /\ rx'.wire = rx.wire
      BY <2>2, <2>4 DEF Frame
    <3> QED
      BY <2>1, <2>3, <3>1 DEF Located, InPlace, Delivered
  <2>5. CASE rx' = Idle
    BY <2>3, <2>5 DEF Idle, Located, InPlace, Delivered
  <2> QED
    BY <2>1, <2>4, <2>5
<1>7. CASE Insert
  <2>1. rx.pc = "insert" /\ table' = Inserted(rx.src, rx.in) /\ UNCHANGED <<at, moved>> /\ rx'.pc = "idle"
    BY <1>7 DEF Insert, Running, Env, Idle
  <2>2. rx \in Frame
    BY <1>1, <2>1, InHand
  <2>3. rx.src \in Stations /\ rx.in \in Ports /\ (rx.src \notin moved => rx.in = at[rx.src])
    BY <2>1, <2>2 DEF Frame, Located, InPlace
  <2>4. Right(table)'
    BY <1>1, <2>1, <2>3, InsertRight DEF Located
  <2> QED
    BY <2>1, <2>4 DEF Located, InPlace, Delivered
<1>8. CASE Sweep
  <2>1. UNCHANGED <<at, moved>>
    BY <1>8 DEF Sweep, Env
  <2>2. Right(table)'
    BY <1>8, <2>1, DrawnSweep, DrawnRight DEF Located, Right
  <2>3. CASE rx' = rx
    BY <2>1, <2>2, <2>3 DEF Located, InPlace, Delivered
  <2>4. CASE rx.pc = "out" /\ rx' = [rx EXCEPT !.freed = TRUE]
    <3>1. rx \in Frame
      BY <1>1, <2>4, InHand
    <3>2. rx'.pc = "out" /\ rx'.src = rx.src /\ rx'.in = rx.in /\ rx'.dst = rx.dst /\ rx'.iface = rx.iface
      BY <2>4, <3>1 DEF Frame
    <3> QED
      BY <2>1, <2>2, <2>4, <3>2 DEF Located, InPlace, Delivered
  <2>5. rx' = rx \/ rx' = [rx EXCEPT !.freed = TRUE]
    BY <1>8 DEF Sweep
  <2>6. rx.pc # "out" => rx' = rx
    BY <1>8 DEF Sweep
  <2> QED
    BY <2>3, <2>4, <2>5, <2>6
<1>9. CASE Second
  <2>1. UNCHANGED <<rx, at, moved>>
    BY <1>9 DEF Second, Env
  <2>2. Right(table)'
    BY <1>1, <1>9, <2>1, DrawnSecond, DrawnRight DEF Located, Right
  <2> QED
    BY <2>1, <2>2 DEF Located, InPlace, Delivered
<1>10. CASE \E m \in Stations, p \in Ports : Move(m, p)
  <2>1. PICK m \in Stations, p \in Ports : Move(m, p)
    BY <1>10
  <2>2. moved' = moved \cup {m} /\ UNCHANGED <<table, rx>> /\ \A n \in Stations \ {m} : at'[n] = at[n]
    BY <1>1, <2>1 DEF Move
  <2>3. Right(table)'
    <3>1. ASSUME NEW b \in Buckets, NEW i \in DOMAIN table[b] PROVE table[b][i].mac \in Stations
      <4>1. table[b] \in Seq(Item)
        BY <1>1 DEF Tables
      <4>2. table[b][i] \in Item
        BY <4>1
      <4> QED
        BY <4>2 DEF Item
    <3> QED
      BY <2>2, <3>1 DEF Located, Right
  <2>4. rx.pc # "idle" => rx.src \in Stations
    BY <1>1, InHand DEF Frame
  <2>5. InPlace'
    BY <2>2, <2>4 DEF Located, InPlace
  <2>6. Delivered'
    BY <2>2 DEF Located, Delivered
  <2> QED
    BY <2>3, <2>5, <2>6 DEF Located
<1>11. CASE Silence \/ UNCHANGED vars
  BY <1>11 DEF Silence, vars, Located, Right, InPlace, Delivered
<1> QED
  BY <1>2, <1>3, <1>4, <1>5, <1>6, <1>7, <1>8, <1>9, <1>10, <1>11 DEF Next, Handling

\* A frame to a host that has not moved leaves by that host's port, or has come by
\* it (main.c:33-47), whatever is learned, swept and moved around it.
THEOREM AlwaysDelivered == ASSUME SwitchAssumption PROVE Spec => []Delivered
<1>1. Init => IInv /\ Located
  <2>1. ASSUME Init PROVE Located
    BY <2>1 DEF Init, Idle, Located, Right, InPlace, Delivered
  <2> QED
    BY <2>1, InitInv
<1>2. IInv /\ Located /\ [Next]_vars => IInv' /\ Located'
  BY NextInv, LocatedNext
<1>3. Located => Delivered
  BY DEF Located
<1> QED
  BY <1>1, <1>2, <1>3, PTL DEF Spec
=============================================================================
