---------------------------- MODULE Nat_proofs ----------------------------
(***************************************************************************)
(* What Nat promises, for every set of flows and ports, every hash and     *)
(* every timeout.                                                          *)
(*                                                                         *)
(* Two relations between tables carry the proofs.  A packet, and a second, *)
(* leave a table in which every copy is still there (Refreshed); a pass    *)
(* leaves the copies that have not expired (Young), and of every port that *)
(* stays assigned all copies (Keeps), because it gives back the port of    *)
(* whatever it drops.  The pass is a recursive function over the ports, so *)
(* what it leaves is shown by induction over how far it has come (Partly). *)
(***************************************************************************)
EXTENDS Nat, DataInduction, FiniteSetTheorems

-----------------------------------------------------------------------------
(* The copies.                                                              *)

Mapping == [flow : Flows, ext : PortSet, age : 0 .. Timeout + 1, internal_fin : 0 .. 255, external_fin : 0 .. 255]
Chains == [Buckets -> Seq(Mapping)]

Same(c, d) == d.flow = c.flow /\ d.ext = c.ext

\* Every copy of t is in u, with the same time or a later one ...
Refreshed(t, u) ==
  \A b \in Buckets : \A c \in ToSet(t[b]) : \E d \in ToSet(u[b]) : Same(c, d) /\ d.age <= c.age

\* ... or the copies of assigned ports are ...
Keeps(t, u, a) ==
  \A b \in Buckets : \A c \in ToSet(t[b]) : c.ext \in a => \E d \in ToSet(u[b]) : Same(c, d)

\* ... and those that have not expired.
Young(t, u) ==
  \A b \in Buckets : \A c \in ToSet(t[b]) : ~ Expired(c) => \E d \in ToSet(u[b]) : Same(c, d) /\ d.age <= c.age

\* An assigned port has a copy in its bucket, and one in the bucket of its flow.
Covered(t, a) ==
  \A p \in a : /\ \E c \in ToSet(t[PortHash[p]]) : c.ext = p
               /\ \E f \in Flows : \E c \in ToSet(t[FlowHash[f]]) : c.flow = f /\ c.ext = p

\* So the ports that are left are covered as they were.
LEMMA KeepsCovered ==
  ASSUME NatAssumption, NEW t, NEW u, NEW a, NEW e \in SUBSET a, a \subseteq PortSet, Covered(t, a), Keeps(t, u, e)
  PROVE  Covered(u, e)
<1> SUFFICES ASSUME NEW p \in e
             PROVE  /\ \E c \in ToSet(u[PortHash[p]]) : c.ext = p
                    /\ \E f \in Flows : \E c \in ToSet(u[FlowHash[f]]) : c.flow = f /\ c.ext = p
  BY DEF Covered
<1>1. PICK c \in ToSet(t[PortHash[p]]) : c.ext = p
  BY DEF Covered
<1>2. PICK f \in Flows : \E d \in ToSet(t[FlowHash[f]]) : d.flow = f /\ d.ext = p
  BY DEF Covered
<1>3. PICK d \in ToSet(t[FlowHash[f]]) : d.flow = f /\ d.ext = p
  BY <1>2
<1>4. PortHash[p] \in Buckets /\ FlowHash[f] \in Buckets
  BY DEF NatAssumption
<1>5. PICK g \in ToSet(u[PortHash[p]]) : Same(c, g)
  BY <1>1, <1>4 DEF Keeps
<1>6. PICK h \in ToSet(u[FlowHash[f]]) : Same(d, h)
  BY <1>3, <1>4 DEF Keeps
<1> QED
  BY <1>1, <1>3, <1>5, <1>6 DEF Same

\* A table that is only refreshed keeps everything.
LEMMA RefreshedKeeps ==
  ASSUME NEW t, NEW u, NEW a, Refreshed(t, u)
  PROVE  Keeps(t, u, a) /\ Young(t, u)
  BY DEF Refreshed, Keeps, Young

-----------------------------------------------------------------------------
(* The pass.                                                                *)

\* What is left of a chain.
LEMMA FreshHas ==
  ASSUME NatAssumption, NEW s \in Seq(Mapping)
  PROVE  /\ Fresh(s) \in Seq(Mapping)
         /\ \A c : c \in ToSet(Fresh(s)) <=> c \in ToSet(s) /\ ~ Expired(c)
<1> DEFINE t == [i \in DOMAIN s |-> IF Expired(s[i]) THEN <<>> ELSE <<s[i]>>]
<1>1. PICK n \in Nat : DOMAIN s = 1 .. n /\ s \in [1 .. n -> Mapping]
  OBVIOUS
<1>2. ASSUME NEW i \in 1 .. n
      PROVE  t[i] \in Seq(Mapping) /\ \A c : c \in ToSet(t[i]) <=> c = s[i] /\ ~ Expired(c)
  <2>1. s[i] \in Mapping
    BY <1>1
  <2>2. CASE Expired(s[i])
    <3>1. t[i] = <<>>
      BY <1>1, <2>2
    <3> HIDE DEF t
    <3>2. <<>> \in Seq(Mapping) /\ \A c : c \notin ToSet(<<>>)
      BY DEF ToSet
    <3> QED
      BY <2>2, <3>1, <3>2
  <2>3. CASE ~ Expired(s[i])
    <3>1. t[i] = <<s[i]>>
      BY <1>1, <2>3
    <3> HIDE DEF t
    <3>2. <<s[i]>> \in Seq(Mapping) /\ DOMAIN <<s[i]>> = {1} /\ <<s[i]>>[1] = s[i]
      BY <2>1, Single
    <3>3. \A c : c \in ToSet(<<s[i]>>) <=> c = s[i]
      BY <3>2 DEF ToSet
    <3> QED
      BY <2>3, <3>1, <3>2, <3>3
  <2> QED
    BY <2>2, <2>3
<1>3. t \in Seq(Seq(Mapping)) /\ DOMAIN t = 1 .. n
  <2>1. t \in [1 .. n -> Seq(Mapping)]
    BY <1>1, <1>2
  <2>2. DOMAIN t = 1 .. n
    BY <1>1
  <2> QED
    BY <2>1, <2>2
<1>4. Fresh(s) = FlattenSeq(t)
  BY DEF Fresh
<1> HIDE DEF t
<1>5. \A c : c \in ToSet(FlattenSeq(t)) <=> \E k \in DOMAIN t : c \in ToSet(t[k])
  BY <1>3, FlattenHas
<1>6. \A c : c \in ToSet(s) <=> \E k \in 1 .. n : c = s[k]
  BY <1>1 DEF ToSet
<1>7. FlattenSeq(t) \in Seq(Mapping)
  BY <1>3, FlattenType
<1>8. \A c : c \in ToSet(FlattenSeq(t)) <=> c \in ToSet(s) /\ ~ Expired(c)
  <2> SUFFICES ASSUME NEW c PROVE c \in ToSet(FlattenSeq(t)) <=> c \in ToSet(s) /\ ~ Expired(c)
    OBVIOUS
  <2>1. c \in ToSet(FlattenSeq(t)) <=> \E k \in 1 .. n : c \in ToSet(t[k])
    BY <1>3, <1>5
  <2>2. \A k \in 1 .. n : c \in ToSet(t[k]) <=> c = s[k] /\ ~ Expired(c)
    BY <1>2
  <2>3. c \in ToSet(s) <=> \E k \in 1 .. n : c = s[k]
    BY <1>6
  <2> QED
    BY <2>1, <2>2, <2>3
<1> QED
  BY <1>4, <1>7, <1>8

\* A chain in which nothing has expired is left as it is.
LEMMA FreshSame ==
  ASSUME NatAssumption, NEW s \in Seq(Mapping), \A i \in DOMAIN s : ~ Expired(s[i])
  PROVE  Fresh(s) = s
<1>1. [i \in DOMAIN s |-> IF Expired(s[i]) THEN <<>> ELSE <<s[i]>>] = [i \in DOMAIN s |-> <<s[i]>>]
  OBVIOUS
<1>2. FlattenSeq([i \in DOMAIN s |-> <<s[i]>>]) = s
  BY FlattenOnes
<1> QED
  BY <1>1, <1>2 DEF Fresh

\* The function by which Passed is defined, up to n ...
Passes(f, m) ==
  f = [n \in 0 .. m |-> IF n = 0 THEN [table |-> table, assigned |-> assigned] ELSE Swept(f[n - 1], Ports[n])]

\* ... exists ...
LEMMA Passing ==
  ASSUME NEW n \in Nat
  PROVE  \E f : Passes(f, n)
<1> DEFINE S == {m \in Nat : \E f : Passes(f, m)}
           Z == [table |-> table, assigned |-> assigned]
<1>1. 0 \in S
  <2> DEFINE g == [i \in 0 .. 0 |-> Z]
  <2>1. g = [i \in 0 .. 0 |-> IF i = 0 THEN Z ELSE Swept(g[i - 1], Ports[i])]
    OBVIOUS
  <2> HIDE DEF g
  <2>2. Passes(g, 0)
    BY <2>1 DEF Passes
  <2> QED
    BY <2>2
<1>2. ASSUME NEW m \in S PROVE m + 1 \in S
  <2>1. PICK f : Passes(f, m)
    OBVIOUS
  <2>2. \A i \in 0 .. m : f[i] = IF i = 0 THEN Z ELSE Swept(f[i - 1], Ports[i])
    BY <2>1 DEF Passes
  <2> DEFINE g == [i \in 0 .. m + 1 |-> IF i <= m THEN f[i] ELSE Swept(f[i - 1], Ports[i])]
  <2> HIDE DEF Z
  <2>3. \A i \in 0 .. m + 1 : g[i] = IF i = 0 THEN Z ELSE Swept(g[i - 1], Ports[i])
    BY <2>2
  <2>4. g = [i \in 0 .. m + 1 |-> g[i]]
    OBVIOUS
  <2> HIDE DEF g
  <2>5. Passes(g, m + 1)
    BY <2>3, <2>4 DEF Passes, Z
  <2> QED
    BY <2>5
<1>3. S = Nat
  <2> HIDE DEF S
  <2>1. S \in SUBSET Nat
    BY DEF S
  <2> QED
    BY <1>1, <1>2, <2>1, NatSet
<1> QED
  BY <1>3

\* ... so the pass goes on from port to port.
LEMMA PassedAt ==
  ASSUME NatAssumption, NEW m \in Nat, m = Len(Ports)
  PROVE  /\ Passed[0] = [table |-> table, assigned |-> assigned]
         /\ \A n \in 0 .. m : n # 0 => Passed[n] = Swept(Passed[n - 1], Ports[n])
<1>1. \E f : Passes(f, m)
  BY Passing
<1>2. Passes(Passed, m)
  BY <1>1 DEF Passes, Passed
<1> DEFINE g == Passed
<1>3. g = [n \in 0 .. m |-> IF n = 0 THEN [table |-> table, assigned |-> assigned] ELSE Swept(g[n - 1], Ports[n])]
  BY <1>2 DEF Passes
<1> HIDE DEF g
<1>4. \A n \in 0 .. m : g[n] = IF n = 0 THEN [table |-> table, assigned |-> assigned] ELSE Swept(g[n - 1], Ports[n])
  BY <1>3
<1>5. g[0] = [table |-> table, assigned |-> assigned]
  BY <1>4
<1>6. \A n \in 0 .. m : n # 0 => g[n] = Swept(g[n - 1], Ports[n])
  BY <1>4
<1> QED
  BY <1>5, <1>6 DEF g

\* What a copy is.
LEMMA CopyType ==
  ASSUME NEW t \in Chains, NEW b \in Buckets, NEW c \in ToSet(t[b])
  PROVE  /\ c \in Mapping /\ c.flow \in Flows /\ c.ext \in PortSet /\ c.age \in 0 .. Timeout + 1 /\ c.age \in Nat
         /\ \E i \in DOMAIN t[b] : c = t[b][i]
<1>1. t[b] \in Seq(Mapping)
  BY DEF Chains
<1>2. PICK i \in DOMAIN t[b] : c = t[b][i]
  BY DEF ToSet
<1>3. c \in Mapping
  BY <1>1, <1>2
<1> QED
  BY <1>2, <1>3 DEF Mapping

\* What is true of the table and the ports all through the pass.
Partly(st) ==
  /\ st.table \in Chains
  /\ st.assigned \in SUBSET assigned
  /\ Keeps(table, st.table, st.assigned)
  /\ Young(table, st.table)

\* The pass at one port.
LEMMA SweptPartly ==
  ASSUME NatAssumption, table \in Chains, NEW st, Partly(st), NEW p \in PortSet
  PROVE  Partly(Swept(st, p))
<1>1. CASE p \notin st.assigned
  BY <1>1 DEF Swept
<1>2. CASE p \in st.assigned
  <2> DEFINE b == PortHash[p]
             u == [st.table EXCEPT ![b] = Fresh(st.table[b])]
             a == st.assigned \ {c.ext : c \in {c \in ToSet(st.table[b]) : Expired(c)}}
  <2>1. Swept(st, p).table = u /\ Swept(st, p).assigned = a
    BY <1>2 DEF Swept
  <2>2. b \in Buckets /\ st.table \in Chains /\ st.table[b] \in Seq(Mapping)
    BY DEF NatAssumption, Partly, Chains
  <2>3. /\ Fresh(st.table[b]) \in Seq(Mapping)
        /\ \A c : c \in ToSet(Fresh(st.table[b])) <=> c \in ToSet(st.table[b]) /\ ~ Expired(c)
    BY <2>2, FreshHas
  <2>4. u \in Chains /\ u[b] = Fresh(st.table[b]) /\ \A d \in Buckets : d # b => u[d] = st.table[d]
    BY <2>2, <2>3 DEF Chains
  <2>5. a \in SUBSET st.assigned /\ \A c \in ToSet(st.table[b]) : Expired(c) => c.ext \notin a
    OBVIOUS
  <2> HIDE DEF u, a, b
  <2>6. Keeps(table, u, a)
    <3> SUFFICES ASSUME NEW d \in Buckets, NEW c \in ToSet(table[d]), c.ext \in a
                 PROVE  \E e \in ToSet(u[d]) : Same(c, e)
      BY DEF Keeps
    <3>1. PICK e \in ToSet(st.table[d]) : Same(c, e)
      BY <2>5 DEF Partly, Keeps
    <3>2. d = b => ~ Expired(e)
      BY <2>5, <3>1 DEF Same
    <3>3. e \in ToSet(u[d])
      BY <2>3, <2>4, <3>2
    <3> QED
      BY <3>1, <3>3
  <2>7. Young(table, u)
    <3> SUFFICES ASSUME NEW d \in Buckets, NEW c \in ToSet(table[d]), ~ Expired(c)
                 PROVE  \E e \in ToSet(u[d]) : Same(c, e) /\ e.age <= c.age
      BY DEF Young
    <3>1. PICK e \in ToSet(st.table[d]) : Same(c, e) /\ e.age <= c.age
      BY DEF Partly, Young
    <3>2. c.age \in Nat /\ e.age \in Nat
      BY <2>2, CopyType
    <3>3. ~ Expired(e)
      BY <3>1, <3>2 DEF Expired, NatAssumption
    <3>4. e \in ToSet(u[d])
      BY <2>3, <2>4, <3>3
    <3> QED
      BY <3>1, <3>4
  <2>8. a \in SUBSET assigned
    BY <2>5 DEF Partly
  <2> QED
    BY <2>1, <2>4, <2>6, <2>7, <2>8 DEF Partly
<1> QED
  BY <1>1, <1>2

\* The pass.
LEMMA PassPartly ==
  ASSUME NatAssumption, table \in Chains, NEW m \in Nat, m = Len(Ports)
  PROVE  Partly(Passed[m])
<1> DEFINE S == {n \in Nat : n <= m => Partly(Passed[n])}
<1>1. 0 \in S
  <2>0. Passed[0] = [table |-> table, assigned |-> assigned]
    BY PassedAt
  <2>1. Passed[0].table = table /\ Passed[0].assigned = assigned
    BY <2>0
  <2>2. Keeps(table, table, assigned) /\ Young(table, table)
    <3>1. Refreshed(table, table)
      <4> SUFFICES ASSUME NEW b \in Buckets, NEW c \in ToSet(table[b])
                   PROVE  Same(c, c) /\ c.age <= c.age
        BY DEF Refreshed
      <4>1. c.age \in Nat
        BY CopyType
      <4> QED
        BY <4>1 DEF Same
    <3> QED
      BY <3>1, RefreshedKeeps
  <2> QED
    BY <2>1, <2>2 DEF Partly
<1>2. ASSUME NEW n \in S PROVE n + 1 \in S
  <2>1. n \in Nat /\ (n <= m => Partly(Passed[n]))
    OBVIOUS
  <2> HIDE DEF S
  <2>2. ASSUME n + 1 <= m PROVE Partly(Passed[n + 1])
    <3>1. n + 1 \in 0 .. m /\ n + 1 # 0 /\ (n + 1) - 1 = n /\ n <= m /\ n + 1 \in 1 .. m
      BY <2>1, <2>2
    <3>2. Passed[n + 1] = Swept(Passed[n], Ports[n + 1])
      BY <3>1, PassedAt
    <3>3. Ports[n + 1] \in PortSet
      BY <3>1 DEF PortSet, ToSet, NatAssumption
    <3> QED
      BY <2>1, <3>1, <3>2, <3>3, SweptPartly
  <2> QED
    BY <2>1, <2>2 DEF S
<1>3. S = Nat
  <2> HIDE DEF S
  <2>1. S \in SUBSET Nat
    BY DEF S
  <2> QED
    BY <1>1, <1>2, <2>1, NatSet
<1>4. m \in S
  <2> HIDE DEF S
  <2> QED
    BY <1>3
<1> QED
  BY <1>4

\* If nothing has expired, the pass does nothing.
LEMMA PassNothing ==
  ASSUME NatAssumption, table \in Chains, NEW m \in Nat, m = Len(Ports),
         \A b \in Buckets : \A c \in ToSet(table[b]) : ~ Expired(c)
  PROVE  Passed[m].table = table /\ Passed[m].assigned = assigned
<1> DEFINE Z == [table |-> table, assigned |-> assigned]
           S == {n \in Nat : n <= m => Passed[n] = Z}
<1>1. 0 \in S
  BY PassedAt
<1>2. ASSUME NEW n \in S PROVE n + 1 \in S
  <2>1. n \in Nat /\ (n <= m => Passed[n] = Z)
    OBVIOUS
  <2> HIDE DEF S
  <2>2. ASSUME n + 1 <= m PROVE Passed[n + 1] = Z
    <3>1. n + 1 \in 0 .. m /\ n + 1 # 0 /\ (n + 1) - 1 = n /\ n <= m /\ n + 1 \in 1 .. m
      BY <2>1, <2>2
    <3>2. Passed[n + 1] = Swept(Z, Ports[n + 1])
      BY <2>1, <3>1, PassedAt
    <3>3. PICK p \in PortSet : p = Ports[n + 1]
      BY <3>1 DEF PortSet, ToSet, NatAssumption
    <3>4. PortHash[p] \in Buckets
      BY DEF NatAssumption
    <3>5. table[PortHash[p]] \in Seq(Mapping) /\ \A i \in DOMAIN table[PortHash[p]] : ~ Expired(table[PortHash[p]][i])
      BY <3>4 DEF Chains, ToSet
    <3>6. Fresh(table[PortHash[p]]) = table[PortHash[p]]
      BY <3>5, FreshSame
    <3>7. [table EXCEPT ![PortHash[p]] = Fresh(table[PortHash[p]])] = table
      BY <3>6 DEF Chains
    <3>8. assigned \ {c.ext : c \in {c \in ToSet(table[PortHash[p]]) : Expired(c)}} = assigned
      BY <3>4
    <3>9. Swept(Z, p) = Z
      <4>1. Z.table = table /\ Z.assigned = assigned
        OBVIOUS
      <4>2. CASE p \in assigned
        <5>1. Swept(Z, p) = [table |-> [Z.table EXCEPT ![PortHash[p]] = Fresh(Z.table[PortHash[p]])],
                             assigned |-> Z.assigned \ {c.ext : c \in {c \in ToSet(Z.table[PortHash[p]]) : Expired(c)}}]
          BY <4>1, <4>2 DEF Swept
        <5> QED
          BY <3>7, <3>8, <4>1, <5>1
      <4>3. CASE p \notin assigned
        BY <4>1, <4>3 DEF Swept
      <4> QED
        BY <4>2, <4>3
    <3> QED
      BY <3>2, <3>3, <3>9
  <2> QED
    BY <2>1, <2>2 DEF S
<1>3. S = Nat
  <2> HIDE DEF S
  <2>1. S \in SUBSET Nat
    BY DEF S
  <2> QED
    BY <1>1, <1>2, <2>1, NatSet
<1>4. m \in S
  <2> HIDE DEF S
  <2> QED
    BY <1>3
<1> QED
  BY <1>4

-----------------------------------------------------------------------------
(* A packet is translated.                                                  *)

\* A new time of a copy ...
LEMMA Timed ==
  ASSUME NEW c \in Mapping, NEW x \in 0 .. Timeout + 1, NEW d, d = [c EXCEPT !.age = x]
  PROVE  d \in Mapping /\ Same(c, d) /\ d.age = x
  BY DEF Mapping, Same

\* ... or new flags leave it a copy of the same flow and port.
LEMMA Flagged ==
  ASSUME NEW c \in Mapping, NEW d, d = c \/ d = [c EXCEPT !.internal_fin = 1] \/ d = [c EXCEPT !.external_fin = 1]
  PROVE  d \in Mapping /\ Same(c, d) /\ d.age = c.age
<1>1. 1 \in 0 .. 255
  OBVIOUS
<1>2. CASE d = c
  BY <1>2 DEF Same
<1>3. CASE d = [c EXCEPT !.internal_fin = 1]
  BY <1>1, <1>3 DEF Mapping, Same
<1>4. CASE d = [c EXCEPT !.external_fin = 1]
  BY <1>1, <1>4 DEF Mapping, Same
<1> QED
  BY <1>2, <1>3, <1>4

\* The copy a packet has been translated by is of the same flow and port.
LEMMA TouchedType ==
  ASSUME NatAssumption, NEW c \in Mapping, NEW way, NEW flags
  PROVE  Touched(c, way, flags) \in Mapping /\ Same(c, Touched(c, way, flags)) /\ Touched(c, way, flags).age = 0
<1> DEFINE d == [c EXCEPT !.age = 0]
           e == Touched(c, way, flags)
<1>0. 0 \in 0 .. Timeout + 1
  BY DEF NatAssumption
<1>1. d \in Mapping /\ Same(c, d) /\ d.age = 0
  BY <1>0, Timed
<1>2. e = d \/ e = [d EXCEPT !.internal_fin = 1] \/ e = [d EXCEPT !.external_fin = 1]
  BY DEF Touched
<1> HIDE DEF d, e
<1>3. e \in Mapping /\ Same(d, e) /\ e.age = d.age
  BY <1>1, <1>2, Flagged
<1>4. e \in Mapping /\ Same(c, e) /\ e.age = 0
  BY <1>1, <1>3 DEF Same
<1> QED
  BY <1>4 DEF e

\* u is the table t in which d has taken the place of a copy in bucket b.
Replaced(t, u, b, d) ==
  /\ u \in Chains /\ Refreshed(t, u)
  /\ \A x \in Buckets : \A c \in ToSet(u[x]) : c \in ToSet(t[x]) \/ (x = b /\ c = d)

\* The copy a packet has been translated by is put back.
LEMMA Touching ==
  ASSUME NEW t \in Chains, NEW b \in Buckets, NEW i \in DOMAIN t[b], NEW d \in Mapping, Same(t[b][i], d), d.age = 0
  PROVE  Replaced(t, [t EXCEPT ![b][i] = d], b, d)
<1> DEFINE u == [t EXCEPT ![b][i] = d]
<1>1. t[b] \in Seq(Mapping)
  BY DEF Chains
<1>2. PICK n \in Nat : DOMAIN t[b] = 1 .. n /\ t[b] \in [1 .. n -> Mapping]
  BY <1>1
<1>3. u[b] = [t[b] EXCEPT ![i] = d] /\ \A x \in Buckets : x # b => u[x] = t[x]
  BY DEF Chains
<1>4. DOMAIN u[b] = 1 .. n /\ u[b] \in Seq(Mapping) /\ u[b][i] = d /\ \A j \in 1 .. n : j # i => u[b][j] = t[b][j]
  <2>1. [t[b] EXCEPT ![i] = d] \in [1 .. n -> Mapping]
    BY <1>2
  <2> QED
    BY <1>2, <1>3, <2>1
<1>5. u \in Chains
  <2>1. u = [x \in Buckets |-> IF x = b THEN [t[b] EXCEPT ![i] = d] ELSE t[x]]
    BY DEF Chains
  <2>2. \A x \in Buckets : u[x] \in Seq(Mapping)
    BY <1>3, <1>4 DEF Chains
  <2>3. u = [x \in Buckets |-> u[x]]
    BY <2>1
  <2> HIDE DEF u
  <2> QED
    BY <2>2, <2>3 DEF Chains
<1> HIDE DEF u
<1>6. Refreshed(t, u)
  <2> SUFFICES ASSUME NEW x \in Buckets, NEW c \in ToSet(t[x])
               PROVE  \E e \in ToSet(u[x]) : Same(c, e) /\ e.age <= c.age
    BY DEF Refreshed
  <2>1. c.age \in Nat
    BY CopyType
  <2>2. CASE x = b /\ c = t[b][i]
    <3>1. u[b][i] \in ToSet(u[b])
      BY <1>2, <1>4 DEF ToSet
    <3> QED
      BY <1>4, <2>1, <2>2, <3>1
  <2>3. CASE ~ (x = b /\ c = t[b][i])
    <3>1. PICK j \in DOMAIN t[x] : c = t[x][j]
      BY DEF ToSet
    <3>2. c \in ToSet(u[x])
      BY <1>2, <1>3, <1>4, <2>3, <3>1 DEF ToSet
    <3> QED
      BY <2>1, <3>2 DEF Same
  <2> QED
    BY <2>2, <2>3
<1>7. ASSUME NEW x \in Buckets, NEW c \in ToSet(u[x]) PROVE c \in ToSet(t[x]) \/ (x = b /\ c = d)
  <2>1. PICK j \in DOMAIN u[x] : c = u[x][j]
    BY DEF ToSet
  <2> QED
    BY <1>2, <1>3, <1>4, <2>1 DEF ToSet
<1> QED
  BY <1>5, <1>6, <1>7 DEF Replaced, u

\* The copy is removed, and its port given back.
LEMMA Removing ==
  ASSUME NEW t \in Chains, NEW a, NEW b \in Buckets, NEW i \in DOMAIN t[b]
  PROVE  /\ [t EXCEPT ![b] = RemoveAt(t[b], i)] \in Chains
         /\ Keeps(t, [t EXCEPT ![b] = RemoveAt(t[b], i)], a \ {t[b][i].ext})
<1> DEFINE u == [t EXCEPT ![b] = RemoveAt(t[b], i)]
           e == a \ {t[b][i].ext}
<1>1. t[b] \in Seq(Mapping)
  BY DEF Chains
<1>2. PICK n \in Nat : n = Len(t[b]) /\ DOMAIN t[b] = 1 .. n
  BY <1>1
<1>3. RemoveAt(t[b], i) \in Seq(Mapping) /\ LeftOut(RemoveAt(t[b], i), t[b], i, n)
  BY <1>1, <1>2, Removed
<1>4. u \in Chains /\ u[b] = RemoveAt(t[b], i) /\ \A x \in Buckets : x # b => u[x] = t[x]
  BY <1>3 DEF Chains
<1>5. t[b][i].ext \notin e
  OBVIOUS
<1> HIDE DEF u, e
<1>6. Keeps(t, u, e)
  <2> SUFFICES ASSUME NEW x \in Buckets, NEW c \in ToSet(t[x]), c.ext \in e
               PROVE  c \in ToSet(u[x])
    BY DEF Keeps, Same
  <2>1. PICK j \in DOMAIN t[x] : c = t[x][j]
    BY DEF ToSet
  <2>2. CASE x # b
    BY <1>4, <2>2
  <2>3. CASE x = b
    <3>1. j \in 1 .. n /\ j # i /\ i \in 1 .. n
      BY <1>2, <1>5, <2>1, <2>3
    <3>2. PICK k \in 1 .. n - 1 : IF k < i THEN k = j ELSE k + 1 = j
      <4>1. CASE j < i
        <5>1. j \in 1 .. n - 1
          BY <3>1, <4>1
        <5> QED
          BY <4>1, <5>1
      <4>2. CASE ~ (j < i)
        <5>1. j - 1 \in 1 .. n - 1 /\ ~ (j - 1 < i) /\ (j - 1) + 1 = j
          BY <3>1, <4>2
        <5> QED
          BY <5>1
      <4> QED
        BY <4>1, <4>2
    <3>3. u[b][k] = c /\ k \in DOMAIN u[b]
      BY <1>3, <1>4, <2>1, <2>3, <3>2 DEF LeftOut
    <3> QED
      BY <2>3, <3>3 DEF ToSet
  <2> QED
    BY <2>2, <2>3
<1> QED
  BY <1>4, <1>6 DEF u, e

\* u has the copies of t, and c and d.
Extends(t, u, f, p, c, d) ==
  \A x \in Buckets : \A e : e \in ToSet(u[x]) <=>
    e \in ToSet(t[x]) \/ (x = FlowHash[f] /\ e = c) \/ (x = PortHash[p] /\ e = d)

\* u is the list s with g.
OneMore(s, u, g) == \A e : e \in ToSet(u) <=> e \in ToSet(s) \/ e = g

\* What Append adds to a list.
LEMMA AppendHas ==
  ASSUME NEW D, NEW s \in Seq(D), NEW g \in D
  PROVE  Append(s, g) \in Seq(D) /\ OneMore(s, Append(s, g), g)
<1>1. PICK n \in Nat : n = Len(s) /\ DOMAIN s = 1 .. n
  OBVIOUS
<1>2. PICK u \in Seq(D) : u = Append(s, g) /\ DOMAIN u = 1 .. n + 1 /\ u[n + 1] = g
  <2>1. Append(s, g) \in Seq(D)
    OBVIOUS
  <2>2. DOMAIN Append(s, g) = 1 .. n + 1 /\ Append(s, g)[n + 1] = g
    BY <1>1
  <2> QED
    BY <2>1, <2>2
<1>3. \A j \in 1 .. n : u[j] = s[j]
  BY <1>1, <1>2
<1>4. \A e : e \in ToSet(s) <=> \E j \in 1 .. n : e = s[j]
  BY <1>1 DEF ToSet
<1>5. \A e : e \in ToSet(u) <=> \E j \in 1 .. n + 1 : e = u[j]
  BY <1>2 DEF ToSet
<1>6. ASSUME NEW e, e \in ToSet(u) PROVE e \in ToSet(s) \/ e = g
  <2>1. PICK j \in 1 .. n + 1 : e = u[j]
    BY <1>5, <1>6
  <2>2. j \in 1 .. n \/ j = n + 1
    OBVIOUS
  <2> QED
    BY <1>2, <1>3, <1>4, <2>1, <2>2
<1>7. ASSUME NEW e, e \in ToSet(s) PROVE e \in ToSet(u)
  <2>1. PICK j \in 1 .. n : e = s[j]
    BY <1>4, <1>7
  <2>2. j \in 1 .. n + 1 /\ u[j] = e
    BY <1>3, <2>1
  <2> QED
    BY <1>5, <2>2
<1>8. g \in ToSet(u)
  <2>1. n + 1 \in 1 .. n + 1
    OBVIOUS
  <2> QED
    BY <1>2, <1>5, <2>1
<1>9. OneMore(s, u, g)
  BY <1>6, <1>7, <1>8 DEF OneMore
<1> QED
  BY <1>2, <1>9

\* Two copies are added.
LEMMA Adding ==
  ASSUME NatAssumption, NEW t \in Chains, NEW f \in Flows, NEW p \in PortSet, NEW c \in Mapping, NEW d \in Mapping
  PROVE  Added(t, f, p, c, d) \in Chains /\ Extends(t, Added(t, f, p, c, d), f, p, c, d)
<1> DEFINE u == [t EXCEPT ![FlowHash[f]] = Append(t[FlowHash[f]], c)]
           v == [u EXCEPT ![PortHash[p]] = Append(u[PortHash[p]], d)]
<1>1. FlowHash[f] \in Buckets /\ PortHash[p] \in Buckets
  BY DEF NatAssumption
<1>2. ASSUME NEW s \in Seq(Mapping), NEW g \in Mapping
      PROVE  Append(s, g) \in Seq(Mapping) /\ \A e : e \in ToSet(Append(s, g)) <=> e \in ToSet(s) \/ e = g
  BY AppendHas DEF OneMore
<1>3. t[FlowHash[f]] \in Seq(Mapping)
  BY <1>1 DEF Chains
<1>4. u \in Chains /\ u[FlowHash[f]] = Append(t[FlowHash[f]], c) /\ \A x \in Buckets : x # FlowHash[f] => u[x] = t[x]
  BY <1>1, <1>2, <1>3 DEF Chains
<1> HIDE DEF u
<1>5. u[PortHash[p]] \in Seq(Mapping)
  BY <1>1, <1>4 DEF Chains
<1>6. v \in Chains /\ v[PortHash[p]] = Append(u[PortHash[p]], d) /\ \A x \in Buckets : x # PortHash[p] => v[x] = u[x]
  BY <1>1, <1>2, <1>4, <1>5 DEF Chains
<1>7. Added(t, f, p, c, d) = v
  BY DEF Added, u
<1> HIDE DEF v
<1>8. \A x \in Buckets : \A e : e \in ToSet(u[x]) <=> e \in ToSet(t[x]) \/ (x = FlowHash[f] /\ e = c)
  <2> SUFFICES ASSUME NEW x \in Buckets PROVE \A e : e \in ToSet(u[x]) <=> e \in ToSet(t[x]) \/ (x = FlowHash[f] /\ e = c)
    OBVIOUS
  <2>1. CASE x = FlowHash[f]
    <3>1. u[x] = Append(t[x], c) /\ t[x] \in Seq(Mapping)
      BY <1>3, <1>4, <2>1
    <3> QED
      BY <1>2, <2>1, <3>1
  <2>2. CASE x # FlowHash[f]
    BY <1>2, <1>3, <1>4, <2>2
  <2> QED
    BY <2>1, <2>2
<1>9. \A x \in Buckets : \A e : e \in ToSet(v[x]) <=> e \in ToSet(u[x]) \/ (x = PortHash[p] /\ e = d)
  <2> SUFFICES ASSUME NEW x \in Buckets PROVE \A e : e \in ToSet(v[x]) <=> e \in ToSet(u[x]) \/ (x = PortHash[p] /\ e = d)
    OBVIOUS
  <2>1. CASE x = PortHash[p]
    <3>1. v[x] = Append(u[x], d) /\ u[x] \in Seq(Mapping)
      BY <1>5, <1>6, <2>1
    <3> QED
      BY <1>2, <2>1, <3>1
  <2>2. CASE x # PortHash[p]
    BY <1>2, <1>5, <1>6, <2>2
  <2> QED
    BY <2>1, <2>2
<1>10. \A x \in Buckets : \A e : e \in ToSet(v[x]) <=> e \in ToSet(t[x]) \/ (x = FlowHash[f] /\ e = c) \/ (x = PortHash[p] /\ e = d)
  <2> SUFFICES ASSUME NEW x \in Buckets, NEW e
               PROVE  e \in ToSet(v[x]) <=> e \in ToSet(t[x]) \/ (x = FlowHash[f] /\ e = c) \/ (x = PortHash[p] /\ e = d)
    OBVIOUS
  <2>1. e \in ToSet(u[x]) <=> e \in ToSet(t[x]) \/ (x = FlowHash[f] /\ e = c)
    BY <1>8
  <2>2. e \in ToSet(v[x]) <=> e \in ToSet(u[x]) \/ (x = PortHash[p] /\ e = d)
    BY <1>9
  <2> QED
    BY <2>1, <2>2
<1> QED
  BY <1>6, <1>7, <1>10, Zenon DEF Extends

\* What do_translation does with no copy, ...
Dropped(t, a, hits) == fate' = "runs" /\ hits = {} /\ table' = t /\ assigned' = a
\* ... with one that stays, ...
Stays(t, a, b, hits, way, flags, i) ==
  /\ fate' = "runs" /\ hits = {i} /\ i \in DOMAIN t[b]
  /\ table' = [t EXCEPT ![b][i] = Touched(t[b][i], way, flags)] /\ assigned' = a
\* ... and with one of a connection that is over.
Leaves(t, a, b, hits, flags, i) ==
  /\ fate' = "runs" /\ flags = "rst" /\ hits = {i} /\ i \in DOMAIN t[b]
  /\ table' = [t EXCEPT ![b] = RemoveAt(t[b], i)] /\ assigned' = a \ {t[b][i].ext}

\* There is no other case: a second copy ends the process.
LEMMA Translates ==
  ASSUME NatAssumption, NEW t \in Chains, NEW a, NEW b \in Buckets, NEW hits \in SUBSET DOMAIN t[b],
         NEW way, NEW flags, Translate(t, a, b, hits, way, flags)
  PROVE  \/ Abort
         \/ Dropped(t, a, hits)
         \/ \E i : Stays(t, a, b, hits, way, flags, i)
         \/ \E i : Leaves(t, a, b, hits, flags, i)
<1>1. PICK n \in Nat : DOMAIN t[b] = 1 .. n
  BY DEF Chains
<1>2. IsFiniteSet(hits) /\ Cardinality(hits) \in Nat
  <2>1. IsFiniteSet(1 .. n)
    BY FS_Interval
  <2> QED
    BY <1>1, <2>1, FS_Subset, FS_CardinalityType
<1>3. CASE Cardinality(hits) > 1
  BY <1>3 DEF Translate
<1>4. CASE hits = {}
  <2>1. Cardinality(hits) = 0
    BY <1>4, FS_EmptySet
  <2> QED
    BY <1>4, <2>1 DEF Translate, Dropped
<1>5. CASE ~ (Cardinality(hits) > 1) /\ hits # {}
  <2>1. Cardinality(hits) = 1
    BY <1>2, <1>5, FS_EmptySet
  <2>2. PICK k : hits = {k}
    BY <1>2, <2>1, FS_Singleton
  <2>3. (CHOOSE i \in hits : TRUE) = k
    BY <2>2
  <2>4. PICK c \in Mapping : c = t[b][k]
    BY <2>2 DEF Chains
  <2>5. Touched(c, way, flags).ext = c.ext
    BY TouchedType DEF Same
  <2>6. /\ fate' = "runs"
        /\ IF Finished(Touched(c, way, flags), flags)
           THEN table' = [t EXCEPT ![b] = RemoveAt(t[b], k)] /\ assigned' = a \ {Touched(c, way, flags).ext}
           ELSE table' = [t EXCEPT ![b][k] = Touched(c, way, flags)] /\ assigned' = a
    BY <1>5, <2>2, <2>3, <2>4 DEF Translate
  <2>7. CASE Finished(Touched(c, way, flags), flags)
    <3>1. Leaves(t, a, b, hits, flags, k)
      BY <2>2, <2>4, <2>5, <2>6, <2>7 DEF Leaves, Finished
    <3> QED
      BY <3>1
  <2>8. CASE ~ Finished(Touched(c, way, flags), flags)
    <3>1. Stays(t, a, b, hits, way, flags, k)
      BY <2>2, <2>4, <2>6, <2>8 DEF Stays
    <3> QED
      BY <3>1
  <2> QED
    BY <2>7, <2>8
<1> QED
  BY <1>3, <1>4, <1>5

\* The table after a step: it is one, and covers the ports.
Fine(t, a) == t \in Chains /\ a \in SUBSET PortSet /\ Covered(t, a)

\* So the table and the ports after a packet.
LEMMA TranslateFine ==
  ASSUME NatAssumption, NEW t, NEW a, Fine(t, a), NEW b \in Buckets, NEW hits \in SUBSET DOMAIN t[b],
         NEW way, NEW flags, Translate(t, a, b, hits, way, flags)
  PROVE  /\ Fine(table', assigned')
         /\ fate' \in {"runs", "aborted"}
         /\ fate' = "runs" /\ flags # "rst" => Refreshed(t, table')
<1>0. t \in Chains /\ a \in SUBSET PortSet /\ Covered(t, a)
  BY DEF Fine
<1>1. CASE Abort
  BY <1>1 DEF Abort, Fine, Empty, Chains, Covered
<1>2. CASE Dropped(t, a, hits)
  <2>1. Refreshed(t, t)
    <3> SUFFICES ASSUME NEW d \in Buckets, NEW c \in ToSet(t[d])
                 PROVE  Same(c, c) /\ c.age <= c.age
      BY DEF Refreshed
    <3>1. c.age \in Nat
      BY <1>0, CopyType
    <3> QED
      BY <3>1 DEF Same
  <2> QED
    BY <1>2, <2>1 DEF Dropped, Fine
<1>3. ASSUME NEW i, Stays(t, a, b, hits, way, flags, i)
      PROVE  Fine(table', assigned') /\ Refreshed(t, table')
  <2>1. i \in DOMAIN t[b]
    BY <1>3 DEF Stays
  <2>2. PICK c \in Mapping : c = t[b][i]
    BY <1>0, <2>1 DEF Chains
  <2>3. PICK d \in Mapping : d = Touched(c, way, flags) /\ Same(c, d) /\ d.age = 0
    BY TouchedType
  <2>4. Replaced(t, [t EXCEPT ![b][i] = d], b, d)
    BY <1>0, <2>1, <2>2, <2>3, Touching
  <2>5. table' = [t EXCEPT ![b][i] = d] /\ assigned' = a
    BY <1>3, <2>2, <2>3 DEF Stays
  <2>6. table' \in Chains /\ Refreshed(t, table')
    BY <2>4, <2>5 DEF Replaced
  <2>7. Keeps(t, table', a)
    BY <2>6, RefreshedKeeps
  <2>8. Covered(table', a)
    BY <1>0, <2>7, KeepsCovered
  <2> QED
    BY <1>0, <2>5, <2>6, <2>8 DEF Fine
<1>4. ASSUME NEW i, Leaves(t, a, b, hits, flags, i)
      PROVE  Fine(table', assigned')
  <2>1. i \in DOMAIN t[b] /\ table' = [t EXCEPT ![b] = RemoveAt(t[b], i)] /\ assigned' = a \ {t[b][i].ext}
    BY <1>4 DEF Leaves
  <2>2. table' \in Chains /\ Keeps(t, table', assigned')
    BY <1>0, <2>1, Removing
  <2>3. assigned' \in SUBSET a
    BY <2>1
  <2>4. Covered(table', assigned')
    BY <1>0, <2>2, <2>3, KeepsCovered
  <2> QED
    BY <1>0, <2>2, <2>3, <2>4 DEF Fine
<1>5. (\E i : Leaves(t, a, b, hits, flags, i)) => flags = "rst"
  BY DEF Leaves
<1>6. Abort \/ Dropped(t, a, hits) \/ (\E i : Stays(t, a, b, hits, way, flags, i)) \/ (\E i : Leaves(t, a, b, hits, flags, i))
  BY <1>0, Translates
<1>7. /\ Abort => fate' = "aborted"
      /\ Dropped(t, a, hits) => fate' = "runs"
      /\ \A i : Stays(t, a, b, hits, way, flags, i) => fate' = "runs"
      /\ \A i : Leaves(t, a, b, hits, flags, i) => fate' = "runs"
  BY DEF Abort, Dropped, Stays, Leaves
<1>8. CASE \E i : Stays(t, a, b, hits, way, flags, i)
  BY <1>3, <1>7, <1>8
<1>9. CASE \E i : Leaves(t, a, b, hits, flags, i)
  BY <1>4, <1>5, <1>7, <1>9
<1> QED
  BY <1>1, <1>2, <1>6, <1>7, <1>8, <1>9

-----------------------------------------------------------------------------
(* The type invariant, and the ports that are assigned.                     *)

Inv == TypeOK /\ Covered(table, assigned)

\* TypeOK, without the table and the ports.
Rest == /\ fate \in {"runs", "spins", "aborted"}
        /\ quiet \in BOOLEAN /\ watch \in {"both", "out", "none"}
        /\ port \in [Flows -> PortSet \cup {NoPort}]
        /\ silent \in [Flows -> [Ways -> 0 .. Timeout + 1]]

\* The invariant in two parts ...
LEMMA InvIs == Inv <=> Fine(table, assigned) /\ Rest
  BY DEF Inv, TypeOK, Fine, Rest, Chains, Mapping

\* A time that has just been set.
LEMMA Zero == ASSUME NatAssumption PROVE 0 \in 0 .. Timeout + 1
  BY DEF NatAssumption

\* What is seen after the observer has looked away, ...
LEMMA UnwatchedType ==
  ASSUME NatAssumption, Rest, Unwatched, UNCHANGED quiet \/ quiet' = TRUE, fate' \in {"runs", "spins", "aborted"}
  PROVE  Rest'
<1>1. 0 \in 0 .. Timeout + 1
  BY Zero
<1>2. port' \in [Flows -> PortSet \cup {NoPort}] /\ silent' \in [Flows -> [Ways -> 0 .. Timeout + 1]]
  BY <1>1 DEF Unwatched, Heard
<1>3. watch' \in {"both", "out", "none"} /\ quiet' \in BOOLEAN
  BY DEF Unwatched, Rest
<1> QED
  BY <1>2, <1>3 DEF Rest

\* ... and after a packet.
LEMMA ObserveType ==
  ASSUME NatAssumption, Rest, NEW fs, NEW p \in PortSet, NEW ways, NEW flags, Observe(fs, p, ways, flags),
         fate' \in {"runs", "aborted"}
  PROVE  Rest'
<1>1. CASE Unwatched
  BY <1>1, UnwatchedType DEF Observe
<1>2. CASE ~ Unwatched
  <2>1. /\ port' = [f \in Flows |-> IF f \in fs THEN p ELSE port[f]]
        /\ silent' = [f \in Flows |-> [w \in Ways |-> IF f \in fs /\ w \in ways THEN 0 ELSE silent[f][w]]]
        /\ UNCHANGED watch /\ UNCHANGED quiet
    BY <1>2 DEF Observe
  <2> QED
    BY <2>1, Zero DEF Rest
<1> QED
  BY <1>1, <1>2

\* Ages are bounded.
LEMMA OlderType ==
  ASSUME NatAssumption, NEW n \in 0 .. Timeout + 1
  PROVE  Older(n) \in 0 .. Timeout + 1
  BY DEF Older, NatAssumption

\* A function on 1 .. n is a list.
LEMMA ListOn ==
  ASSUME NEW D, NEW n \in Nat, NEW s \in [1 .. n -> D]
  PROVE  s \in Seq(D)
  OBVIOUS

\* u is the table t, ...
Later(t) == [b \in Buckets |-> [i \in DOMAIN t[b] |-> [t[b][i] EXCEPT !.age = Older(t[b][i].age)]]]

\* ... the same copies in the same places, ...
Aged(t, u) ==
  \A b \in Buckets :
    /\ DOMAIN u[b] = DOMAIN t[b]
    /\ \A i \in DOMAIN t[b] : Same(t[b][i], u[b][i]) /\ u[b][i].age = Older(t[b][i].age)

\* ... a second later.
LEMMA Aging ==
  ASSUME NatAssumption, NEW t \in Chains, NEW u, u = Later(t)
  PROVE  u \in Chains /\ Aged(t, u)
<1>0. u = [b \in Buckets |-> [i \in DOMAIN t[b] |-> [t[b][i] EXCEPT !.age = Older(t[b][i].age)]]]
  BY DEF Later
<1>1. ASSUME NEW b \in Buckets, NEW i \in DOMAIN t[b]
      PROVE  u[b][i] \in Mapping /\ Same(t[b][i], u[b][i]) /\ u[b][i].age = Older(t[b][i].age)
  <2>1. PICK c \in Mapping : c = t[b][i]
    BY DEF Chains
  <2>2. Older(c.age) \in 0 .. Timeout + 1
    BY OlderType DEF Mapping
  <2>3. u[b][i] = [c EXCEPT !.age = Older(c.age)]
    BY <1>0, <2>1
  <2> QED
    BY <2>1, <2>2, <2>3, Timed
<1>2. ASSUME NEW b \in Buckets
      PROVE  u[b] \in Seq(Mapping) /\ DOMAIN u[b] = DOMAIN t[b]
  <2>1. PICK n \in Nat : DOMAIN t[b] = 1 .. n
    BY DEF Chains
  <2>2. u[b] = [i \in 1 .. n |-> u[b][i]] /\ DOMAIN u[b] = DOMAIN t[b]
    BY <1>0, <2>1
  <2>3. \A i \in 1 .. n : u[b][i] \in Mapping
    BY <1>1, <2>1
  <2>4. u[b] \in [1 .. n -> Mapping]
    BY <2>2, <2>3
  <2>5. u[b] \in Seq(Mapping)
    BY <2>4, ListOn
  <2> QED
    BY <2>2, <2>5
<1>3. u \in Chains
  <2>1. u = [b \in Buckets |-> u[b]]
    BY <1>0
  <2> QED
    BY <1>2, <2>1 DEF Chains
<1>4. \A b \in Buckets : DOMAIN u[b] = DOMAIN t[b]
  BY <1>2
<1>5. \A b \in Buckets : \A i \in DOMAIN t[b] : Same(t[b][i], u[b][i]) /\ u[b][i].age = Older(t[b][i].age)
  BY <1>1
<1> QED
  BY <1>3, <1>4, <1>5 DEF Aged

\* A copy of a new mapping.
LEMMA CopyIs ==
  ASSUME NatAssumption, NEW f \in Flows, NEW p \in PortSet, NEW fins \in (0 .. 255) \X (0 .. 255)
  PROVE  Copy(f, p, fins) \in Mapping /\ Copy(f, p, fins).flow = f /\ Copy(f, p, fins).ext = p /\ Copy(f, p, fins).age = 0
<1>1. fins[1] \in 0 .. 255 /\ fins[2] \in 0 .. 255
  OBVIOUS
<1> QED
  BY <1>1, Zero DEF Copy, Mapping

\* The table with a new mapping, and the ports with its port.
LEMMA AddedFine ==
  ASSUME NatAssumption, Fine(table, assigned), NEW f \in Flows, NEW p \in PortSet, NEW c \in Mapping, NEW d \in Mapping,
         c.flow = f, d.flow = f, c.ext = p, d.ext = p
  PROVE  Fine(Added(table, f, p, c, d), assigned \cup {p}) /\ Refreshed(table, Added(table, f, p, c, d))
<1>1. table \in Chains /\ assigned \in SUBSET PortSet /\ Covered(table, assigned)
  BY DEF Fine
<1> DEFINE t == Added(table, f, p, c, d)
<1>2. t \in Chains /\ Extends(table, t, f, p, c, d)
  BY <1>1, Adding
<1> HIDE DEF t
<1>3. Refreshed(table, t)
  <2> SUFFICES ASSUME NEW x \in Buckets, NEW e \in ToSet(table[x])
               PROVE  e \in ToSet(t[x]) /\ Same(e, e) /\ e.age <= e.age
    BY DEF Refreshed
  <2>1. e.age \in Nat
    BY <1>1, CopyType
  <2> QED
    BY <1>2, <2>1 DEF Same, Extends
<1>4. Keeps(table, t, assigned)
  BY <1>3, RefreshedKeeps
<1>5. Covered(t, assigned)
  BY <1>1, <1>4, KeepsCovered
<1>6. FlowHash[f] \in Buckets /\ PortHash[p] \in Buckets
  BY DEF NatAssumption
<1>7. c \in ToSet(t[FlowHash[f]]) /\ d \in ToSet(t[PortHash[p]])
  BY <1>2, <1>6 DEF Extends
<1>8. Covered(t, assigned \cup {p})
  BY <1>5, <1>7 DEF Covered
<1> QED
  BY <1>1, <1>2, <1>3, <1>8 DEF t, Fine

\* ... also after a step.
LEMMA InvNext == Fine(table', assigned') /\ Rest' => Inv'
  BY DEF Inv, TypeOK, Fine, Rest, Chains, Mapping

\* The translator has just been started.
LEMMA InvInit ==
  ASSUME NatAssumption, Init
  PROVE  Inv
<1>1. Fine(table, assigned)
  BY DEF Init, Fine, Empty, Chains, Covered
<1>2. Rest
  <2>1. 0 \in 0 .. Timeout + 1
    BY Zero
  <2> QED
    BY <2>1 DEF Init, Rest, Heard
<1> QED
  BY <1>1, <1>2, InvIs

\* A packet of a flow that has a mapping: what it does to the table.
LEMMA OutTable ==
  ASSUME NatAssumption, Inv, NEW f \in Flows, NEW flags \in Flags, Out(f, flags)
  PROVE  \E b \in Buckets : \E hits \in SUBSET DOMAIN table[b] :
           /\ b = FlowHash[f] /\ hits = OfFlow(table[b], f)
           /\ Translate(table, assigned, b, hits, "out", flags)
           /\ \E i \in hits : table[b][i].ext \in PortSet /\ Observe({f}, table[b][i].ext, {"out"}, flags)
<1>1. PICK b \in Buckets : b = FlowHash[f]
  BY DEF NatAssumption
<1>2. PICK hits : hits = OfFlow(table[b], f)
  OBVIOUS
<1>3. hits \in SUBSET DOMAIN table[b]
  BY <1>2 DEF OfFlow
<1>4. /\ Translate(table, assigned, b, hits, "out", flags)
      /\ \E i \in hits : Observe({f}, table[b][i].ext, {"out"}, flags)
  BY <1>1, <1>2 DEF Out
<1>5. PICK i \in hits : Observe({f}, table[b][i].ext, {"out"}, flags)
  BY <1>4
<1>6. table \in Chains
  BY InvIs DEF Fine
<1>7. table[b][i] \in Mapping
  BY <1>3, <1>6 DEF Chains
<1>8. table[b][i].ext \in PortSet
  BY <1>7 DEF Mapping
<1> QED
  BY <1>1, <1>2, <1>3, <1>4, <1>5, <1>8

\* So the table after it is as it should be.
LEMMA OutInv ==
  ASSUME NatAssumption, Inv, NEW f \in Flows, NEW flags \in Flags, Out(f, flags)
  PROVE  Inv'
<1>1. PICK b \in Buckets : \E hits \in SUBSET DOMAIN table[b] :
           /\ b = FlowHash[f] /\ hits = OfFlow(table[b], f)
           /\ Translate(table, assigned, b, hits, "out", flags)
           /\ \E i \in hits : table[b][i].ext \in PortSet /\ Observe({f}, table[b][i].ext, {"out"}, flags)
  BY OutTable
<1>2. PICK hits \in SUBSET DOMAIN table[b] :
           /\ Translate(table, assigned, b, hits, "out", flags)
           /\ \E i \in hits : table[b][i].ext \in PortSet /\ Observe({f}, table[b][i].ext, {"out"}, flags)
  BY <1>1
<1>3. PICK i \in hits : table[b][i].ext \in PortSet /\ Observe({f}, table[b][i].ext, {"out"}, flags)
  BY <1>2
<1>4. Fine(table, assigned) /\ Rest
  BY InvIs
<1>5. Fine(table', assigned') /\ fate' \in {"runs", "aborted"}
  BY <1>2, <1>4, TranslateFine
<1>6. Rest'
  BY <1>3, <1>4, <1>5, ObserveType
<1> QED
  BY <1>5, <1>6, InvNext

\* A packet to a port that has a mapping.
LEMMA InInv ==
  ASSUME NatAssumption, Inv, NEW p \in PortSet, NEW flags \in Flags, In(p, flags)
  PROVE  Inv'
<1>1. PICK b \in Buckets : b = PortHash[p]
  BY DEF NatAssumption
<1>2. PICK hits : hits = OfPort(table[b], p)
  OBVIOUS
<1>3. hits \in SUBSET DOMAIN table[b]
  BY <1>2 DEF OfPort
<1>4. Translate(table, assigned, b, hits, "in", flags) /\ Observe({f \in Flows : port[f] = p}, p, {"in"}, flags)
  BY <1>1, <1>2 DEF In
<1>5. Fine(table, assigned) /\ Rest
  BY InvIs
<1>6. Fine(table', assigned') /\ fate' \in {"runs", "aborted"}
  BY <1>3, <1>4, <1>5, TranslateFine
<1>7. Rest'
  BY <1>4, <1>5, <1>6, ObserveType
<1> QED
  BY <1>6, <1>7, InvNext

\* What a new mapping of f to the port p does, c and d being its copies and t
\* the table with them.
Opened(f, flags, p, c, d, t) ==
  /\ p \notin assigned /\ OfFlow(table[FlowHash[f]], f) = {}
  /\ c.flow = f /\ d.flow = f /\ c.ext = p /\ d.ext = p /\ c.age = 0 /\ d.age = 0
  /\ t = Added(table, f, p, c, d)
  /\ Fine(t, assigned \cup {p}) /\ Refreshed(table, t)
  /\ Translate(t, assigned \cup {p}, FlowHash[f], OfFlow(t[FlowHash[f]], f), "out", flags)
  /\ Observe({f}, p, Ways, flags)

\* A packet of a flow without a mapping: what it does to the table.
LEMMA OpenTable ==
  ASSUME NatAssumption, Inv, NEW f \in Flows, NEW flags \in Flags, Open(f, flags)
  PROVE  \E p \in PortSet, c \in Mapping, d \in Mapping : \E t : Opened(f, flags, p, c, d, t)
<1>1. PICK p \in Free, m \in Garbage :
        /\ Translate(Added(table, f, p, Copy(f, p, m[1]), Copy(f, p, m[2])), assigned \cup {p}, FlowHash[f],
                     OfFlow(Added(table, f, p, Copy(f, p, m[1]), Copy(f, p, m[2]))[FlowHash[f]], f), "out", flags)
        /\ Observe({f}, p, Ways, flags)
  BY DEF Open
<1>2. p \in PortSet /\ p \notin assigned
  BY DEF Free
<1>3. m[1] \in (0 .. 255) \X (0 .. 255) /\ m[2] \in (0 .. 255) \X (0 .. 255)
  BY DEF NatAssumption
<1>0. /\ Copy(f, p, m[1]) \in Mapping /\ Copy(f, p, m[1]).flow = f /\ Copy(f, p, m[1]).ext = p /\ Copy(f, p, m[1]).age = 0
      /\ Copy(f, p, m[2]) \in Mapping /\ Copy(f, p, m[2]).flow = f /\ Copy(f, p, m[2]).ext = p /\ Copy(f, p, m[2]).age = 0
  <2> HIDE DEF Mapping
  <2>1. PICK x \in (0 .. 255) \X (0 .. 255), y \in (0 .. 255) \X (0 .. 255) : x = m[1] /\ y = m[2]
    BY <1>3
  <2>2. Copy(f, p, x) \in Mapping /\ Copy(f, p, x).flow = f /\ Copy(f, p, x).ext = p /\ Copy(f, p, x).age = 0
    BY <1>2, CopyIs
  <2>3. Copy(f, p, y) \in Mapping /\ Copy(f, p, y).flow = f /\ Copy(f, p, y).ext = p /\ Copy(f, p, y).age = 0
    BY <1>2, CopyIs
  <2> QED
    BY <2>1, <2>2, <2>3
<1>4. PICK c \in Mapping : c = Copy(f, p, m[1]) /\ c.flow = f /\ c.ext = p /\ c.age = 0
  BY <1>0
<1>5. PICK d \in Mapping : d = Copy(f, p, m[2]) /\ d.flow = f /\ d.ext = p /\ d.age = 0
  BY <1>0
<1>6. PICK t : t = Added(table, f, p, c, d)
  OBVIOUS
<1>7. Fine(t, assigned \cup {p}) /\ Refreshed(table, t)
  BY <1>2, <1>4, <1>5, <1>6, AddedFine, InvIs
<1>8. OfFlow(table[FlowHash[f]], f) = {}
  BY DEF Open
<1>9. /\ Translate(t, assigned \cup {p}, FlowHash[f], OfFlow(t[FlowHash[f]], f), "out", flags)
      /\ Observe({f}, p, Ways, flags)
  BY <1>1, <1>4, <1>5, <1>6
<1>10. Opened(f, flags, p, c, d, t)
  BY <1>2, <1>4, <1>5, <1>6, <1>7, <1>8, <1>9 DEF Opened
<1> QED
  BY <1>2, <1>10

\* So the table after it is as it should be.
LEMMA OpenInv ==
  ASSUME NatAssumption, Inv, NEW f \in Flows, NEW flags \in Flags, Open(f, flags)
  PROVE  Inv'
<1>1. PICK p \in PortSet, c \in Mapping, d \in Mapping : \E t : Opened(f, flags, p, c, d, t)
  BY OpenTable
<1>2. PICK t : Opened(f, flags, p, c, d, t)
  BY <1>1
<1>3. PICK b \in Buckets : b = FlowHash[f]
  BY DEF NatAssumption
<1>4. OfFlow(t[b], f) \in SUBSET DOMAIN t[b]
  BY DEF OfFlow
<1>5. Fine(t, assigned \cup {p}) /\ Translate(t, assigned \cup {p}, b, OfFlow(t[b], f), "out", flags)
  BY <1>2, <1>3 DEF Opened
<1>6. Fine(table', assigned') /\ fate' \in {"runs", "aborted"}
  BY <1>4, <1>5, TranslateFine
<1>7. Rest
  BY InvIs
<1>8. Rest'
  BY <1>2, <1>6, <1>7, ObserveType DEF Opened
<1> QED
  BY <1>6, <1>8, InvNext

\* A second.
LEMMA SecondInv ==
  ASSUME NatAssumption, Inv, Second
  PROVE  Inv'
<1>1. table \in Chains /\ assigned \in SUBSET PortSet /\ Covered(table, assigned) /\ Rest
  BY InvIs DEF Fine
<1>2. table' = Later(table)
  BY DEF Second, Later
<1>3. PICK u : u = table'
  OBVIOUS
<1>4. u \in Chains /\ Aged(table, u)
  BY <1>1, <1>2, <1>3, Aging
<1>5. Keeps(table, u, assigned)
  <2> SUFFICES ASSUME NEW b \in Buckets, NEW c \in ToSet(table[b])
               PROVE  \E d \in ToSet(u[b]) : Same(c, d)
    BY DEF Keeps
  <2>1. PICK i \in DOMAIN table[b] : c = table[b][i]
    BY DEF ToSet
  <2>2. u[b][i] \in ToSet(u[b]) /\ Same(c, u[b][i])
    BY <1>4, <2>1 DEF ToSet, Aged
  <2> QED
    BY <2>2
<1>6. Covered(u, assigned)
  BY <1>1, <1>5, KeepsCovered
<1>7. Fine(table', assigned')
  BY <1>1, <1>3, <1>4, <1>6 DEF Second, Fine
<1>8. Rest'
  <2>1. \A f \in Flows, w \in Ways : silent[f][w] \in 0 .. Timeout + 1 /\ Older(silent[f][w]) \in 0 .. Timeout + 1
    BY <1>1, OlderType DEF Rest
  <2>2. 0 \in 0 .. Timeout + 1
    BY Zero
  <2> DEFINE now == [f \in Flows |-> IF port[f] = NoPort THEN silent[f] ELSE [w \in Ways |-> Older(silent[f][w])]]
  <2>3. now \in [Flows -> [Ways -> 0 .. Timeout + 1]]
    BY <1>1, <2>1 DEF Rest
  <2>4. silent' = now \/ silent' = [f \in Flows |-> [now[f] EXCEPT !["in"] = 0]]
    BY DEF Second
  <2> HIDE DEF now
  <2>5. silent' \in [Flows -> [Ways -> 0 .. Timeout + 1]]
    <3>1. CASE silent' = now
      BY <2>3, <3>1
    <3>2. CASE silent' = [f \in Flows |-> [now[f] EXCEPT !["in"] = 0]]
      <4>1. \A f \in Flows : [now[f] EXCEPT !["in"] = 0] \in [Ways -> 0 .. Timeout + 1]
        BY <2>2, <2>3
      <4> QED
        BY <3>2, <4>1
    <3> QED
      BY <2>4, <3>1, <3>2
  <2>6. watch' \in {"both", "out", "none"}
    BY <1>1 DEF Second, Rest
  <2> QED
    BY <1>1, <2>5, <2>6 DEF Second, Rest
<1> QED
  BY <1>7, <1>8, InvNext

\* A pass.
LEMMA SweepInv ==
  ASSUME NatAssumption, Inv, Sweep
  PROVE  Inv' /\ Young(table, table')
<1>1. table \in Chains /\ assigned \in SUBSET PortSet /\ Covered(table, assigned) /\ Rest
  BY InvIs DEF Fine
<1>2. PICK m \in Nat : m = Len(Ports)
  BY DEF NatAssumption
<1>3. Partly(Passed[m])
  BY <1>1, <1>2, PassPartly
<1>4. table' = Passed[m].table /\ assigned' = Passed[m].assigned
  BY <1>2 DEF Sweep
<1>5. table' \in Chains /\ assigned' \in SUBSET assigned /\ Keeps(table, table', assigned') /\ Young(table, table')
  BY <1>3, <1>4 DEF Partly
<1>6. Covered(table', assigned')
  BY <1>1, <1>5, KeepsCovered
<1>7. Fine(table', assigned')
  BY <1>1, <1>5, <1>6 DEF Fine
<1>8. Rest'
  BY <1>1 DEF Sweep, Rest, seen
<1> QED
  BY <1>5, <1>7, <1>8, InvNext

\* Every step.
LEMMA NextInv ==
  ASSUME NatAssumption, Inv, [Next]_vars
  PROVE  Inv'
<1>1. Fine(table, assigned) /\ Rest
  BY InvIs
<1>2. CASE Unroutable
  <2>1. Fine(table', assigned') /\ fate' \in {"runs", "spins", "aborted"}
    BY <1>2 DEF Unroutable, Abort, Fine, Empty, Chains, Covered
  <2>2. Rest'
    BY <1>1, <1>2, <2>1, UnwatchedType DEF Unroutable
  <2> QED
    BY <2>1, <2>2, InvNext
<1>3. ASSUME NEW f \in Flows, NEW flags \in Flags, Out(f, flags) \/ Open(f, flags) PROVE Inv'
  BY <1>3, OutInv, OpenInv
<1>4. ASSUME NEW f \in Flows, OutOfPorts(f) PROVE Inv'
  <2>1. Fine(table', assigned') /\ Rest'
    BY <1>1, <1>4 DEF OutOfPorts, Rest, seen
  <2> QED
    BY <2>1, InvNext
<1>5. ASSUME NEW p \in PortSet, NEW flags \in Flags, In(p, flags) PROVE Inv'
  BY <1>5, InInv
<1>6. CASE Second
  BY <1>6, SecondInv
<1>7. CASE Sweep
  BY <1>7, SweepInv
<1>8. CASE Silence
  <2>1. fate' \in {"runs", "spins", "aborted"} /\ Fine(table', assigned')
    BY <1>1, <1>8 DEF Silence, code, Rest
  <2>2. Rest'
    BY <1>1, <1>8, <2>1, UnwatchedType DEF Silence
  <2> QED
    BY <2>1, <2>2, InvNext
<1>9. CASE UNCHANGED vars
  <2>1. Fine(table', assigned') /\ Rest'
    BY <1>1, <1>9 DEF vars, code, seen, Rest
  <2> QED
    BY <2>1, InvNext
<1> QED
  BY <1>2, <1>3, <1>4, <1>5, <1>6, <1>7, <1>8, <1>9 DEF Next

\* The invariant.
LEMMA InvAlways == ASSUME NatAssumption PROVE Spec => []Inv
<1>1. Init => Inv
  BY InvInit
<1>2. Inv /\ [Next]_vars => Inv'
  BY NextInv
<1> QED
  BY <1>1, <1>2, PTL DEF Spec

\* The table, the ports and what is seen of them are what they should be
\* (do_translation and nat_timeout).
THEOREM TypeCorrect == Spec => []TypeOK
<1>1. Spec => []Inv
  BY NatAssumption, InvAlways
<1>2. Inv => TypeOK
  BY DEF Inv
<1> QED
  BY <1>1, <1>2, PTL

\* No port is lost: the timeout finds every port that is assigned, in its own
\* bucket, and a flow finds it in its own.
THEOREM PortsAreCovered == Spec => []PortsCovered
<1>1. Spec => []Inv
  BY NatAssumption, InvAlways
<1>2. Inv => PortsCovered
  <2> SUFFICES ASSUME Inv, NEW p \in assigned
               PROVE  /\ OfPort(table[PortHash[p]], p) # {}
                      /\ \E f \in Flows : \E c \in ToSet(table[FlowHash[f]]) : c.flow = f /\ c.ext = p
    BY DEF PortsCovered
  <2>1. /\ \E c \in ToSet(table[PortHash[p]]) : c.ext = p
        /\ \E f \in Flows : \E c \in ToSet(table[FlowHash[f]]) : c.flow = f /\ c.ext = p
    BY DEF Inv, Covered
  <2>2. PICK i \in DOMAIN table[PortHash[p]] : table[PortHash[p]][i].ext = p
    BY <2>1 DEF ToSet
  <2> QED
    BY <2>1, <2>2 DEF OfPort
<1> QED
  BY <1>1, <1>2, PTL

-----------------------------------------------------------------------------
(* A host that goes on sending keeps its port.                              *)

\* The copy of a flow that has been heard of is as young as its last packet.
Kept ==
  \A f \in Flows : port[f] # NoPort /\ silent[f]["out"] <= Timeout =>
    \E c \in ToSet(table[FlowHash[f]]) : c.flow = f /\ c.ext = port[f] /\ c.age <= silent[f]["out"]

\* What Observe does to the sight of the observer.
Sees(fs, p, ways) ==
  /\ port' = [f \in Flows |-> IF f \in fs THEN p ELSE port[f]]
  /\ silent' = [f \in Flows |-> [w \in Ways |-> IF f \in fs /\ w \in ways THEN 0 ELSE silent[f][w]]]
  /\ UNCHANGED watch

\* It watches only what is translated, with no RST.
LEMMA ObserveCases ==
  ASSUME NEW fs, NEW p, NEW ways, NEW flags, Observe(fs, p, ways, flags)
  PROVE  Unwatched \/ (fate' = "runs" /\ flags # "rst" /\ watch # "none" /\ Sees(fs, p, ways))
  BY DEF Observe, Sees

\* Of what is not watched nothing is said.
LEMMA UnwatchedKept == Unwatched => Kept'
  BY DEF Unwatched, Kept

\* If nothing is lost by which others leave, they keep their ports.
LEMMA RefreshedKept ==
  ASSUME NatAssumption, Inv, Inv', Kept, NEW f \in Flows, Refreshed(table, table'), port'[f] = port[f],
         port[f] # NoPort, silent'[f]["out"] = silent[f]["out"], silent[f]["out"] <= Timeout
  PROVE  \E c \in ToSet(table'[FlowHash[f]]) : c.flow = f /\ c.ext = port'[f] /\ c.age <= silent'[f]["out"]
<1>1. PICK c \in ToSet(table[FlowHash[f]]) : c.flow = f /\ c.ext = port[f] /\ c.age <= silent[f]["out"]
  BY DEF Kept
<1>2. PICK b \in Buckets : b = FlowHash[f]
  BY DEF NatAssumption
<1>3. PICK d \in ToSet(table'[b]) : Same(c, d) /\ d.age <= c.age
  BY <1>1, <1>2 DEF Refreshed
<1>4. table \in Chains /\ table' \in Chains
  BY DEF Inv, TypeOK, Chains, Mapping
<1>5. c.age \in Nat /\ d.age \in Nat
  BY <1>1, <1>2, <1>3, <1>4, CopyType
<1>6. silent[f]["out"] \in Nat
  BY DEF Inv, TypeOK, NatAssumption, Ways
<1>7. d.age <= silent'[f]["out"]
  BY <1>1, <1>3, <1>5, <1>6
<1> QED
  BY <1>1, <1>2, <1>3, <1>7 DEF Same

\* The copy by which a packet has been translated is as new.
HitBy(t, b, i, d) == Same(t[b][i], d) /\ d.age = 0 /\ table' = [t EXCEPT ![b][i] = d]

\* It is the only one, and put back in its place.
LEMMA TranslateHit ==
  ASSUME NatAssumption, NEW t \in Chains, NEW a, NEW b \in Buckets, NEW hits \in SUBSET DOMAIN t[b], NEW way, NEW flags,
         Translate(t, a, b, hits, way, flags), fate' = "runs", flags # "rst", NEW i \in hits
  PROVE  hits = {i} /\ assigned' = a /\ \E d \in Mapping : HitBy(t, b, i, d)
<1>1. ~ Abort /\ ~ Dropped(t, a, hits) /\ \A k : ~ Leaves(t, a, b, hits, flags, k)
  BY DEF Abort, Dropped, Leaves
<1>2. PICK k : Stays(t, a, b, hits, way, flags, k)
  BY <1>1, Translates
<1>3. hits = {i} /\ table' = [t EXCEPT ![b][i] = Touched(t[b][i], way, flags)] /\ assigned' = a
  BY <1>2 DEF Stays
<1>4. PICK c \in Mapping : c = t[b][i]
  BY DEF Chains
<1>5. Touched(c, way, flags) \in Mapping /\ Same(c, Touched(c, way, flags)) /\ Touched(c, way, flags).age = 0
  BY TouchedType
<1>6. PICK d \in Mapping : d = Touched(c, way, flags) /\ Same(c, d) /\ d.age = 0
  BY <1>5
<1>7. hits = {i} /\ assigned' = a /\ HitBy(t, b, i, d)
  BY <1>3, <1>4, <1>6 DEF HitBy
<1> QED
  BY <1>7

\* A packet of a flow that has a mapping, ...
LEMMA OutKept ==
  ASSUME NatAssumption, Inv, Inv', Kept, NEW f \in Flows, NEW flags \in Flags, Out(f, flags)
  PROVE  Kept'
<1>1. PICK b \in Buckets : \E hits \in SUBSET DOMAIN table[b] :
           /\ b = FlowHash[f] /\ hits = OfFlow(table[b], f)
           /\ Translate(table, assigned, b, hits, "out", flags)
           /\ \E i \in hits : table[b][i].ext \in PortSet /\ Observe({f}, table[b][i].ext, {"out"}, flags)
  BY OutTable
<1>2. PICK hits \in SUBSET DOMAIN table[b] :
           /\ hits = OfFlow(table[b], f)
           /\ Translate(table, assigned, b, hits, "out", flags)
           /\ \E i \in hits : table[b][i].ext \in PortSet /\ Observe({f}, table[b][i].ext, {"out"}, flags)
  BY <1>1
<1>3. PICK i \in hits : table[b][i].ext \in PortSet /\ Observe({f}, table[b][i].ext, {"out"}, flags)
  BY <1>2
<1>4. table \in Chains /\ Fine(table, assigned)
  BY InvIs DEF Fine
<1>5. PICK c \in Mapping : c = table[b][i] /\ c.flow = f
  BY <1>2, <1>4 DEF Chains, OfFlow
<1>6. CASE Unwatched
  BY <1>6, UnwatchedKept
<1>7. CASE fate' = "runs" /\ flags # "rst" /\ Sees({f}, c.ext, {"out"})
  <2>1. Refreshed(table, table')
    BY <1>2, <1>4, <1>7, TranslateFine
  <2>2. PICK d \in Mapping : Same(c, d) /\ d.age = 0 /\ table' = [table EXCEPT ![b][i] = d]
    <3>0. fate' = "runs" /\ flags # "rst" /\ Translate(table, assigned, b, hits, "out", flags)
      BY <1>2, <1>7
    <3>1. \E d \in Mapping : HitBy(table, b, i, d)
      BY <1>4, <3>0, TranslateHit
    <3> QED
      BY <1>5, <3>1 DEF HitBy
  <2>3. d \in ToSet(table'[b])
    <3>1. table[b] \in Seq(Mapping)
      BY <1>4 DEF Chains
    <3>2. table'[b] = [table[b] EXCEPT ![i] = d]
      BY <1>4, <2>2 DEF Chains
    <3>3. i \in DOMAIN table'[b] /\ table'[b][i] = d
      BY <3>1, <3>2
    <3> QED
      BY <3>3 DEF ToSet
  <2>4. ASSUME NEW g \in Flows, port'[g] # NoPort /\ silent'[g]["out"] <= Timeout
        PROVE  \E e \in ToSet(table'[FlowHash[g]]) : e.flow = g /\ e.ext = port'[g] /\ e.age <= silent'[g]["out"]
    <3>1. CASE g = f
      <4>1. port'[g] = c.ext /\ silent'[g]["out"] = 0
        BY <1>7, <3>1 DEF Sees, Ways
      <4>2. d.flow = g /\ d.ext = port'[g] /\ d.age <= silent'[g]["out"]
        BY <1>5, <2>2, <3>1, <4>1 DEF Same
      <4> QED
        BY <1>1, <2>3, <3>1, <4>2
    <3>2. CASE g # f
      <4>1. port'[g] = port[g] /\ silent'[g]["out"] = silent[g]["out"]
        BY <1>7, <3>2 DEF Sees, Ways
      <4> QED
        BY <2>1, <2>4, <4>1, RefreshedKept
    <3> QED
      BY <3>1, <3>2
  <2> QED
    BY <2>4 DEF Kept
<1> QED
  BY <1>3, <1>5, <1>6, <1>7, ObserveCases

\* ... one to a port that has one, ...
LEMMA InKept ==
  ASSUME NatAssumption, Inv, Inv', Kept, NEW p \in PortSet, NEW flags \in Flags, In(p, flags)
  PROVE  Kept'
<1>1. PICK b \in Buckets : b = PortHash[p]
  BY DEF NatAssumption
<1>2. PICK hits : hits = OfPort(table[b], p)
  OBVIOUS
<1>3. hits \in SUBSET DOMAIN table[b]
  BY <1>2 DEF OfPort
<1>4. Translate(table, assigned, b, hits, "in", flags) /\ Observe({f \in Flows : port[f] = p}, p, {"in"}, flags)
  BY <1>1, <1>2 DEF In
<1>5. Fine(table, assigned)
  BY InvIs
<1>6. CASE Unwatched
  BY <1>6, UnwatchedKept
<1>7. CASE fate' = "runs" /\ flags # "rst" /\ Sees({f \in Flows : port[f] = p}, p, {"in"})
  <2>1. Refreshed(table, table')
    BY <1>3, <1>4, <1>5, <1>7, TranslateFine
  <2>2. ASSUME NEW g \in Flows PROVE port'[g] = port[g] /\ silent'[g]["out"] = silent[g]["out"]
    BY <1>7 DEF Sees, Ways
  <2>3. ASSUME NEW g \in Flows, port'[g] # NoPort /\ silent'[g]["out"] <= Timeout
        PROVE  \E e \in ToSet(table'[FlowHash[g]]) : e.flow = g /\ e.ext = port'[g] /\ e.age <= silent'[g]["out"]
    <3>1. port'[g] = port[g] /\ silent'[g]["out"] = silent[g]["out"]
      BY <2>2
    <3> QED
      BY <2>1, <2>3, <3>1, RefreshedKept
  <2> QED
    BY <2>3 DEF Kept
<1> QED
  BY <1>4, <1>6, <1>7, ObserveCases

\* What lasts through two steps.
LEMMA RefreshedTwice ==
  ASSUME NatAssumption, NEW t \in Chains, NEW u \in Chains, NEW v \in Chains, Refreshed(t, u), Refreshed(u, v)
  PROVE  Refreshed(t, v)
<1> SUFFICES ASSUME NEW b \in Buckets, NEW c \in ToSet(t[b])
             PROVE  \E e \in ToSet(v[b]) : Same(c, e) /\ e.age <= c.age
  BY DEF Refreshed
<1>1. PICK d \in ToSet(u[b]) : Same(c, d) /\ d.age <= c.age
  BY DEF Refreshed
<1>2. PICK e \in ToSet(v[b]) : Same(d, e) /\ e.age <= d.age
  BY DEF Refreshed
<1>3. c.age \in Nat /\ d.age \in Nat /\ e.age \in Nat
  BY CopyType
<1>4. Same(c, e) /\ e.age <= c.age
  BY <1>1, <1>2, <1>3 DEF Same
<1> QED
  BY <1>4

\* ... and one of a flow that has none.
LEMMA OpenKept ==
  ASSUME NatAssumption, Inv, Inv', Kept, NEW f \in Flows, NEW flags \in Flags, Open(f, flags)
  PROVE  Kept'
<1>1. PICK p \in PortSet, c \in Mapping, d \in Mapping : \E t : Opened(f, flags, p, c, d, t)
  BY OpenTable
<1>2. PICK t : Opened(f, flags, p, c, d, t)
  BY <1>1
<1>3. PICK b \in Buckets : b = FlowHash[f]
  BY DEF NatAssumption
<1>4. PICK hits \in SUBSET DOMAIN t[b] : hits = OfFlow(t[b], f)
  BY DEF OfFlow
<1>5. PICK a : a = assigned \cup {p}
  OBVIOUS
<1>6. Fine(t, a) /\ Refreshed(table, t) /\ Translate(t, a, b, hits, "out", flags) /\ Observe({f}, p, Ways, flags)
  BY <1>2, <1>3, <1>4, <1>5 DEF Opened
<1>7. table \in Chains /\ table' \in Chains /\ t \in Chains
  BY <1>6 DEF Inv, TypeOK, Chains, Mapping, Fine
<1>8. CASE Unwatched
  BY <1>8, UnwatchedKept
<1>9. CASE fate' = "runs" /\ flags # "rst" /\ Sees({f}, p, Ways)
  <2>1. Refreshed(t, table')
    BY <1>6, <1>9, TranslateFine
  <2>2. Refreshed(table, table')
    BY <1>6, <1>7, <2>1, RefreshedTwice
  <2>3. c \in ToSet(t[b])
    <3>1. t = Added(table, f, p, c, d)
      BY <1>2 DEF Opened
    <3>2. Extends(table, t, f, p, c, d)
      BY <1>7, <3>1, Adding
    <3> QED
      BY <1>3, <3>2 DEF Extends
  <2>4. PICK e \in ToSet(table'[b]) : Same(c, e) /\ e.age <= c.age
    BY <2>1, <2>3 DEF Refreshed
  <2>5. ASSUME NEW g \in Flows, port'[g] # NoPort /\ silent'[g]["out"] <= Timeout
        PROVE  \E x \in ToSet(table'[FlowHash[g]]) : x.flow = g /\ x.ext = port'[g] /\ x.age <= silent'[g]["out"]
    <3>1. CASE g = f
      <4>1. port'[g] = p /\ silent'[g]["out"] = 0
        BY <1>9, <3>1 DEF Sees, Ways
      <4>2. c.flow = f /\ c.ext = p /\ c.age = 0
        BY <1>2 DEF Opened
      <4>3. e.flow = g /\ e.ext = port'[g] /\ e.age <= silent'[g]["out"]
        BY <2>4, <3>1, <4>1, <4>2 DEF Same
      <4> QED
        BY <1>3, <3>1, <4>3
    <3>2. CASE g # f
      <4>1. port'[g] = port[g] /\ silent'[g]["out"] = silent[g]["out"]
        BY <1>9, <3>2 DEF Sees, Ways
      <4> QED
        BY <2>2, <2>5, <4>1, RefreshedKept
    <3> QED
      BY <3>1, <3>2
  <2> QED
    BY <2>5 DEF Kept
<1> QED
  BY <1>6, <1>8, <1>9, ObserveCases

\* Of two ages, the older is so a second later.
LEMMA OlderOrder ==
  ASSUME NatAssumption, NEW m \in 0 .. Timeout + 1, NEW n \in 0 .. Timeout + 1
  PROVE  /\ m <= n => Older(m) <= Older(n)
         /\ Older(n) <= Timeout => n <= Timeout
  BY DEF Older, NatAssumption

\* What a second does to what is seen.
Waited(f, w) == IF port[f] = NoPort THEN silent[f][w] ELSE Older(silent[f][w])

\* The observer counts the seconds as the table does.
LEMMA SecondSeen ==
  ASSUME NatAssumption, Inv, Second
  PROVE  /\ port' = port /\ table' = Later(table) /\ assigned' = assigned
         /\ \A f \in Flows : silent'[f]["out"] = Waited(f, "out")
         /\ watch' = "both" => /\ watch = "both"
                               /\ \A f \in Flows, w \in Ways : silent'[f][w] = Waited(f, w) /\ Waited(f, w) <= Timeout
<1> DEFINE now == [f \in Flows |-> IF port[f] = NoPort THEN silent[f] ELSE [w \in Ways |-> Older(silent[f][w])]]
           lapses == \E f \in Flows, w \in Ways : now[f][w] > Timeout
<1>1. /\ port' = port /\ table' = Later(table) /\ assigned' = assigned
      /\ IF watch = "both" /\ ~ lapses
         THEN silent' = now /\ UNCHANGED watch
         ELSE /\ silent' = [f \in Flows |-> [now[f] EXCEPT !["in"] = 0]]
              /\ watch' = IF watch = "both" THEN "out" ELSE watch
  BY DEF Second, Later
<1>2. silent \in [Flows -> [Ways -> 0 .. Timeout + 1]]
  BY DEF Inv, TypeOK
<1>3. \A f \in Flows, w \in Ways : now[f][w] = Waited(f, w)
  BY <1>2 DEF Waited
<1>4. \A f \in Flows : now[f] \in [Ways -> 0 .. Timeout + 1]
  <2>1. \A f \in Flows, w \in Ways : Older(silent[f][w]) \in 0 .. Timeout + 1
    BY <1>2, OlderType
  <2> QED
    BY <1>2, <2>1
<1>5. "out" \in Ways /\ "in" \in Ways
  BY DEF Ways
<1> HIDE DEF now
<1>6. \A f \in Flows, w \in Ways : now[f][w] \in Nat /\ Timeout \in Nat
  BY <1>4 DEF NatAssumption
<1>7. CASE watch = "both" /\ ~ lapses
  <2>1. silent' = now /\ watch' = watch
    BY <1>1, <1>7
  <2>2. \A f \in Flows, w \in Ways : now[f][w] <= Timeout
    BY <1>6, <1>7
  <2> QED
    BY <1>1, <1>3, <1>5, <1>7, <2>1, <2>2
<1>8. CASE ~ (watch = "both" /\ ~ lapses)
  <2>1. silent' = [f \in Flows |-> [now[f] EXCEPT !["in"] = 0]] /\ watch' = IF watch = "both" THEN "out" ELSE watch
    BY <1>1, <1>8
  <2>2. ASSUME NEW f \in Flows PROVE silent'[f]["out"] = now[f]["out"]
    <3>1. silent'[f] = [now[f] EXCEPT !["in"] = 0]
      BY <2>1
    <3> QED
      BY <1>4, <1>5, <3>1
  <2>3. watch' # "both"
    BY <2>1
  <2> QED
    BY <1>1, <1>3, <1>5, <2>2, <2>3
<1> QED
  BY <1>7, <1>8

\* A second, ...
LEMMA SecondKept ==
  ASSUME NatAssumption, Inv, Kept, Second
  PROVE  Kept'
<1>1. port' = port /\ table' = Later(table) /\ \A f \in Flows : silent'[f]["out"] = Waited(f, "out")
  BY SecondSeen
<1>2. table \in Chains /\ silent \in [Flows -> [Ways -> 0 .. Timeout + 1]]
  BY DEF Inv, TypeOK, Chains, Mapping
<1>3. PICK u : u = table'
  OBVIOUS
<1>4. u \in Chains /\ Aged(table, u)
  BY <1>1, <1>2, <1>3, Aging
<1> SUFFICES ASSUME NEW f \in Flows, port'[f] # NoPort, silent'[f]["out"] <= Timeout
             PROVE  \E c \in ToSet(u[FlowHash[f]]) : c.flow = f /\ c.ext = port'[f] /\ c.age <= silent'[f]["out"]
  BY <1>3 DEF Kept
<1>5. PICK s \in 0 .. Timeout + 1 : s = silent[f]["out"]
  BY <1>2 DEF Ways
<1>6. port[f] # NoPort /\ silent'[f]["out"] = Older(s)
  BY <1>1, <1>5 DEF Waited
<1>7. s <= Timeout
  BY <1>6, OlderOrder
<1>8. PICK c \in ToSet(table[FlowHash[f]]) : c.flow = f /\ c.ext = port[f] /\ c.age <= s
  BY <1>5, <1>6, <1>7 DEF Kept
<1>9. PICK b \in Buckets : b = FlowHash[f]
  BY DEF NatAssumption
<1>10. PICK i \in DOMAIN table[b] : c = table[b][i]
  BY <1>8, <1>9 DEF ToSet
<1>11. u[b][i] \in ToSet(u[b]) /\ Same(c, u[b][i]) /\ u[b][i].age = Older(c.age)
  BY <1>4, <1>10 DEF Aged, ToSet
<1>12. c.age \in 0 .. Timeout + 1
  BY <1>2, <1>8, <1>9, CopyType
<1>13. Older(c.age) <= Older(s)
  BY <1>8, <1>12, OlderOrder
<1>14. u[b][i].flow = f /\ u[b][i].ext = port'[f] /\ u[b][i].age <= silent'[f]["out"]
  BY <1>1, <1>6, <1>8, <1>11, <1>13 DEF Same
<1> QED
  BY <1>9, <1>11, <1>14

\* ... and a pass, which drops only what has been silent for longer.
LEMMA SweepKept ==
  ASSUME NatAssumption, Inv, Kept, Sweep
  PROVE  Kept'
<1>1. Inv' /\ Young(table, table')
  BY SweepInv
<1>2. port' = port /\ silent' = silent
  BY DEF Sweep, seen
<1>3. table \in Chains /\ table' \in Chains /\ silent \in [Flows -> [Ways -> 0 .. Timeout + 1]]
  BY <1>1 DEF Inv, TypeOK, Chains, Mapping
<1> SUFFICES ASSUME NEW f \in Flows, port[f] # NoPort, silent[f]["out"] <= Timeout
             PROVE  \E c \in ToSet(table'[FlowHash[f]]) : c.flow = f /\ c.ext = port[f] /\ c.age <= silent[f]["out"]
  BY <1>2 DEF Kept
<1>4. PICK s \in Nat : s = silent[f]["out"]
  BY <1>3 DEF Ways, NatAssumption
<1>5. PICK b \in Buckets : b = FlowHash[f]
  BY DEF NatAssumption
<1>6. PICK c \in ToSet(table[b]) : c.flow = f /\ c.ext = port[f] /\ c.age <= s
  BY <1>4, <1>5 DEF Kept
<1>7. c.age \in Nat
  BY <1>3, CopyType
<1>8. ~ Expired(c)
  BY <1>4, <1>6, <1>7 DEF Expired, NatAssumption
<1>9. PICK d \in ToSet(table'[b]) : Same(c, d) /\ d.age <= c.age
  BY <1>1, <1>8 DEF Young
<1>10. d.age \in Nat
  BY <1>3, CopyType
<1>11. d.age <= s
  BY <1>6, <1>7, <1>9, <1>10
<1> QED
  BY <1>4, <1>5, <1>6, <1>9, <1>11 DEF Same

\* Every step.
LEMMA KeptNext ==
  ASSUME NatAssumption, Inv, Kept, [Next]_vars
  PROVE  Kept'
<1>1. Inv'
  BY NextInv
<1>2. CASE Unroutable \/ Silence
  BY <1>2, UnwatchedKept DEF Unroutable, Silence
<1>3. ASSUME NEW f \in Flows, NEW flags \in Flags, Out(f, flags) \/ Open(f, flags) PROVE Kept'
  BY <1>1, <1>3, OutKept, OpenKept
<1>4. CASE UNCHANGED vars \/ \E f \in Flows : OutOfPorts(f)
  BY <1>4 DEF vars, code, seen, OutOfPorts, Kept
<1>5. ASSUME NEW p \in PortSet, NEW flags \in Flags, In(p, flags) PROVE Kept'
  BY <1>1, <1>5, InKept
<1>6. CASE Second \/ Sweep
  BY <1>6, SecondKept, SweepKept
<1> QED
  BY <1>2, <1>3, <1>4, <1>5, <1>6 DEF Next

\* At the start no flow has a port.
LEMMA KeptInit == Init => Kept
  BY DEF Init, Kept

\* The invariant.
LEMMA KeptAlways == ASSUME NatAssumption PROVE Spec => [](Inv /\ Kept)
<1>1. Init => Inv /\ Kept
  BY InvInit, KeptInit
<1>2. (Inv /\ Kept) /\ [Next]_vars => (Inv /\ Kept)'
  BY NextInv, KeptNext
<1> QED
  BY <1>1, <1>2, PTL DEF Spec

\* An inner host that goes on sending keeps its external port, whatever
\* nat_timeout drops around it, until there is a RST.
THEOREM PortIsKept == Spec => []PortKept
<1>1. Spec => [](Inv /\ Kept)
  BY NatAssumption, KeptAlways
<1>2. Kept => PortKept
  BY DEF Kept, PortKept, OfFlow, ToSet
<1> QED
  BY <1>1, <1>2, PTL

-----------------------------------------------------------------------------
(* While both directions of every connection are heard of.                  *)

\* The copy c in bucket b is the one its flow, or its port, is translated by, and
\* as young as what has last been heard of that way.
Own(ports, since, b, c) ==
  /\ ports[c.flow] = c.ext
  /\ \/ b = FlowHash[c.flow] /\ c.age <= since[c.flow]["out"]
     \/ b = PortHash[c.ext] /\ c.age <= since[c.flow]["in"]

\* No flow has two copies in a bucket.
Once(t) == \A b \in Buckets : \A i, j \in DOMAIN t[b] : t[b][i].flow = t[b][j].flow => i = j

Owned == \A b \in Buckets : \A i \in DOMAIN table[b] : Own(port, silent, b, table[b][i])
Heeded == \A f \in Flows : port[f] # NoPort => port[f] \in assigned /\ \A w \in Ways : silent[f][w] <= Timeout
Apart == \A f, g \in Flows : port[f] # NoPort /\ port[f] = port[g] => f = g

Exact == watch = "both" => Owned /\ Once(table) /\ Heeded /\ Apart

\* At the start there is no copy.
LEMMA ExactInit == ASSUME NatAssumption, Init PROVE Exact
  BY DEF Init, Exact, Owned, Once, Heeded, Apart, Empty

\* Of what is not watched nothing is said.
LEMMA UnwatchedExact == Unwatched => Exact'
  BY DEF Unwatched, Exact

\* If every copy is its flow's, then what comes to the port of a flow goes to it.
LEMMA ExactDelivers ==
  ASSUME NatAssumption, Inv, Exact
  PROVE  ExactDelivery
<1> SUFFICES ASSUME watch = "both", NEW f \in Flows, port[f] # NoPort
             PROVE  LET chain == table[PortHash[port[f]]]
                        to == OfPort(chain, port[f])
                    IN  Cardinality(to) = 1 /\ \A i \in to : chain[i].flow = f
  BY DEF ExactDelivery
<1>1. Owned /\ Once(table) /\ Heeded /\ Apart
  BY DEF Exact
<1>2. PICK p \in PortSet : p = port[f] /\ p \in assigned
  BY <1>1 DEF Heeded, Inv, TypeOK
<1>3. PICK b \in Buckets : b = PortHash[p]
  BY DEF NatAssumption
<1>4. ASSUME NEW i \in OfPort(table[b], p) PROVE table[b][i].flow = f
  <2>1. i \in DOMAIN table[b] /\ table[b][i].ext = p
    BY DEF OfPort
  <2>2. table[b][i] \in Mapping
    <3>1. table \in Chains
      BY DEF Inv, TypeOK, Chains, Mapping
    <3> QED
      BY <1>3, <2>1, <3>1 DEF Chains
  <2>3. table[b][i].flow \in Flows
    BY <2>2 DEF Mapping
  <2>4. port[table[b][i].flow] = p
    BY <1>1, <2>1 DEF Owned, Own
  <2> QED
    BY <1>1, <1>2, <2>3, <2>4 DEF Apart
<1>5. PICK c \in ToSet(table[b]) : c.ext = p
  BY <1>2, <1>3 DEF Inv, Covered
<1>6. PICK k \in OfPort(table[b], p) : TRUE
  BY <1>5 DEF OfPort, ToSet
<1>7. OfPort(table[b], p) = {k}
  <2>1. ASSUME NEW i \in OfPort(table[b], p) PROVE i = k
    <3>1. i \in DOMAIN table[b] /\ k \in DOMAIN table[b]
      BY DEF OfPort
    <3> QED
      BY <1>1, <1>4, <3>1 DEF Once
  <2> QED
    BY <2>1
<1>8. Cardinality(OfPort(table[b], p)) = 1
  BY <1>7, FS_Singleton
<1> QED
  BY <1>2, <1>3, <1>4, <1>8

\* A copy is replaced by a new one of the same flow.
LEMMA HitIndex ==
  ASSUME NatAssumption, NEW t \in Chains, NEW b \in Buckets, NEW i \in DOMAIN t[b], NEW d \in Mapping, HitBy(t, b, i, d)
  PROVE  /\ \A x \in Buckets : DOMAIN table'[x] = DOMAIN t[x]
         /\ table'[b][i] = d /\ d.flow = t[b][i].flow /\ d.ext = t[b][i].ext
         /\ \A x \in Buckets : \A j \in DOMAIN t[x] : x # b \/ j # i => table'[x][j] = t[x][j]
<1>1. PICK n \in Nat : DOMAIN t[b] = 1 .. n
  BY DEF Chains
<1>2. table' = [t EXCEPT ![b][i] = d]
  BY DEF HitBy
<1>3. table'[b] = [t[b] EXCEPT ![i] = d] /\ \A x \in Buckets : x # b => table'[x] = t[x]
  BY <1>2 DEF Chains
<1>4. DOMAIN table'[b] = DOMAIN t[b] /\ table'[b][i] = d /\ \A j \in DOMAIN t[b] : j # i => table'[b][j] = t[b][j]
  BY <1>1, <1>3
<1> QED
  BY <1>3, <1>4 DEF HitBy, Same

\* So it has no more copies of a flow than before.
LEMMA HitOnce ==
  ASSUME NatAssumption, NEW t \in Chains, NEW b \in Buckets, NEW i \in DOMAIN t[b], NEW d \in Mapping, HitBy(t, b, i, d), Once(t)
  PROVE  Once(table')
<1>1. /\ \A x \in Buckets : DOMAIN table'[x] = DOMAIN t[x]
      /\ table'[b][i] = d /\ d.flow = t[b][i].flow
      /\ \A x \in Buckets : \A j \in DOMAIN t[x] : x # b \/ j # i => table'[x][j] = t[x][j]
  BY HitIndex
<1>2. ASSUME NEW x \in Buckets, NEW j \in DOMAIN t[x]
      PROVE  table'[x][j].flow = t[x][j].flow
  BY <1>1
<1>3. ASSUME NEW x \in Buckets, NEW j \in DOMAIN table'[x], NEW k \in DOMAIN table'[x], table'[x][j].flow = table'[x][k].flow
      PROVE  j = k
  <2>1. j \in DOMAIN t[x] /\ k \in DOMAIN t[x]
    BY <1>1
  <2> QED
    BY <1>2, <1>3, <2>1 DEF Once
<1> QED
  BY <1>3 DEF Once

\* The flows fs are heard of one way.
Hears(fs, way) == silent' = [f \in Flows |-> [w \in Ways |-> IF f \in fs /\ w \in {way} THEN 0 ELSE silent[f][w]]]

\* All the copies by which they leave, or are found, are the ones of hits in bucket b.
AllHit(b, hits, fs, way) ==
  \A x \in Buckets : \A j \in DOMAIN table[x] :
    table[x][j].flow \in fs /\ ~ (x = b /\ j \in hits)
      => x # (IF way = "out" THEN FlowHash[table[x][j].flow] ELSE PortHash[table[x][j].ext])

\* A packet of a flow by its own copy, or to a port by that port's: the observer
\* sees what the copy says.
LEMMA HitExact ==
  ASSUME NatAssumption, Inv, Exact, watch = "both", NEW b \in Buckets, NEW hits \in SUBSET DOMAIN table[b],
         NEW i, hits = {i}, NEW d \in Mapping, HitBy(table, b, i, d), assigned' = assigned, watch' = watch,
         port' = port, NEW fs \in SUBSET Flows, NEW way \in Ways, Hears(fs, way), AllHit(b, hits, fs, way)
  PROVE  Exact'
<1>1. Owned /\ Once(table) /\ Heeded /\ Apart
  BY DEF Exact
<1>2. table \in Chains /\ silent \in [Flows -> [Ways -> 0 .. Timeout + 1]]
  BY DEF Inv, TypeOK, Chains, Mapping
<1>3. i \in DOMAIN table[b]
  OBVIOUS
<1>4. /\ \A x \in Buckets : DOMAIN table'[x] = DOMAIN table[x]
      /\ table'[b][i] = d /\ d.flow = table[b][i].flow /\ d.ext = table[b][i].ext
      /\ \A x \in Buckets : \A j \in DOMAIN table[x] : x # b \/ j # i => table'[x][j] = table[x][j]
  BY <1>2, <1>3, HitIndex
<1>5. Once(table')
  BY <1>1, <1>2, <1>3, HitOnce
<1>6. \A f \in Flows, w \in Ways : silent'[f][w] = IF f \in fs /\ w = way THEN 0 ELSE silent[f][w]
  BY <1>2 DEF Hears
<1>7. Heeded'
  <2>1. 0 <= Timeout
    BY DEF NatAssumption
  <2> QED
    BY <1>1, <1>6, <2>1 DEF Heeded
<1>8. Apart'
  BY <1>1 DEF Apart
<1>9. ASSUME NEW x \in Buckets, NEW j \in DOMAIN table[x]
      PROVE  Own(port', silent', x, table'[x][j])
  <2>1. PICK c \in Mapping : c = table[x][j] /\ c.flow \in Flows
    <3>1. table[x][j] \in Mapping
      BY <1>2 DEF Chains
    <3> QED
      BY <3>1 DEF Mapping
  <2>2. port[c.flow] = c.ext /\ \/ x = FlowHash[c.flow] /\ c.age <= silent[c.flow]["out"]
                                \/ x = PortHash[c.ext] /\ c.age <= silent[c.flow]["in"]
    BY <1>1, <2>1 DEF Owned, Own
  <2>3. "out" \in Ways /\ "in" \in Ways /\ (way = "out" \/ way = "in")
    BY DEF Ways
  <2>4. silent'[c.flow]["out"] \in Nat /\ silent'[c.flow]["in"] \in Nat
    <3>1. silent[c.flow]["out"] \in Nat /\ silent[c.flow]["in"] \in Nat
      BY <1>2, <2>1, <2>3 DEF NatAssumption
    <3> QED
      BY <1>6, <2>1, <2>3, <3>1
  <2>5. CASE x = b /\ j = i
    <3>1. table'[x][j] = d /\ d.flow = c.flow /\ d.ext = c.ext /\ d.age = 0
      BY <1>4, <2>1, <2>5 DEF HitBy
    <3>2. d.age <= silent'[c.flow]["out"] /\ d.age <= silent'[c.flow]["in"]
      BY <2>4, <3>1
    <3>3. port'[d.flow] = d.ext
      BY <2>2, <3>1
    <3>4. \/ x = FlowHash[d.flow] /\ d.age <= silent'[d.flow]["out"]
          \/ x = PortHash[d.ext] /\ d.age <= silent'[d.flow]["in"]
      BY <2>2, <3>1, <3>2
    <3> QED
      BY <3>1, <3>3, <3>4 DEF Own
  <2>6. CASE ~ (x = b /\ j = i)
    <3>1. table'[x][j] = c
      BY <1>4, <2>1, <2>6
    <3>2. CASE c.flow \notin fs
      <4>1. silent'[c.flow]["out"] = silent[c.flow]["out"] /\ silent'[c.flow]["in"] = silent[c.flow]["in"]
        BY <1>6, <2>1, <2>3, <3>2
      <4> QED
        BY <2>2, <3>1, <4>1 DEF Own
    <3>3. CASE c.flow \in fs
      <4>1. x # (IF way = "out" THEN FlowHash[c.flow] ELSE PortHash[c.ext])
        BY <2>1, <2>6, <3>3 DEF AllHit
      <4>2. CASE way = "out"
        <5>1. silent'[c.flow]["in"] = silent[c.flow]["in"]
          BY <1>6, <2>1, <2>3, <4>2
        <5> QED
          BY <2>2, <3>1, <4>1, <4>2, <5>1 DEF Own
      <4>3. CASE way = "in"
        <5>1. silent'[c.flow]["out"] = silent[c.flow]["out"]
          BY <1>6, <2>1, <2>3, <4>3
        <5> QED
          BY <2>2, <3>1, <4>1, <4>3, <5>1 DEF Own
      <4> QED
        BY <2>3, <4>2, <4>3
    <3> QED
      BY <3>2, <3>3
  <2> QED
    BY <2>5, <2>6
<1>10. Owned'
  BY <1>4, <1>9 DEF Owned
<1> QED
  BY <1>5, <1>7, <1>8, <1>10 DEF Exact

\* A packet of a flow that has a mapping, ...
LEMMA OutExact ==
  ASSUME NatAssumption, Inv, Exact, NEW f \in Flows, NEW flags \in Flags, Out(f, flags)
  PROVE  Exact'
<1>1. PICK b \in Buckets : \E hits \in SUBSET DOMAIN table[b] :
           /\ b = FlowHash[f] /\ hits = OfFlow(table[b], f)
           /\ Translate(table, assigned, b, hits, "out", flags)
           /\ \E i \in hits : table[b][i].ext \in PortSet /\ Observe({f}, table[b][i].ext, {"out"}, flags)
  BY OutTable
<1>2. PICK hits \in SUBSET DOMAIN table[b] :
           /\ hits = OfFlow(table[b], f)
           /\ Translate(table, assigned, b, hits, "out", flags)
           /\ \E i \in hits : table[b][i].ext \in PortSet /\ Observe({f}, table[b][i].ext, {"out"}, flags)
  BY <1>1
<1>3. PICK i \in hits : table[b][i].ext \in PortSet /\ Observe({f}, table[b][i].ext, {"out"}, flags)
  BY <1>2
<1>4. PICK p \in PortSet : p = table[b][i].ext /\ Observe({f}, p, {"out"}, flags)
  BY <1>3
<1>5. CASE Unwatched
  BY <1>5, UnwatchedExact
<1>6. CASE watch' # "both"
  BY <1>6 DEF Exact
<1>7. CASE watch' = "both" /\ fate' = "runs" /\ flags # "rst" /\ Sees({f}, p, {"out"})
  <2>1. watch' = watch /\ watch = "both"
    BY <1>7 DEF Sees
  <2>2. table \in Chains /\ port \in [Flows -> PortSet \cup {NoPort}]
    BY DEF Inv, TypeOK, Chains, Mapping
  <2>3. fate' = "runs" /\ flags # "rst" /\ Translate(table, assigned, b, hits, "out", flags)
    BY <1>2, <1>7
  <2>4. hits = {i} /\ assigned' = assigned /\ \E d \in Mapping : HitBy(table, b, i, d)
    BY <2>2, <2>3, TranslateHit
  <2>5. PICK d \in Mapping : HitBy(table, b, i, d)
    BY <2>4
  <2>6. i \in DOMAIN table[b] /\ table[b][i].flow = f /\ table[b][i].ext = p
    BY <1>2, <1>4 DEF OfFlow
  <2>7. port[f] = p
    BY <2>1, <2>6 DEF Exact, Owned, Own
  <2>8. port' = port
    BY <1>7, <2>2, <2>7 DEF Sees
  <2>9. Hears({f}, "out")
    BY <1>7 DEF Sees, Hears
  <2>10. AllHit(b, hits, {f}, "out")
    <3> SUFFICES ASSUME NEW x \in Buckets, NEW j \in DOMAIN table[x], table[x][j].flow = f, ~ (x = b /\ j \in hits)
                 PROVE  x # FlowHash[table[x][j].flow]
      BY DEF AllHit
    <3> QED
      BY <1>1, <1>2 DEF OfFlow
  <2>11. "out" \in Ways /\ {f} \in SUBSET Flows
    BY DEF Ways
  <2> QED
    BY <2>1, <2>4, <2>5, <2>8, <2>9, <2>10, <2>11, HitExact
<1> QED
  BY <1>4, <1>5, <1>6, <1>7, ObserveCases

\* ... and one to a port that has one.
LEMMA InExact ==
  ASSUME NatAssumption, Inv, Exact, NEW p \in PortSet, NEW flags \in Flags, In(p, flags)
  PROVE  Exact'
<1>1. PICK b \in Buckets : b = PortHash[p]
  BY DEF NatAssumption
<1>2. PICK hits : hits = OfPort(table[b], p)
  OBVIOUS
<1>3. hits \in SUBSET DOMAIN table[b] /\ hits # {}
  BY <1>1, <1>2 DEF OfPort, In
<1>4. PICK fs \in SUBSET Flows : fs = {f \in Flows : port[f] = p}
  OBVIOUS
<1>5. Translate(table, assigned, b, hits, "in", flags) /\ Observe(fs, p, {"in"}, flags)
  BY <1>1, <1>2, <1>4 DEF In
<1>6. CASE Unwatched
  BY <1>6, UnwatchedExact
<1>7. CASE watch' # "both"
  BY <1>7 DEF Exact
<1>8. CASE watch' = "both" /\ fate' = "runs" /\ flags # "rst" /\ Sees(fs, p, {"in"})
  <2>1. watch' = watch /\ watch = "both"
    BY <1>8 DEF Sees
  <2>2. table \in Chains /\ port \in [Flows -> PortSet \cup {NoPort}]
    BY DEF Inv, TypeOK, Chains, Mapping
  <2>3. fate' = "runs" /\ flags # "rst"
    BY <1>8
  <2>4. PICK i \in hits : TRUE
    BY <1>3
  <2>5. hits = {i} /\ assigned' = assigned /\ \E d \in Mapping : HitBy(table, b, i, d)
    BY <1>3, <1>5, <2>2, <2>3, TranslateHit
  <2>6. PICK d \in Mapping : HitBy(table, b, i, d)
    BY <2>5
  <2>7. port' = port
    BY <1>4, <1>8, <2>2 DEF Sees
  <2>8. Hears(fs, "in")
    BY <1>8 DEF Sees, Hears
  <2>9. AllHit(b, hits, fs, "in")
    <3> SUFFICES ASSUME NEW x \in Buckets, NEW j \in DOMAIN table[x], table[x][j].flow \in fs, ~ (x = b /\ j \in hits)
                 PROVE  x # PortHash[table[x][j].ext]
      BY DEF AllHit
    <3>1. table[x][j].ext = p
      BY <1>4, <2>1 DEF Exact, Owned, Own
    <3> QED
      BY <1>1, <1>2, <3>1 DEF OfPort
  <2>10. "in" \in Ways
    BY DEF Ways
  <2> QED
    BY <1>3, <2>1, <2>5, <2>6, <2>7, <2>8, <2>9, <2>10, HitExact
<1> QED
  BY <1>5, <1>6, <1>7, <1>8, ObserveCases

\* A second in which nobody has been silent for too long.
LEMMA SecondExact ==
  ASSUME NatAssumption, Inv, Exact, Second
  PROVE  Exact'
<1> SUFFICES ASSUME watch' = "both" PROVE (Owned /\ Once(table) /\ Heeded /\ Apart)'
  BY DEF Exact
<1>1. /\ port' = port /\ table' = Later(table) /\ assigned' = assigned /\ watch = "both"
      /\ \A f \in Flows, w \in Ways : silent'[f][w] = Waited(f, w) /\ Waited(f, w) <= Timeout
  BY SecondSeen
<1>2. Owned /\ Once(table) /\ Heeded /\ Apart
  BY <1>1 DEF Exact
<1>3. table \in Chains /\ silent \in [Flows -> [Ways -> 0 .. Timeout + 1]]
  BY DEF Inv, TypeOK, Chains, Mapping
<1>4. table' \in Chains /\ Aged(table, table')
  <2>1. PICK u : u = table'
    OBVIOUS
  <2>2. u \in Chains /\ Aged(table, u)
    BY <1>1, <1>3, <2>1, Aging
  <2> QED
    BY <2>1, <2>2
<1>5. Heeded'
  BY <1>1, <1>2 DEF Heeded
<1>6. Apart'
  BY <1>1, <1>2 DEF Apart
<1>7. Once(table')
  <2> SUFFICES ASSUME NEW b \in Buckets, NEW i \in DOMAIN table'[b], NEW j \in DOMAIN table'[b], table'[b][i].flow = table'[b][j].flow
               PROVE  i = j
    BY DEF Once
  <2>1. i \in DOMAIN table[b] /\ j \in DOMAIN table[b]
    BY <1>4 DEF Aged
  <2>2. table'[b][i].flow = table[b][i].flow /\ table'[b][j].flow = table[b][j].flow
    BY <1>4, <2>1 DEF Aged, Same
  <2> QED
    BY <1>2, <2>1, <2>2 DEF Once
<1>8. ASSUME NEW b \in Buckets, NEW i \in DOMAIN table[b] PROVE Own(port', silent', b, table'[b][i])
  <2>1. PICK c \in Mapping : c = table[b][i] /\ c.flow \in Flows /\ c.ext \in PortSet /\ c.age \in 0 .. Timeout + 1
    <3>1. table[b][i] \in Mapping
      BY <1>3 DEF Chains
    <3> QED
      BY <3>1 DEF Mapping
  <2>2. port[c.flow] = c.ext /\ \/ b = FlowHash[c.flow] /\ c.age <= silent[c.flow]["out"]
                                \/ b = PortHash[c.ext] /\ c.age <= silent[c.flow]["in"]
    BY <1>2, <2>1 DEF Owned, Own
  <2>3. port[c.flow] # NoPort
    BY <2>1, <2>2 DEF NatAssumption
  <2>4. "out" \in Ways /\ "in" \in Ways
    BY DEF Ways
  <2>5. silent'[c.flow]["out"] = Older(silent[c.flow]["out"]) /\ silent'[c.flow]["in"] = Older(silent[c.flow]["in"])
    BY <1>1, <2>1, <2>3, <2>4 DEF Waited
  <2>6. silent[c.flow]["out"] \in 0 .. Timeout + 1 /\ silent[c.flow]["in"] \in 0 .. Timeout + 1
    BY <1>3, <2>1, <2>4
  <2>7. /\ c.age <= silent[c.flow]["out"] => Older(c.age) <= silent'[c.flow]["out"]
        /\ c.age <= silent[c.flow]["in"] => Older(c.age) <= silent'[c.flow]["in"]
    <3>1. PICK m \in 0 .. Timeout + 1, n \in 0 .. Timeout + 1 : m = silent[c.flow]["out"] /\ n = silent[c.flow]["in"]
      BY <2>6
    <3>2. (c.age <= m => Older(c.age) <= Older(m)) /\ (c.age <= n => Older(c.age) <= Older(n))
      BY <2>1, OlderOrder
    <3> QED
      BY <2>5, <3>1, <3>2
  <2>8. PICK d : d = table'[b][i] /\ d.flow = c.flow /\ d.ext = c.ext /\ d.age = Older(c.age)
    BY <1>4, <2>1 DEF Aged, Same
  <2>9. Own(port', silent', b, d)
    BY <1>1, <2>2, <2>7, <2>8 DEF Own
  <2> QED
    BY <2>8, <2>9
<1>9. Owned'
  <2>1. \A b \in Buckets : DOMAIN table'[b] = DOMAIN table[b]
    BY <1>4 DEF Aged
  <2> QED
    BY <1>8, <2>1 DEF Owned
<1> QED
  BY <1>5, <1>6, <1>7, <1>9

\* A pass finds nothing.
LEMMA SweepExact ==
  ASSUME NatAssumption, Inv, Exact, Sweep
  PROVE  Exact'
<1> SUFFICES ASSUME watch = "both" PROVE Exact'
  BY DEF Exact, Sweep, seen
<1>1. Owned /\ Once(table) /\ Heeded /\ Apart
  BY DEF Exact
<1>2. table \in Chains /\ silent \in [Flows -> [Ways -> 0 .. Timeout + 1]]
  BY DEF Inv, TypeOK, Chains, Mapping
<1>3. ASSUME NEW b \in Buckets, NEW c \in ToSet(table[b]) PROVE ~ Expired(c)
  <2>1. PICK i \in DOMAIN table[b] : c = table[b][i]
    BY DEF ToSet
  <2>2. c.flow \in Flows /\ c.ext \in PortSet /\ c.age \in Nat
    BY <1>2, CopyType
  <2>3. port[c.flow] = c.ext /\ (c.age <= silent[c.flow]["out"] \/ c.age <= silent[c.flow]["in"])
    BY <1>1, <2>1 DEF Owned, Own
  <2>4. port[c.flow] # NoPort
    BY <2>2, <2>3 DEF NatAssumption
  <2>5. silent[c.flow]["out"] <= Timeout /\ silent[c.flow]["in"] <= Timeout
    BY <1>1, <2>2, <2>4 DEF Heeded, Ways
  <2>6. silent[c.flow]["out"] \in Nat /\ silent[c.flow]["in"] \in Nat /\ Timeout \in Nat
    BY <1>2, <2>2 DEF Ways, NatAssumption
  <2> QED
    BY <2>2, <2>3, <2>5, <2>6 DEF Expired
<1>4. PICK m \in Nat : m = Len(Ports)
  BY DEF NatAssumption
<1>5. Passed[m].table = table /\ Passed[m].assigned = assigned
  BY <1>2, <1>3, <1>4, PassNothing
<1>6. table' = table /\ assigned' = assigned /\ port' = port /\ silent' = silent /\ watch' = watch
  BY <1>4, <1>5 DEF Sweep, seen
<1> QED
  BY <1>1, <1>6 DEF Exact, Owned, Once, Heeded, Apart

\* Where the copies of t are that are not in table[x], which has n: at the end,
\* and no more than one outside the bucket of the flow f.
AddedAt(t, f, x, n) ==
  \A j \in DOMAIN t[x] :
    IF j <= n THEN j \in DOMAIN table[x] /\ t[x][j] = table[x][j]
    ELSE t[x][j].flow = f /\ (x # FlowHash[f] => j = n + 1)

\* That is where they are added.
LEMMA AddingAt ==
  ASSUME NatAssumption, table \in Chains, NEW f \in Flows, NEW p \in PortSet, NEW c \in Mapping, NEW d \in Mapping,
         c.flow = f, d.flow = f, NEW t, t = Added(table, f, p, c, d), NEW x \in Buckets, NEW n \in Nat, n = Len(table[x])
  PROVE  AddedAt(t, f, x, n)
<1> DEFINE y == FlowHash[f]
           z == PortHash[p]
           u == [table EXCEPT ![y] = Append(table[y], c)]
<1>1. y \in Buckets /\ z \in Buckets
  BY DEF NatAssumption
<1>2. t = [u EXCEPT ![z] = Append(u[z], d)]
  BY DEF Added
<1> HIDE DEF y, z
<1>3. table[x] \in Seq(Mapping) /\ DOMAIN table[x] = 1 .. n
  BY DEF Chains
<1>4. u[x] = IF x = y THEN Append(table[x], c) ELSE table[x]
  BY <1>1 DEF Chains
<1>5. DOMAIN u = Buckets
  BY DEF Chains
<1> HIDE DEF u
<1>6. t[x] = IF x = z THEN Append(u[x], d) ELSE u[x]
  BY <1>2, <1>5
<1>7. /\ Append(table[x], c) \in Seq(Mapping) /\ Len(Append(table[x], c)) = n + 1 /\ Append(table[x], c)[n + 1] = c
      /\ \A j \in 1 .. n : Append(table[x], c)[j] = table[x][j]
  BY <1>3
<1>8. PICK m \in Nat : /\ u[x] \in Seq(Mapping) /\ m = Len(u[x]) /\ DOMAIN u[x] = 1 .. m
                       /\ m = IF x = y THEN n + 1 ELSE n
                       /\ \A j \in 1 .. m : IF j <= n THEN u[x][j] = table[x][j] ELSE u[x][j] = c
  <2>1. CASE x = y
    <3>1. u[x] \in Seq(Mapping) /\ Len(u[x]) = n + 1 /\ u[x][n + 1] = c /\ \A j \in 1 .. n : u[x][j] = table[x][j]
      BY <1>4, <1>7, <2>1
    <3>2. DOMAIN u[x] = 1 .. n + 1
      BY <3>1
    <3>3. \A j \in 1 .. n + 1 : IF j <= n THEN u[x][j] = table[x][j] ELSE u[x][j] = c
      BY <3>1
    <3> QED
      BY <2>1, <3>1, <3>2, <3>3
  <2>2. CASE x # y
    BY <1>3, <1>4, <2>2
  <2> QED
    BY <2>1, <2>2
<1>9. /\ Len(Append(u[x], d)) = m + 1 /\ DOMAIN Append(u[x], d) = 1 .. m + 1 /\ Append(u[x], d)[m + 1] = d
      /\ \A j \in 1 .. m : Append(u[x], d)[j] = u[x][j]
  BY <1>8
<1>10. ASSUME NEW j \in DOMAIN t[x]
       PROVE  IF j <= n THEN j \in DOMAIN table[x] /\ t[x][j] = table[x][j]
              ELSE t[x][j].flow = f /\ (x # y => j = n + 1)
  <2>1. CASE x = z
    <3>1. j \in 1 .. m + 1 /\ t[x][j] = IF j <= m THEN u[x][j] ELSE d
      BY <1>6, <1>9, <2>1
    <3> QED
      BY <1>3, <1>8, <3>1
  <2>2. CASE x # z
    <3>1. j \in 1 .. m /\ t[x][j] = u[x][j]
      BY <1>6, <1>8, <2>2
    <3> QED
      BY <1>3, <1>8, <3>1
  <2> QED
    BY <2>1, <2>2
<1> QED
  BY <1>10 DEF AddedAt, y

\* If its packet finds one copy, the flow has one in each bucket.
LEMMA AddedOnce ==
  ASSUME NatAssumption, table \in Chains, Once(table), NEW f \in Flows, NEW t \in Chains, NEW i,
         OfFlow(t[FlowHash[f]], f) = {i},
         \A x \in Buckets : \A j \in DOMAIN table[x] : table[x][j].flow # f,
         \A x \in Buckets : \A n \in Nat : n = Len(table[x]) => AddedAt(t, f, x, n)
  PROVE  Once(t)
<1> SUFFICES ASSUME NEW x \in Buckets, NEW j \in DOMAIN t[x], NEW k \in DOMAIN t[x], t[x][j].flow = t[x][k].flow
             PROVE  j = k
  BY DEF Once
<1>1. PICK n \in Nat : n = Len(table[x])
  BY DEF Chains
<1>2. AddedAt(t, f, x, n)
  BY <1>1
<1>3. j \in Nat /\ k \in Nat
  BY DEF Chains
<1>4. CASE j <= n /\ k <= n
  BY <1>2, <1>4 DEF AddedAt, Once
<1>5. CASE ~ (j <= n) /\ ~ (k <= n)
  <2>1. t[x][j].flow = f /\ t[x][k].flow = f /\ (x # FlowHash[f] => j = k)
    BY <1>2, <1>5 DEF AddedAt
  <2>2. x = FlowHash[f] => j = k
    BY <2>1 DEF OfFlow
  <2> QED
    BY <2>1, <2>2
<1>6. CASE j <= n /\ ~ (k <= n)
  BY <1>2, <1>6 DEF AddedAt
<1>7. CASE ~ (j <= n) /\ k <= n
  BY <1>2, <1>7 DEF AddedAt
<1> QED
  BY <1>3, <1>4, <1>5, <1>6, <1>7

\* A packet of a flow that has none: had it a port, it would have the mapping.
LEMMA OpenExact ==
  ASSUME NatAssumption, Inv, Kept, Exact, NEW f \in Flows, NEW flags \in Flags, Open(f, flags)
  PROVE  Exact'
<1>1. PICK p \in PortSet, c \in Mapping, d \in Mapping : \E t : Opened(f, flags, p, c, d, t)
  BY OpenTable
<1>2. PICK t : Opened(f, flags, p, c, d, t)
  BY <1>1
<1>3. PICK b \in Buckets : b = FlowHash[f]
  BY DEF NatAssumption
<1>4. PICK hits \in SUBSET DOMAIN t[b] : hits = OfFlow(t[b], f)
  BY DEF OfFlow
<1>5. PICK a : a = assigned \cup {p}
  OBVIOUS
<1>6. /\ t = Added(table, f, p, c, d) /\ OfFlow(table[b], f) = {} /\ p \notin assigned
      /\ c.flow = f /\ d.flow = f /\ c.ext = p /\ d.ext = p /\ c.age = 0 /\ d.age = 0
      /\ Fine(t, a) /\ Translate(t, a, b, hits, "out", flags) /\ Observe({f}, p, Ways, flags)
  BY <1>2, <1>3, <1>4, <1>5 DEF Opened
<1>7. table \in Chains /\ t \in Chains /\ silent \in [Flows -> [Ways -> 0 .. Timeout + 1]] /\ port \in [Flows -> PortSet \cup {NoPort}]
  BY <1>6 DEF Inv, TypeOK, Chains, Mapping, Fine
<1>8. CASE Unwatched
  BY <1>8, UnwatchedExact
<1>9. CASE watch' # "both"
  BY <1>9 DEF Exact
<1>10. CASE watch' = "both" /\ fate' = "runs" /\ flags # "rst" /\ Sees({f}, p, Ways)
  <2>1. watch = "both" /\ Owned /\ Once(table) /\ Heeded /\ Apart
    BY <1>10 DEF Sees, Exact
  <2>2. port[f] = NoPort
    <3> SUFFICES ASSUME port[f] # NoPort PROVE FALSE
      OBVIOUS
    <3>1. silent[f]["out"] <= Timeout
      BY <2>1 DEF Heeded, Ways
    <3>2. PICK e \in ToSet(table[b]) : e.flow = f
      BY <1>3, <3>1 DEF Kept
    <3> QED
      BY <1>6, <3>2 DEF OfFlow, ToSet
  <2>3. ASSUME NEW x \in Buckets, NEW j \in DOMAIN table[x] PROVE table[x][j].flow # f
    <3>1. table[x][j] \in Mapping
      BY <1>7 DEF Chains
    <3>2. port[table[x][j].flow] = table[x][j].ext /\ table[x][j].ext \in PortSet
      BY <2>1, <3>1 DEF Owned, Own, Mapping
    <3> QED
      BY <2>2, <3>2 DEF NatAssumption
  <2>4. Extends(table, t, f, p, c, d)
    BY <1>6, <1>7, Adding
  <2>5. PICK i \in hits : TRUE
    <3>1. c \in ToSet(t[b])
      BY <1>3, <2>4 DEF Extends
    <3> QED
      BY <1>4, <1>6, <3>1 DEF ToSet, OfFlow
  <2>6. fate' = "runs" /\ flags # "rst" /\ Translate(t, a, b, hits, "out", flags)
    BY <1>6, <1>10
  <2>7. hits = {i} /\ assigned' = a /\ \E e \in Mapping : HitBy(t, b, i, e)
    BY <1>7, <2>6, TranslateHit
  <2>8. PICK e \in Mapping : HitBy(t, b, i, e)
    BY <2>7
  <2>9. i \in DOMAIN t[b]
    BY <2>5
  <2>10. /\ \A x \in Buckets : DOMAIN table'[x] = DOMAIN t[x]
         /\ table'[b][i] = e /\ e.flow = t[b][i].flow /\ e.ext = t[b][i].ext
         /\ \A x \in Buckets : \A j \in DOMAIN t[x] : x # b \/ j # i => table'[x][j] = t[x][j]
    BY <1>7, <2>8, <2>9, HitIndex
  <2>11. Once(t)
    <3>1. ASSUME NEW x \in Buckets, NEW n \in Nat, n = Len(table[x]) PROVE AddedAt(t, f, x, n)
      BY <1>6, <1>7, <3>1, AddingAt
    <3>2. OfFlow(t[FlowHash[f]], f) = {i}
      BY <1>3, <1>4, <2>7
    <3> QED
      BY <1>7, <2>1, <2>3, <3>1, <3>2, AddedOnce
  <2>12. Once(table')
    BY <1>7, <2>8, <2>9, <2>11, HitOnce
  <2>13. /\ \A g \in Flows : port'[g] = IF g = f THEN p ELSE port[g]
         /\ \A g \in Flows, w \in Ways : silent'[g][w] = IF g = f THEN 0 ELSE silent[g][w]
    BY <1>10 DEF Sees
  <2>14. Heeded'
    <3>1. 0 <= Timeout
      BY DEF NatAssumption
    <3> SUFFICES ASSUME NEW g \in Flows, port'[g] # NoPort
                 PROVE  port'[g] \in assigned' /\ \A w \in Ways : silent'[g][w] <= Timeout
      BY DEF Heeded
    <3>2. CASE g = f
      BY <1>5, <2>7, <2>13, <3>1, <3>2
    <3>3. CASE g # f
      BY <1>5, <2>1, <2>7, <2>13, <3>3 DEF Heeded
    <3> QED
      BY <3>2, <3>3
  <2>15. Apart'
    <3> SUFFICES ASSUME NEW g \in Flows, NEW h \in Flows, port'[g] # NoPort, port'[g] = port'[h]
                 PROVE  g = h
      BY DEF Apart
    <3>1. \A k \in Flows : port[k] # p
      BY <1>6, <2>1 DEF Heeded, NatAssumption
    <3> QED
      BY <2>1, <2>13, <3>1 DEF Apart
  <2>16. ASSUME NEW x \in Buckets, NEW j \in DOMAIN t[x] PROVE Own(port', silent', x, table'[x][j])
    <3>1. PICK o \in Mapping : o = t[x][j] /\ o \in ToSet(t[x]) /\ o.flow \in Flows
      <4>1. t[x][j] \in Mapping
        BY <1>7 DEF Chains
      <4>2. t[x][j] \in ToSet(t[x])
        BY DEF ToSet
      <4>3. t[x][j].flow \in Flows
        BY <4>1 DEF Mapping
      <4> QED
        BY <4>1, <4>2, <4>3
    <3>2. "out" \in Ways /\ "in" \in Ways
      BY DEF Ways
    <3>3. t[b][i].flow = f
      BY <1>4, <2>5 DEF OfFlow
    <3>4. CASE o.flow = f
      <4>1. o \notin ToSet(table[x])
        BY <2>3, <3>4 DEF ToSet
      <4>2. (x = FlowHash[f] /\ o = c) \/ (x = PortHash[p] /\ o = d)
        BY <2>4, <3>1, <4>1 DEF Extends
      <4>3. PICK q : q = table'[x][j] /\ q.flow = f /\ q.ext = p /\ q.age = 0
        <5>1. CASE x = b /\ j = i
          BY <1>6, <2>8, <2>10, <3>1, <3>3, <4>2, <5>1 DEF HitBy
        <5>2. CASE ~ (x = b /\ j = i)
          BY <1>6, <2>10, <3>1, <4>2, <5>2
        <5> QED
          BY <5>1, <5>2
      <4>4. port'[f] = p /\ silent'[f]["out"] = 0 /\ silent'[f]["in"] = 0
        BY <2>13, <3>2
      <4>5. Own(port', silent', x, q)
        BY <4>2, <4>3, <4>4 DEF Own
      <4> QED
        BY <4>3, <4>5
    <3>5. CASE o.flow # f
      <4>1. o \in ToSet(table[x])
        BY <1>6, <2>4, <3>1, <3>5 DEF Extends
      <4>2. Own(port, silent, x, o)
        BY <2>1, <4>1 DEF Owned, ToSet
      <4>3. table'[x][j] = o
        BY <2>10, <3>1, <3>3, <3>5
      <4>4. port'[o.flow] = port[o.flow] /\ silent'[o.flow]["out"] = silent[o.flow]["out"] /\ silent'[o.flow]["in"] = silent[o.flow]["in"]
        BY <2>13, <3>1, <3>2, <3>5
      <4> QED
        BY <4>2, <4>3, <4>4 DEF Own
    <3> QED
      BY <3>4, <3>5
  <2>17. Owned'
    BY <2>10, <2>16 DEF Owned
  <2> QED
    BY <2>12, <2>14, <2>15, <2>17 DEF Exact
<1> QED
  BY <1>6, <1>8, <1>9, <1>10, ObserveCases

\* Every step.
LEMMA ExactNext ==
  ASSUME NatAssumption, Inv, Kept, Exact, [Next]_vars
  PROVE  Exact'
<1>1. CASE Unroutable \/ Silence
  BY <1>1, UnwatchedExact DEF Unroutable, Silence
<1>2. ASSUME NEW f \in Flows, NEW flags \in Flags, Out(f, flags) \/ Open(f, flags) PROVE Exact'
  BY <1>2, OutExact, OpenExact
<1>3. CASE UNCHANGED vars \/ \E f \in Flows : OutOfPorts(f)
  <2>1. table' = table /\ assigned' = assigned /\ watch' = watch /\ port' = port /\ silent' = silent
    BY <1>3 DEF vars, code, seen, OutOfPorts
  <2> QED
    BY <2>1 DEF Exact, Owned, Once, Heeded, Apart
<1>4. ASSUME NEW p \in PortSet, NEW flags \in Flags, In(p, flags) PROVE Exact'
  BY <1>4, InExact
<1>5. CASE Second \/ Sweep
  BY <1>5, SecondExact, SweepExact
<1> QED
  BY <1>1, <1>2, <1>3, <1>4, <1>5 DEF Next

\* As long as every connection is heard of both ways, and none is reset, what
\* comes to the port of a flow goes to it alone, although the copy that sends it
\* out and the one that lets the answers in live and die on their own.
THEOREM DeliveryIsExact == Spec => []ExactDelivery
<1>1. Init => Inv /\ Kept /\ Exact
  BY NatAssumption, InvInit, KeptInit, ExactInit
<1>2. (Inv /\ Kept /\ Exact) /\ [Next]_vars => (Inv /\ Kept /\ Exact)'
  BY NatAssumption, NextInv, KeptNext, ExactNext
<1>3. Inv /\ Kept /\ Exact => ExactDelivery
  BY NatAssumption, ExactDelivers
<1> QED
  BY <1>1, <1>2, <1>3, PTL DEF Spec

=============================================================================
