--------------------------- MODULE Mospf_proofs ---------------------------
(***************************************************************************)
(* What the daemons of Mospf promise on networks of any size.              *)
(***************************************************************************)
EXTENDS Mospf, DataInduction, FiniteSetTheorems

-----------------------------------------------------------------------------
(* The network.                                                             *)

Ends == Vertices \cup {Garbage}
Nums == - Window .. Window + 1

\* Routers and LANs, and what is not one of them.
LEMMA Network ==
  /\ Routers \subseteq Vertices /\ Vertices \subseteq Nat
  /\ None \notin Vertices /\ Null \notin Vertices /\ Garbage \notin Vertices /\ Null \notin Edges
  /\ NbrTimeout \in Nat \ {0} /\ DbTimeout \in Nat \ {0} /\ Window \in Nat \ {0}
<1>1. Routers \subseteq Vertices
  BY DEF Vertices
<1>2. /\ Vertices \subseteq Nat /\ Null \notin Edges
      /\ NbrTimeout \in Nat \ {0} /\ DbTimeout \in Nat \ {0} /\ Window \in Nat \ {0}
  BY MospfAssumption
<1>3. None \notin Vertices /\ Null \notin Vertices /\ Garbage \notin Vertices
  BY MospfAssumption
<1> QED
  BY <1>1, <1>2, <1>3

\* The neighbours of a router.
LEMMA Neighbours ==
  ASSUME NEW r \in Routers
  PROVE  /\ Peers(r) \subseteq Routers /\ r \notin Peers(r) /\ \A n \in Peers(r) : r \in Peers(n)
         /\ Full(r) \subseteq Vertices /\ Full(r) = ToSet(Ifaces[r]) /\ Peers(r) \cup OwnLans(r) = Full(r)
         /\ \A v \in Full(r) : {r, v} \in Edges
<1>1. ToSet(Ifaces[r]) \subseteq Vertices
  BY DEF Vertices
<1>2. Full(r) = ToSet(Ifaces[r])
  BY DEF Full
<1>3. \A v \in Full(r) : {r, v} \in Edges
  BY <1>2 DEF Edges
<1> QED
  BY <1>1, <1>2, <1>3, MospfAssumption DEF Peers, OwnLans, Lans, Full

\* They are finitely many.
LEMMA FewPeers ==
  ASSUME NEW r \in Routers
  PROVE  IsFiniteSet(Peers(r)) /\ Cardinality(Peers(r)) \in Nat /\ 2 * Cardinality(Peers(r)) <= Window
<1>1. IsFiniteSet(Peers(r))
  BY MospfAssumption, FS_Subset, Neighbours
<1> QED
  BY <1>1, MospfAssumption, FS_CardinalityType

\* A database entry, a thread in send_mospf_lsu, an LSU.
EntryOf(o) == [adv : SUBSET (Full(o) \cup {Garbage}), num : Nums, age : 0 .. DbTimeout + 1]
Threads == {"lsu", "rx", "nbr"}
Phases(r) == [at : {"count"}] \cup [at : {"fill"}, nadv : Nat] \cup [at : {"send"}, adv : SUBSET (Full(r) \cup {Garbage})]
Lsu == [at : Routers, from : Routers, org : Routers, num : Nums, adv : SUBSET Ends, hops : Nat]

\* What the state of a router is made of.
NbrOk(r, f) == DOMAIN f \subseteq Peers(r) /\ \A n \in DOMAIN f : f[n] \in 0 .. NbrTimeout + 1
DbOk(r, d) == DOMAIN d \subseteq Routers \ {r} /\ \A o \in DOMAIN d : d[o] \in EntryOf(o)
SendOk(r, s) == DOMAIN s \subseteq Threads /\ \A th \in DOMAIN s : s[th] \in Phases(r)
LsuOk(m) ==
  /\ m \in Lsu /\ m.at \in Peers(m.from) /\ m.at # m.org
  /\ m.adv \subseteq Full(m.org) \cup {Garbage}

Shape ==
  /\ DOMAIN nbr = Routers /\ DOMAIN db = Routers /\ DOMAIN sending = Routers
  /\ DOMAIN graph = Routers /\ DOMAIN subnets = Routers /\ DOMAIN route = Routers
Parts ==
  \A r \in Routers :
    /\ NbrOk(r, nbr[r]) /\ DbOk(r, db[r]) /\ SendOk(r, sending[r])
    /\ r \notin up => DOMAIN nbr[r] = {} /\ DOMAIN db[r] = {} /\ DOMAIN sending[r] = {}
Tables ==
  \A r \in Routers :
    /\ subnets[r] \subseteq graph[r] /\ graph[r] \subseteq Edges
    /\ DOMAIN Direct(r) \subseteq DOMAIN route[r]
Flags == up \subseteq Routers /\ fault \in Faults /\ bad \in Routers \cup {None} /\ {spent, lapsed, crashed} \subseteq BOOLEAN
Lsus == \A m \in net : LsuOk(m)

\* One router sends at a time, in two threads at most, and no number of an LSU has
\* fallen out of the window.
Degree(r) == Cardinality(Peers(r))
OneWalks == \A q, r \in Routers : Walking(q) # {} /\ Walking(r) # {} => q = r
TwoWalk == \A r \in Routers : \A a, b, c \in Walking(r) : a = b \/ b = c \/ a = c
WalkersLsus == \A m \in net : \A r \in Routers : Walking(r) # {} => m.org = r
Pair(r) == \E a, b \in Walking(r) : a # b
NumsLeft ==
  \A m \in net : /\ ~ Pair(m.org)
                 /\ Walking(m.org) # {} => m.num > - Degree(m.org)
                 /\ m.num > - (2 * Degree(m.org))
Turns == OneWalks /\ TwoWalk /\ WalkersLsus /\ NumsLeft

Inv == Shape /\ Parts /\ Tables /\ Flags /\ Lsus /\ Turns

\* All of this gives the types.
LEMMA InvTypeOK == ASSUME Inv PROVE TypeOK
<1>1. Flags /\ Shape /\ Parts /\ Tables /\ Lsus /\ Turns
  BY DEF Inv
<1>2. ASSUME NEW r \in Routers
      PROVE  /\ DOMAIN nbr[r] \subseteq Peers(r)
             /\ \A n \in DOMAIN nbr[r] : nbr[r][n] \in 0 .. NbrTimeout + 1
             /\ DOMAIN db[r] \subseteq Routers \ {r}
             /\ \A o \in DOMAIN db[r] : /\ db[r][o].adv \subseteq Full(o) \cup {Garbage}
                                        /\ db[r][o].num \in - Window .. Window + 1
                                        /\ db[r][o].age \in 0 .. DbTimeout + 1
             /\ subnets[r] \subseteq graph[r] /\ graph[r] \subseteq Edges
             /\ DOMAIN Direct(r) \subseteq DOMAIN route[r]
             /\ DOMAIN sending[r] \subseteq {"lsu", "rx", "nbr"}
  <2>1. NbrOk(r, nbr[r]) /\ DbOk(r, db[r]) /\ SendOk(r, sending[r])
    BY <1>1, <1>2 DEF Parts
  <2>2. DOMAIN db[r] \subseteq Routers \ {r} /\ \A o \in DOMAIN db[r] : db[r][o] \in EntryOf(o)
    BY <2>1 DEF DbOk
  <2>3. \A o \in DOMAIN db[r] : /\ db[r][o].adv \subseteq Full(o) \cup {Garbage}
                                /\ db[r][o].num \in - Window .. Window + 1
                                /\ db[r][o].age \in 0 .. DbTimeout + 1
    BY <2>2 DEF EntryOf, Nums
  <2> QED
    BY <1>1, <2>1, <2>2, <2>3 DEF NbrOk, SendOk, Threads, Tables
<1>3. ASSUME NEW m \in net PROVE m.at \in Peers(m.from) /\ m.num # - Window
  <2>1. LsuOk(m) /\ m.num > - (2 * Degree(m.org))
    BY <1>1, <1>3 DEF Lsus, Turns, NumsLeft
  <2>2. m.org \in Routers /\ m.num \in Int /\ m.at \in Peers(m.from)
    BY <2>1 DEF LsuOk, Lsu, Nums
  <2>3. PICK d \in Nat : d = Degree(m.org) /\ 2 * d <= Window
    BY <2>2, FewPeers DEF Degree
  <2>4. Window \in Nat
    BY Network
  <2> QED
    BY <2>1, <2>2, <2>3, <2>4
<1> QED
  BY <1>1, <1>2, <1>3 DEF TypeOK, Flags

-----------------------------------------------------------------------------
(* The operators.                                                           *)

\* A function with one more argument, and with one less.
LEMMA WithIs ==
  ASSUME NEW f, NEW x, NEW val
  PROVE  /\ DOMAIN With(f, x, val) = DOMAIN f \cup {x} /\ With(f, x, val)[x] = val
         /\ \A y \in DOMAIN f : y # x => With(f, x, val)[y] = f[y]
  BY DEF With

\* ... and the rest is as it was.
LEMMA WithoutIs ==
  ASSUME NEW f, NEW x
  PROVE  /\ DOMAIN Without(f, x) = DOMAIN f \ {x}
         /\ \A y \in DOMAIN f : y # x => Without(f, x)[y] = f[y]
  BY DEF Without

\* What To has after the first i interfaces.
Picked(r, set, f) ==
  f = [i \in 0 .. Len(Ifaces[r]) |->
         IF i = 0 THEN <<>>
         ELSE IF Ifaces[r][i] \in set THEN Append(f[i - 1], Ifaces[r][i]) ELSE f[i - 1]]

\* There is such a list for every number of interfaces, and To has the last.
LEMMA ToPicks ==
  ASSUME NEW r \in Routers, NEW set
  PROVE  \E f : Picked(r, set, f) /\ To(r, set) = f[Len(Ifaces[r])]
<1>0. Ifaces[r] \in Seq(Nat)
  BY MospfAssumption
<1>a. PICK n \in Nat : n = Len(Ifaces[r])
  BY <1>0
<1>1. PICK s \in [1 .. n -> Nat] : n = Len(Ifaces[r]) /\ s = Ifaces[r]
  BY <1>0, <1>a
<1> DEFINE D == Seq(Nat)
           step == [x \in Nat \X D |-> IF x[1] \in 1 .. n
                                       THEN IF s[x[1]] \in set THEN Append(x[2], s[x[1]]) ELSE x[2]
                                       ELSE <<>>]
<1>2. step \in [Nat \X D -> D]
  <2>1. \A i \in Nat, t \in D : (IF i \in 1 .. n THEN IF s[i] \in set THEN Append(t, s[i]) ELSE t ELSE <<>>) \in D
    BY <1>1
  <2> HIDE DEF D
  <2> QED
    BY <2>1
<1>3. \A i \in 1 .. n : \A t \in D : step[<<i, t>>] = IF s[i] \in set THEN Append(t, s[i]) ELSE t
  <2> HIDE DEF D
  <2> QED
    OBVIOUS
<1>4. <<>> \in D
  OBVIOUS
<1> HIDE DEF D, step
<1>5. PICK f \in [0 .. n -> D] : Iterates(f, <<>>, step, n)
  BY <1>1, <1>2, <1>4, Iteration
<1>6. f = [i \in 0 .. n |-> IF i = 0 THEN <<>> ELSE IF s[i] \in set THEN Append(f[i - 1], s[i]) ELSE f[i - 1]]
  <2>1. ASSUME NEW i \in 0 .. n, i # 0 PROVE f[i] = IF s[i] \in set THEN Append(f[i - 1], s[i]) ELSE f[i - 1]
    <3>1. i \in 1 .. n /\ i - 1 \in 0 .. n
      BY <1>1, <2>1
    <3>2. f[i] = step[<<i, f[i - 1]>>] /\ f[i - 1] \in D
      BY <1>5, <3>1 DEF Iterates
    <3> QED
      BY <1>3, <3>1, <3>2
  <2>2. f[0] = <<>>
    BY <1>5 DEF Iterates
  <2> QED
    BY <2>1, <2>2
<1>7. \E g : Picked(r, set, g)
  BY <1>1, <1>6 DEF Picked
<1>8. To(r, set) = (CHOOSE g : Picked(r, set, g))[Len(Ifaces[r])]
  BY Zenon DEF To, Picked
<1> QED
  BY <1>7, <1>8

\* Its interfaces are to the vertices of the set, and to each but once.
LEMMA ToIs ==
  ASSUME NEW r \in Routers, NEW set
  PROVE  /\ To(r, set) \in Seq(Nat) /\ ToSet(To(r, set)) = Full(r) \cap set
         /\ IsInjective(To(r, set))
<1>0. Ifaces[r] \in Seq(Nat) /\ IsInjective(Ifaces[r])
  BY MospfAssumption
<1>a. PICK n \in Nat : n = Len(Ifaces[r])
  BY <1>0
<1>1. PICK s \in [1 .. n -> Nat] : n = Len(Ifaces[r]) /\ s = Ifaces[r]
  BY <1>0, <1>a
<1>2. PICK f : Picked(r, set, f) /\ To(r, set) = f[n]
  BY <1>1, ToPicks
<1>3. f[0] = <<>> /\ \A i \in 1 .. n : f[i] = IF s[i] \in set THEN Append(f[i - 1], s[i]) ELSE f[i - 1]
  <2>1. f = [i \in 0 .. n |-> IF i = 0 THEN <<>> ELSE IF s[i] \in set THEN Append(f[i - 1], s[i]) ELSE f[i - 1]]
    BY <1>1, <1>2 DEF Picked
  <2>2. \A i \in 0 .. n : f[i] = IF i = 0 THEN <<>> ELSE IF s[i] \in set THEN Append(f[i - 1], s[i]) ELSE f[i - 1]
    BY <2>1
  <2>3. 0 \in 0 .. n /\ \A i \in 1 .. n : i \in 0 .. n /\ i # 0
    BY <1>1
  <2> QED
    BY <2>2, <2>3
<1> DEFINE Fine(i) == /\ f[i] \in Seq(Nat) /\ IsInjective(f[i])
                       /\ \A x : x \in ToSet(f[i]) <=> \E j \in 1 .. i : x = s[j] /\ x \in set
           S == {i \in Nat : i \in 0 .. n => Fine(i)}
<1>4. 0 \in S
  <2>1. <<>> \in Seq(Nat) /\ IsInjective(<<>>) /\ ToSet(<<>>) = {}
    BY DEF IsInjective, ToSet
  <2>2. 1 .. 0 = {}
    OBVIOUS
  <2>3. Fine(0)
    BY <1>3, <2>1, <2>2
  <2> QED
    BY <2>3
<1>5. ASSUME NEW i \in S PROVE i + 1 \in S
  <2>1. SUFFICES ASSUME i + 1 \in 0 .. n PROVE Fine(i + 1)
    OBVIOUS
  <2>2. i + 1 \in 1 .. n /\ i \in 0 .. n /\ i + 1 - 1 = i
    BY <1>1, <2>1
  <2>3. PICK t \in Seq(Nat) : t = f[i]
    BY <2>2
  <2>4. PICK v \in Nat : v = s[i + 1]
    BY <1>1, <2>2
  <2>5. IsInjective(t) /\ \A x : x \in ToSet(t) <=> \E j \in 1 .. i : x = s[j] /\ x \in set
    BY <2>2, <2>3
  <2>6. f[i + 1] = IF v \in set THEN Append(t, v) ELSE t
    BY <1>3, <2>2, <2>3, <2>4
  <2>7. \A x : (\E j \in 1 .. i + 1 : x = s[j] /\ x \in set) <=> (\E j \in 1 .. i : x = s[j] /\ x \in set) \/ (x = v /\ x \in set)
    BY <2>2, <2>4
  <2>8. CASE v \notin set
    BY <2>3, <2>5, <2>6, <2>7, <2>8
  <2>9. CASE v \in set
    <3>0. PICK l \in Nat : l = Len(t)
      OBVIOUS
    <3>1. PICK u \in Seq(Nat) : l = Len(t) /\ u = Append(t, v)
      <4>1. Append(t, v) \in Seq(Nat)
        BY AppendProperties
      <4> QED
        BY <3>0, <4>1
    <3>2. /\ DOMAIN t = 1 .. l /\ DOMAIN u = 1 .. l + 1 /\ u[l + 1] = v /\ \A j \in 1 .. l : u[j] = t[j]
      BY <3>1
    <3>3. \A x : x \in ToSet(u) <=> x \in ToSet(t) \/ x = v
      <4> TAKE x
      <4>1. x \in ToSet(u) <=> \E j \in 1 .. l + 1 : u[j] = x
        BY <3>2 DEF ToSet
      <4>2. x \in ToSet(t) <=> \E j \in 1 .. l : t[j] = x
        BY <3>2 DEF ToSet
      <4>3. l + 1 \in 1 .. l + 1 /\ \A j \in 1 .. l + 1 : j = l + 1 \/ j \in 1 .. l
        OBVIOUS
      <4>4. \A j \in 1 .. l : j \in 1 .. l + 1
        OBVIOUS
      <4> QED
        BY <3>2, <4>1, <4>2, <4>3, <4>4
    <3>4. v \notin ToSet(t)
      <4> SUFFICES ASSUME NEW j \in 1 .. i, v = s[j] PROVE FALSE
        BY <2>5
      <4>1. j \in 1 .. n /\ j # i + 1
        BY <2>2
      <4> QED
        BY <1>0, <1>1, <2>2, <2>4, <4>1 DEF IsInjective
    <3>5. \A j \in 1 .. l : t[j] # v
      BY <3>2, <3>4 DEF ToSet
    <3>6. IsInjective(u)
      <4> SUFFICES ASSUME NEW j \in 1 .. l + 1, NEW k \in 1 .. l + 1, u[j] = u[k] PROVE j = k
        BY <3>2 DEF IsInjective
      <4>1. \A p \in 1 .. l + 1 : p = l + 1 \/ p \in 1 .. l
        OBVIOUS
      <4> QED
        BY <2>5, <3>2, <3>5, <4>1 DEF IsInjective
    <3>7. f[i + 1] = u
      BY <2>6, <2>9, <3>1
    <3> QED
      BY <2>5, <2>7, <2>9, <3>1, <3>3, <3>6, <3>7
  <2> QED
    BY <2>8, <2>9
<1>6. S = Nat
  <2> HIDE DEF S
  <2>1. S \in SUBSET Nat
    BY DEF S
  <2> QED
    BY <1>4, <1>5, <2>1, NatSet
<1>7. Fine(n)
  <2>1. n \in S
    <3> HIDE DEF S
    <3> QED
      BY <1>6
  <2>2. n \in 0 .. n
    OBVIOUS
  <2> QED
    BY <2>1, <2>2
<1>8. \A x : x \in ToSet(f[n]) <=> x \in Full(r) \cap set
  <2>1. \A x : x \in Full(r) <=> \E j \in 1 .. n : x = s[j]
    BY <1>1, Neighbours DEF ToSet
  <2> TAKE x
  <2>2. x \in ToSet(f[n]) <=> \E j \in 1 .. n : x = s[j] /\ x \in set
    BY <1>7
  <2>3. x \in Full(r) <=> \E j \in 1 .. n : x = s[j]
    BY <2>1
  <2> QED
    BY <2>2, <2>3
<1>9. ToSet(f[n]) = Full(r) \cap set
  BY <1>8
<1> QED
  BY <1>2, <1>7, <1>9

\* There are no more of them than peers, if they are peers.
LEMMA ToFew ==
  ASSUME NEW r \in Routers, NEW set \in SUBSET Peers(r), NEW k, k = Len(To(r, set))
  PROVE  k \in Nat /\ k <= Degree(r)
<1> DEFINE t == To(r, set)
<1>1. t \in Seq(Nat) /\ ToSet(t) = Full(r) \cap set /\ IsInjective(t)
  BY ToIs
<1>2. t \in [1 .. k -> Nat] /\ k \in Nat
  BY <1>1
<1> HIDE DEF t
<1>3. \A i \in 1 .. k : t[i] \in Peers(r)
  <2>1. \A i \in 1 .. k : t[i] \in ToSet(t)
    BY <1>2 DEF ToSet
  <2> QED
    BY <1>1, <2>1
<1>4. t \in Injection(1 .. k, Peers(r))
  <2>1. t \in [1 .. k -> Peers(r)]
    BY <1>2, <1>3
  <2> QED
    BY <1>1, <2>1, Zenon DEF Injection
<1>5. Cardinality(1 .. k) <= Cardinality(Peers(r))
  BY <1>4, FewPeers, FS_Injection
<1>6. Cardinality(1 .. k) = k
  <2>1. 1 \in Int /\ k \in Int
    BY <1>2
  <2>2. Cardinality(1 .. k) = IF 1 > k THEN 0 ELSE k - 1 + 1
    BY <2>1, FS_Interval
  <2> QED
    BY <1>2, <2>2
<1> QED
  BY <1>2, <1>5, <1>6 DEF Degree

\* Renumbered numbers are numbers.
LEMMA Renumbers ==
  ASSUME NEW num \in Nums, NEW k \in Nat
  PROVE  Behind(num, k) \in Nums /\ Above(num) \in Nums /\ Above(num) > 0
<1>1. Window \in Nat \ {0}
  BY Network
<1> QED
  BY <1>1 DEF Nums, Behind, Above

-----------------------------------------------------------------------------
(* The routing tables.                                                      *)

\* What is known of the network is in the network.
LEMMA LearnedEdges ==
  ASSUME NEW r \in Routers, NEW d, DbOk(r, d), \A o \in DOMAIN d : Garbage \notin d[o].adv
  PROVE  Learned(d) \subseteq Edges
<1> SUFFICES ASSUME NEW o \in DOMAIN d, NEW v \in d[o].adv PROVE {o, v} \in Edges
  BY DEF Learned
<1>1. o \in Routers /\ d[o] \in EntryOf(o)
  BY DEF DbOk
<1>2. d[o].adv \subseteq Full(o) \cup {Garbage}
  BY <1>1 DEF EntryOf
<1> QED
  BY <1>1, <1>2, Neighbours

\* What deal_rtable makes of it too.
LEMMA DrawnEdges ==
  ASSUME NEW r \in Routers, NEW g \in SUBSET Edges, NEW d, NEW n, DbOk(r, d), DOMAIN n \subseteq Peers(r),
         \A o \in DOMAIN d : Garbage \notin d[o].adv
  PROVE  Drawn(r, g, d, n) \subseteq Edges
<1>1. Learned(d) \subseteq Edges
  BY LearnedEdges
<1>2. \A v \in OwnLans(r) \cup DOMAIN n : {r, v} \in Edges
  BY Neighbours
<1> QED
  BY <1>1, <1>2 DEF Drawn

\* The table of all shortest paths holds those of the graph g from r.
LEMMA HopsInIs ==
  ASSUME NEW r \in Routers, NEW g \in SUBSET Edges
  PROVE  HopsIn(g, r) = Hops(g, r)
<1> DEFINE Of(q) == [src |-> q, trees |-> {[graph |-> h, hops |-> Hops(h, q)] : h \in SUBSET Edges}]
<1>1. Of(r) \in Trees /\ Of(r).src = r
  BY DEF Trees
<1>2. \A y \in Trees : y.src = r => y = Of(r)
  BY DEF Trees
<1>3. (CHOOSE y \in Trees : y.src = r) = Of(r)
  <2> HIDE DEF Of
  <2> QED
    BY <1>1, <1>2
<1>4. Of(r).trees = {[graph |-> h, hops |-> Hops(h, r)] : h \in SUBSET Edges}
  OBVIOUS
<1> DEFINE In == {[graph |-> h, hops |-> Hops(h, r)] : h \in SUBSET Edges}
           x == CHOOSE x \in In : x.graph = g
<1>5. HopsIn(g, r) = x.hops
  <2> HIDE DEF Of
  <2> QED
    BY <1>3, <1>4 DEF HopsIn
<1>6. \E y \in In : y.graph = g
  <2>1. PICK y : y = [graph |-> g, hops |-> Hops(g, r)]
    OBVIOUS
  <2>2. y \in In /\ y.graph = g
    BY <2>1
  <2> QED
    BY <2>2
<1>7. x \in In /\ x.graph = g
  <2> HIDE DEF In
  <2> QED
    BY <1>6, Zenon
<1>8. \A y \in In : y.graph = g => y.hops = Hops(g, r)
  OBVIOUS
<1> HIDE DEF In, x
<1> QED
  BY <1>5, <1>7, <1>8

\* The table is computed from the shortest paths in the router's graph.
LEMMA ComputedIs ==
  ASSUME NEW r \in Routers, NEW g \in SUBSET Edges, NEW s
  PROVE  Computed(r, g, s) = Table(route[r], Routes(r, Hops(g, r), s, db[r], nbr[r]))
<1> DEFINE T(h) == Table(route[r], Routes(r, h, s, db[r], nbr[r]))
<1>1. Computed(r, g, s) = CHOOSE t \in {T(h) : h \in {HopsIn(g, r)}} : TRUE
  BY DEF Computed
<1>2. {T(h) : h \in {HopsIn(g, r)}} = {T(Hops(g, r))}
  BY HopsInIs
<1> QED
  BY <1>1, <1>2

\* No entry is removed.
LEMMA TableGrows ==
  ASSUME NEW t, NEW n
  PROVE  DOMAIN Table(t, n) = DOMAIN t \cup DOMAIN n
  BY DEF Table

-----------------------------------------------------------------------------
(* The first state.                                                         *)

\* At the start there is nothing on its way and nobody sends.
LEMMA InitInv == ASSUME Init PROVE Inv
<1>1. Shape
  BY DEF Init, Shape
<1>3. Parts
  <2> SUFFICES ASSUME NEW r \in Routers
               PROVE  NbrOk(r, nbr[r]) /\ DbOk(r, db[r]) /\ SendOk(r, sending[r]) /\ r \in up
    BY DEF Parts
  <2>1. NbrOk(r, nbr[r])
    BY Network DEF Init, NbrOk
  <2>2. DbOk(r, db[r])
    <3>1. DOMAIN db[r] = Routers \ {r} /\ \A o \in Routers \ {r} : db[r][o] = [adv |-> Full(o), num |-> 0, age |-> 0]
      BY DEF Init
    <3>2. 0 \in Nums /\ 0 \in 0 .. DbTimeout + 1
      BY Network DEF Nums
    <3>3. \A o \in Routers : [adv |-> Full(o), num |-> 0, age |-> 0] \in EntryOf(o)
      BY <3>2 DEF EntryOf
    <3> QED
      BY <3>1, <3>3 DEF DbOk
  <2>3. SendOk(r, sending[r])
    BY DEF Init, SendOk, Nothing
  <2> QED
    BY <2>1, <2>2, <2>3 DEF Init
<1>4. Tables
  <2> SUFFICES ASSUME NEW r \in Routers
               PROVE  subnets[r] \subseteq graph[r] /\ graph[r] \subseteq Edges /\ DOMAIN Direct(r) \subseteq DOMAIN route[r]
    BY DEF Tables
  <2>1. DOMAIN db[r] = Routers \ {r} /\ \A o \in Routers \ {r} : db[r][o].adv = Full(o)
    BY DEF Init
  <2>2. \A o \in DOMAIN db[r] : Garbage \notin db[r][o].adv
    <3>1. \A o \in Routers : Garbage \notin Full(o)
      BY Network, Neighbours
    <3> QED
      BY <2>1, <3>1
  <2>3. Learned(db[r]) \subseteq Edges
    BY <1>3, <2>2, LearnedEdges DEF Parts
  <2>4. graph[r] = Edges /\ subnets[r] = Learned(db[r])
    BY DEF Init
  <2>5. route[r] = Table(Direct(r), Routes(r, Hops(Edges, r), subnets[r], db[r], nbr[r]))
    BY DEF Init
  <2>6. DOMAIN Direct(r) \subseteq DOMAIN route[r]
    <3>1. PICK n : route[r] = Table(Direct(r), n)
      BY <2>5
    <3>2. DOMAIN route[r] = DOMAIN Direct(r) \cup DOMAIN n
      BY <3>1, TableGrows
    <3> QED
      BY <3>2
  <2> QED
    BY <2>3, <2>4, <2>6
<1>5. Flags
  BY DEF Init, Flags
<1>6. net = {} /\ \A r \in Routers : Walking(r) = {}
  BY DEF Init, Walking, Nothing
<1>7. Lsus
  BY <1>6 DEF Lsus
<1>8. Turns
  BY <1>6 DEF Turns, OneWalks, TwoWalk, WalkersLsus, NumsLeft
<1> QED
  BY <1>1, <1>3, <1>4, <1>5, <1>7, <1>8 DEF Inv

-----------------------------------------------------------------------------
(* The steps of one router that sends nothing.                              *)

\* No thread has gone further and no number of an LSU has changed.
LEMMA TurnsStay ==
  ASSUME Turns, \A r \in Routers : Walking(r)' \subseteq Walking(r),
         \A m \in net' : \E l \in net : m.org = l.org /\ m.num = l.num /\ l.org \in Routers
  PROVE  Turns'
<1>1. OneWalks'
  BY DEF Turns, OneWalks
<1>2. TwoWalk'
  BY DEF Turns, TwoWalk
<1>3. WalkersLsus'
  BY DEF Turns, WalkersLsus
<1>4. NumsLeft'
  <2> SUFFICES ASSUME NEW m \in net'
               PROVE  /\ ~ Pair(m.org)'
                      /\ Walking(m.org)' # {} => m.num > - Degree(m.org)
                      /\ m.num > - (2 * Degree(m.org))
    BY DEF NumsLeft, Degree
  <2>1. PICK l \in net : m.org = l.org /\ m.num = l.num /\ l.org \in Routers
    OBVIOUS
  <2>2. /\ ~ Pair(l.org)
        /\ Walking(l.org) # {} => l.num > - Degree(l.org)
        /\ l.num > - (2 * Degree(l.org))
    BY <2>1 DEF Turns, NumsLeft
  <2>3. Walking(l.org)' \subseteq Walking(l.org)
    BY <2>1
  <2>4. ~ Pair(l.org)'
    BY <2>2, <2>3 DEF Pair
  <2>5. m.org = l.org
    BY <2>1
  <2>6. ~ Pair(m.org)'
    BY <2>4, <2>5 DEF Pair
  <2>7. Walking(m.org)' # {} => Walking(l.org) # {}
    BY <2>3, <2>5
  <2> QED
    BY <2>1, <2>2, <2>6, <2>7
<1> QED
  BY <1>1, <1>2, <1>3, <1>4 DEF Turns

\* Every LSU is of a router.
LEMMA SameLsus ==
  ASSUME Lsus, net' = net
  PROVE  \A m \in net' : \E l \in net : m.org = l.org /\ m.num = l.num /\ l.org \in Routers
  BY DEF Lsus, LsuOk, Lsu

\* checking_db_thread drops an entry.
LEMMA ExpireDbKeeps ==
  ASSUME Inv, NEW r \in Routers, NEW o \in DOMAIN db[r], ExpireDb(r, o)
  PROVE  Inv'
<1>0. Shape /\ Parts /\ Tables /\ Flags /\ Lsus /\ Turns
  BY DEF Inv
<1>1. /\ db' = [db EXCEPT ![r] = Without(@, o)]
      /\ UNCHANGED <<nbr, graph, subnets, route, sending, net, up, fault, spent, bad, crashed>>
      /\ lapsed \in BOOLEAN => lapsed' \in BOOLEAN
  BY DEF ExpireDb
<1>2. Shape'
  BY <1>0, <1>1 DEF Shape
<1>3. Parts'
  <2> SUFFICES ASSUME NEW q \in Routers
               PROVE  DbOk(q, db'[q]) /\ (q \notin up => DOMAIN db'[q] = {})
    BY <1>0, <1>1 DEF Parts
  <2>1. DbOk(q, db[q]) /\ (q \notin up => DOMAIN db[q] = {})
    BY <1>0 DEF Parts
  <2>2. CASE q = r
    <3>1. db'[q] = Without(db[q], o)
      BY <1>0, <1>1, <2>2 DEF Shape
    <3>2. /\ DOMAIN Without(db[q], o) = DOMAIN db[q] \ {o}
          /\ \A y \in DOMAIN db[q] : y # o => Without(db[q], o)[y] = db[q][y]
      BY WithoutIs
    <3> QED
      BY <2>1, <3>1, <3>2 DEF DbOk
  <2>3. CASE q # r
    <3>1. db'[q] = db[q]
      BY <1>0, <1>1, <2>3 DEF Shape
    <3> QED
      BY <2>1, <3>1
  <2> QED
    BY <2>2, <2>3
<1>4. Tables' /\ Flags' /\ Lsus'
  BY <1>0, <1>1 DEF Tables, Flags, Lsus
<1>5. Turns'
  <2>1. \A q \in Routers : Walking(q)' \subseteq Walking(q)
    BY <1>1 DEF Walking
  <2> QED
    BY <1>0, <1>1, <2>1, SameLsus, TurnsStay
<1> QED
  BY <1>2, <1>3, <1>4, <1>5 DEF Inv

\* deal_rtable computes a table.
LEMMA RouteKeeps ==
  ASSUME Inv, NEW r \in Routers, Route(r)
  PROVE  Inv'
<1>0. Shape /\ Parts /\ Tables /\ Flags /\ Lsus /\ Turns
  BY DEF Inv
<1>1. UNCHANGED <<nbr, db, sending, net, up, fault, spent, bad, lapsed>>
  BY DEF Route, env
<1>2. Parts' /\ Lsus'
  BY <1>0, <1>1 DEF Parts, Lsus
<1>3. Turns'
  BY <1>0, <1>1 DEF Turns, OneWalks, TwoWalk, WalkersLsus, NumsLeft, Walking, Pair
<1>4. CASE \E o \in DOMAIN db[r] : Garbage \in db[r][o].adv
  <2>1. crashed' = TRUE /\ UNCHANGED <<graph, subnets, route>>
    BY <1>4 DEF Route
  <2>2. Shape' /\ Tables' /\ Flags'
    BY <1>0, <1>1, <2>1 DEF Shape, Tables, Flags
  <2> QED
    BY <1>2, <1>3, <2>2 DEF Inv
<1>5. CASE ~ \E o \in DOMAIN db[r] : Garbage \in db[r][o].adv
  <2> DEFINE g == Drawn(r, graph[r], db[r], nbr[r])
             s == subnets[r] \cup Learned(db[r])
  <2>1. /\ graph' = [graph EXCEPT ![r] = g]
        /\ subnets' = [subnets EXCEPT ![r] = s]
        /\ route' = [route EXCEPT ![r] = Computed(r, g, s)]
        /\ UNCHANGED crashed
    BY <1>5 DEF Route
  <2>2. /\ subnets[r] \subseteq graph[r] /\ graph[r] \subseteq Edges /\ DOMAIN Direct(r) \subseteq DOMAIN route[r]
        /\ DbOk(r, db[r]) /\ DOMAIN nbr[r] \subseteq Peers(r)
    BY <1>0 DEF Tables, Parts, NbrOk
  <2>3. g \subseteq Edges
    BY <1>5, <2>2, DrawnEdges
  <2>4. s \subseteq g
    BY <2>2 DEF Drawn
  <2>5. DOMAIN route[r] \subseteq DOMAIN Computed(r, g, s)
    <3>1. PICK n : Computed(r, g, s) = Table(route[r], n)
      BY <2>3, ComputedIs
    <3>2. DOMAIN Table(route[r], n) = DOMAIN route[r] \cup DOMAIN n
      BY TableGrows
    <3> QED
      BY <3>1, <3>2
  <2> HIDE DEF g, s
  <2>6. Shape'
    BY <1>0, <1>1, <2>1 DEF Shape
  <2>7. Tables'
    <3> SUFFICES ASSUME NEW q \in Routers
                 PROVE  subnets'[q] \subseteq graph'[q] /\ graph'[q] \subseteq Edges /\ DOMAIN Direct(q) \subseteq DOMAIN route'[q]
      BY DEF Tables, Direct
    <3>1. CASE q = r
      <4>1. graph'[q] = g /\ subnets'[q] = s /\ route'[q] = Computed(r, g, s)
        BY <1>0, <2>1, <3>1 DEF Shape
      <4> QED
        BY <2>2, <2>3, <2>4, <2>5, <3>1, <4>1
    <3>2. CASE q # r
      <4>1. graph'[q] = graph[q] /\ subnets'[q] = subnets[q] /\ route'[q] = route[q]
        BY <1>0, <2>1, <3>2 DEF Shape
      <4> QED
        BY <1>0, <4>1 DEF Tables
    <3> QED
      BY <3>1, <3>2
  <2>8. Flags'
    BY <1>0, <1>1, <2>1 DEF Flags
  <2> QED
    BY <1>2, <1>3, <2>6, <2>7, <2>8 DEF Inv
<1> QED
  BY <1>4, <1>5

\* A thread is due: it has not gone anywhere.
LEMMA DueIs ==
  ASSUME NEW r \in Routers, NEW th \in Threads, DOMAIN sending = Routers, SendOk(r, sending[r]), sending' = Due(r, th)
  PROVE  /\ DOMAIN sending' = Routers /\ \A q \in Routers : q # r => sending'[q] = sending[q]
         /\ SendOk(r, sending'[r]) /\ DOMAIN sending'[r] = DOMAIN sending[r] \cup {th}
         /\ \A q \in Routers : Walking(q)' \subseteq Walking(q)
<1> DEFINE s == With(sending[r], th, [at |-> "count"])
<1>1. /\ DOMAIN sending' = Routers /\ \A q \in Routers : q # r => sending'[q] = sending[q]
      /\ sending'[r] = s
  BY DEF Due
<1>2. /\ DOMAIN s = DOMAIN sending[r] \cup {th} /\ s[th] = [at |-> "count"]
      /\ \A y \in DOMAIN sending[r] : y # th => s[y] = sending[r][y]
  <2> DEFINE c == [at |-> "count"]
  <2> HIDE DEF c
  <2>1. /\ DOMAIN With(sending[r], th, c) = DOMAIN sending[r] \cup {th} /\ With(sending[r], th, c)[th] = c
        /\ \A y \in DOMAIN sending[r] : y # th => With(sending[r], th, c)[y] = sending[r][y]
    BY DEF With
  <2> QED
    BY <2>1 DEF c
<1> HIDE DEF s
<1>3. SendOk(r, s)
  <2>1. s[th] \in Phases(r)
    BY <1>2 DEF Phases
  <2> QED
    BY <1>2, <2>1 DEF SendOk
<1>4. \A q \in Routers : Walking(q)' \subseteq Walking(q)
  <2> SUFFICES ASSUME NEW q \in Routers, NEW y \in DOMAIN sending'[q], sending'[q][y].at # "count"
               PROVE  y \in DOMAIN sending[q] /\ sending[q][y].at # "count"
    BY DEF Walking
  <2>1. CASE q = r
    <3>1. s[th].at = "count"
      BY <1>2
    <3>2. y \in DOMAIN s /\ s[y].at # "count"
      BY <1>1, <2>1
    <3>3. y # th
      BY <3>1, <3>2
    <3> QED
      BY <1>2, <2>1, <3>2, <3>3
  <2>2. CASE q # r
    BY <1>1, <2>2
  <2> QED
    BY <2>1, <2>2
<1> QED
  BY <1>1, <1>2, <1>3, <1>4

\* A hello of a new neighbour.
LEMMA HelloKeeps ==
  ASSUME Inv, NEW r \in Routers, NEW n \in Routers, HandleHello(r, n)
  PROVE  Inv'
<1>0. Shape /\ Parts /\ Tables /\ Flags /\ Lsus /\ Turns
  BY DEF Inv
<1>1. /\ r \in up /\ n \in Peers(r)
      /\ nbr' = [nbr EXCEPT ![r] = With(@, n, 0)] /\ sending' = Due(r, "rx")
      /\ UNCHANGED <<db, graph, subnets, route, net, up, fault, spent, bad, lapsed, crashed>>
  BY DEF HandleHello, Listens, env
<1>2. SendOk(r, sending[r]) /\ NbrOk(r, nbr[r]) /\ DOMAIN sending = Routers
  BY <1>0 DEF Shape, Parts
<1>3. "rx" \in Threads
  BY DEF Threads
<1>4. /\ DOMAIN sending' = Routers /\ \A q \in Routers : q # r => sending'[q] = sending[q]
      /\ SendOk(r, sending'[r]) /\ \A q \in Routers : Walking(q)' \subseteq Walking(q)
  BY <1>1, <1>2, <1>3, DueIs
<1>5. NbrOk(r, nbr'[r])
  <2>1. nbr'[r] = With(nbr[r], n, 0)
    BY <1>0, <1>1 DEF Shape
  <2>2. 0 \in 0 .. NbrTimeout + 1
    BY Network
  <2>3. /\ DOMAIN With(nbr[r], n, 0) = DOMAIN nbr[r] \cup {n} /\ With(nbr[r], n, 0)[n] = 0
        /\ \A y \in DOMAIN nbr[r] : y # n => With(nbr[r], n, 0)[y] = nbr[r][y]
    BY DEF With
  <2> QED
    BY <1>1, <1>2, <2>1, <2>2, <2>3 DEF NbrOk
<1>6. Shape'
  BY <1>0, <1>1, <1>4 DEF Shape
<1>7. Parts'
  <2> SUFFICES ASSUME NEW q \in Routers
               PROVE  /\ NbrOk(q, nbr'[q]) /\ SendOk(q, sending'[q])
                      /\ q \notin up => DOMAIN nbr'[q] = {} /\ DOMAIN sending'[q] = {}
    BY <1>0, <1>1 DEF Parts
  <2>1. CASE q = r
    BY <1>1, <1>4, <1>5, <2>1
  <2>2. CASE q # r
    <3>1. nbr'[q] = nbr[q] /\ sending'[q] = sending[q]
      BY <1>0, <1>1, <1>4, <2>2 DEF Shape
    <3> QED
      BY <1>0, <3>1 DEF Parts
  <2> QED
    BY <2>1, <2>2
<1>8. Tables' /\ Flags' /\ Lsus'
  BY <1>0, <1>1 DEF Tables, Flags, Lsus
<1>9. Turns'
  BY <1>0, <1>1, <1>4, SameLsus, TurnsStay
<1> QED
  BY <1>6, <1>7, <1>8, <1>9 DEF Inv

\* checking_nbr_thread drops a neighbour.
LEMMA ExpireNbrKeeps ==
  ASSUME Inv, NEW r \in Routers, NEW n \in DOMAIN nbr[r], ExpireNbr(r, n)
  PROVE  Inv'
<1>0. Shape /\ Parts /\ Tables /\ Flags /\ Lsus /\ Turns
  BY DEF Inv
<1>1. /\ r \in up
      /\ nbr' = [nbr EXCEPT ![r] = Without(@, n)] /\ sending' = Due(r, "nbr")
      /\ UNCHANGED <<db, graph, subnets, route, net, up, fault, spent, bad, lapsed, crashed>>
  BY DEF ExpireNbr, Turn, env
<1>2. SendOk(r, sending[r]) /\ NbrOk(r, nbr[r]) /\ DOMAIN sending = Routers
  BY <1>0 DEF Shape, Parts
<1>3. "nbr" \in Threads
  BY DEF Threads
<1>4. /\ DOMAIN sending' = Routers /\ \A q \in Routers : q # r => sending'[q] = sending[q]
      /\ SendOk(r, sending'[r]) /\ \A q \in Routers : Walking(q)' \subseteq Walking(q)
  BY <1>1, <1>2, <1>3, DueIs
<1>5. NbrOk(r, nbr'[r])
  <2>1. nbr'[r] = Without(nbr[r], n)
    BY <1>0, <1>1 DEF Shape
  <2>2. /\ DOMAIN Without(nbr[r], n) = DOMAIN nbr[r] \ {n}
        /\ \A y \in DOMAIN nbr[r] : y # n => Without(nbr[r], n)[y] = nbr[r][y]
    BY WithoutIs
  <2> QED
    BY <1>2, <2>1, <2>2 DEF NbrOk
<1>6. Shape'
  BY <1>0, <1>1, <1>4 DEF Shape
<1>7. Parts'
  <2> SUFFICES ASSUME NEW q \in Routers
               PROVE  /\ NbrOk(q, nbr'[q]) /\ SendOk(q, sending'[q])
                      /\ q \notin up => DOMAIN nbr'[q] = {} /\ DOMAIN sending'[q] = {}
    BY <1>0, <1>1 DEF Parts
  <2>1. CASE q = r
    BY <1>1, <1>4, <1>5, <2>1
  <2>2. CASE q # r
    <3>1. nbr'[q] = nbr[q] /\ sending'[q] = sending[q]
      BY <1>0, <1>1, <1>4, <2>2 DEF Shape
    <3> QED
      BY <1>0, <3>1 DEF Parts
  <2> QED
    BY <2>1, <2>2
<1>8. Tables' /\ Flags' /\ Lsus'
  BY <1>0, <1>1 DEF Tables, Flags, Lsus
<1>9. Turns'
  BY <1>0, <1>1, <1>4, SameLsus, TurnsStay
<1> QED
  BY <1>6, <1>7, <1>8, <1>9 DEF Inv

-----------------------------------------------------------------------------
(* send_mospf_lsu.                                                          *)

\* A thread goes on to its next walk.
LEMMA WalksOn ==
  ASSUME NEW r \in Routers, NEW th \in DOMAIN sending[r], NEW p \in Phases(r), p.at # "count",
         DOMAIN sending = Routers, SendOk(r, sending[r]), sending' = [sending EXCEPT ![r][th] = p]
  PROVE  /\ DOMAIN sending' = Routers /\ \A q \in Routers : q # r => sending'[q] = sending[q]
         /\ SendOk(r, sending'[r]) /\ DOMAIN sending'[r] = DOMAIN sending[r]
         /\ \A q \in Routers : q # r => Walking(q)' = Walking(q)
         /\ Walking(r)' = Walking(r) \cup {th}
<1> DEFINE s == [sending[r] EXCEPT ![th] = p]
<1>1. /\ DOMAIN sending' = Routers /\ \A q \in Routers : q # r => sending'[q] = sending[q]
      /\ sending'[r] = s
  OBVIOUS
<1>2. DOMAIN s = DOMAIN sending[r] /\ s[th] = p /\ \A y \in DOMAIN sending[r] : y # th => s[y] = sending[r][y]
  OBVIOUS
<1> HIDE DEF s
<1>3. SendOk(r, s)
  BY <1>2 DEF SendOk
<1>4. \A q \in Routers : q # r => Walking(q)' = Walking(q)
  BY <1>1 DEF Walking
<1>5. Walking(r)' = Walking(r) \cup {th}
  BY <1>1, <1>2 DEF Walking
<1> QED
  BY <1>1, <1>2, <1>3, <1>4, <1>5

\* The parts of a router that do not change, and those of the router whose threads do.
LEMMA SendingParts ==
  ASSUME Parts, NEW r \in Routers, r \in up, SendOk(r, sending'[r]),
         \A q \in Routers : q # r => sending'[q] = sending[q], UNCHANGED <<nbr, db, up>>
  PROVE  Parts'
<1> SUFFICES ASSUME NEW q \in Routers
             PROVE  SendOk(q, sending'[q]) /\ (q \notin up => DOMAIN sending'[q] = {})
  BY DEF Parts
<1>1. CASE q = r
  BY <1>1
<1>2. CASE q # r
  BY <1>2 DEF Parts
<1> QED
  BY <1>1, <1>2

\* The first walk.
LEMMA CountKeeps ==
  ASSUME Inv, NEW r \in Routers, NEW th \in DOMAIN sending[r], Count(r, th)
  PROVE  Inv'
<1>0. Shape /\ Parts /\ Tables /\ Flags /\ Lsus /\ Turns
  BY DEF Inv
<1> DEFINE p == [at |-> "fill", nadv |-> Len(Listed(r))]
<1>1. /\ r \in up /\ net = {} /\ \A q \in Routers : q # r => Walking(q) = {}
      /\ Cardinality(Walking(r)) < 2 /\ sending' = [sending EXCEPT ![r][th] = p]
      /\ UNCHANGED <<nbr, db, graph, subnets, route, net, up, fault, spent, bad, lapsed, crashed>>
  BY DEF Count, Turn, state, env
<1>2. p \in Phases(r) /\ p.at # "count"
  <2>1. Listed(r) \in Seq(Nat)
    BY ToIs DEF Listed
  <2>2. Len(Listed(r)) \in Nat
    BY <2>1
  <2> QED
    BY <2>2 DEF Phases
<1> HIDE DEF p
<1>3. SendOk(r, sending[r]) /\ DOMAIN sending = Routers
  BY <1>0 DEF Parts, Shape
<1>4. /\ DOMAIN sending' = Routers /\ \A q \in Routers : q # r => sending'[q] = sending[q]
      /\ SendOk(r, sending'[r])
      /\ \A q \in Routers : q # r => Walking(q)' = Walking(q)
      /\ Walking(r)' = Walking(r) \cup {th}
  BY <1>1, <1>2, <1>3, WalksOn
<1>5. Shape' /\ Parts'
  BY <1>0, <1>1, <1>4, SendingParts DEF Shape
<1>6. Tables' /\ Flags' /\ Lsus'
  BY <1>0, <1>1 DEF Tables, Flags, Lsus
<1>7. \A a, b \in Walking(r) : a = b
  <2>1. Walking(r) \subseteq Threads
    BY <1>3 DEF Walking, SendOk
  <2>2. IsFiniteSet(Walking(r))
    <3>1. IsFiniteSet(Threads)
      <4>1. IsFiniteSet({"lsu"})
        BY FS_Singleton
      <4>2. IsFiniteSet({"lsu"} \cup {"rx"})
        BY <4>1, FS_AddElement
      <4>3. IsFiniteSet(({"lsu"} \cup {"rx"}) \cup {"nbr"})
        BY <4>2, FS_AddElement
      <4>4. Threads = ({"lsu"} \cup {"rx"}) \cup {"nbr"}
        BY DEF Threads
      <4> QED
        BY <4>3, <4>4
    <3> QED
      BY <2>1, <3>1, FS_Subset
  <2> SUFFICES ASSUME NEW a \in Walking(r), NEW b \in Walking(r), a # b PROVE FALSE
    OBVIOUS
  <2>3. IsFiniteSet({a, b}) /\ Cardinality({a, b}) = 2
    <3>1. IsFiniteSet({a}) /\ Cardinality({a}) = 1
      BY FS_Singleton
    <3>2. IsFiniteSet({a} \cup {b}) /\ Cardinality({a} \cup {b}) = Cardinality({a}) + 1
      BY <3>1, FS_AddElement
    <3>3. {a} \cup {b} = {a, b}
      OBVIOUS
    <3> QED
      BY <3>1, <3>2, <3>3
  <2>4. Cardinality({a, b}) <= Cardinality(Walking(r)) /\ Cardinality(Walking(r)) \in Nat
    BY <2>2, FS_Subset, FS_CardinalityType
  <2> QED
    BY <1>1, <2>3, <2>4
<1>8. Turns'
  <2>1. OneWalks'
    BY <1>1, <1>4 DEF OneWalks
  <2>2. TwoWalk'
    <3> SUFFICES ASSUME NEW q \in Routers, NEW a \in Walking(q)', NEW b \in Walking(q)', NEW c \in Walking(q)'
                 PROVE  a = b \/ b = c \/ a = c
      BY DEF TwoWalk
    <3>1. CASE q = r
      <4>1. {a, b, c} \subseteq Walking(r) \cup {th}
        BY <1>4, <3>1
      <4> QED
        BY <1>7, <4>1
    <3>2. CASE q # r
      BY <1>1, <1>4, <3>2
    <3> QED
      BY <3>1, <3>2
  <2> QED
    BY <1>1, <2>1, <2>2 DEF Turns, WalkersLsus, NumsLeft
<1> QED
  BY <1>5, <1>6, <1>8 DEF Inv

\* The second walk.
LEMMA FillKeeps ==
  ASSUME Inv, NEW r \in Routers, NEW th \in DOMAIN sending[r], Fill(r, th)
  PROVE  Inv'
<1>0. Shape /\ Parts /\ Tables /\ Flags /\ Lsus /\ Turns
  BY DEF Inv
<1>1. UNCHANGED <<nbr, db, graph, subnets, route, net, up, fault, spent, bad, lapsed>>
  BY DEF Fill, state, env
<1>2. SendOk(r, sending[r]) /\ DOMAIN sending = Routers /\ (r \notin up => DOMAIN sending[r] = {})
  BY <1>0 DEF Parts, Shape
<1>3. PICK adv \in SUBSET (Full(r) \cup {Garbage}) : sending' = [sending EXCEPT ![r][th] = [at |-> "send", adv |-> adv]]
  <2> DEFINE n == sending[r][th].nadv
             l == Listed(r)
             s == SubSeq(l, 1, IF n < Len(l) THEN n ELSE Len(l))
  <2>1. PICK x \in IF n > Len(l) THEN Full(r) \cup {Garbage} ELSE {None} :
          sending' = [sending EXCEPT ![r][th] = [at |-> "send", adv |-> (ToSet(s) \cup {x}) \ {None}]]
    BY DEF Fill
  <2>2. l \in Seq(Nat) /\ ToSet(l) \subseteq Full(r)
    BY ToIs DEF Listed
  <2>3. sending[r][th].at = "fill"
    BY DEF Fill
  <2>4. n \in Nat
    <3>1. sending[r][th] \in Phases(r)
      BY <1>2 DEF SendOk
    <3> QED
      BY <2>3, <3>1 DEF Phases
  <2> HIDE DEF n, l
  <2>5. ToSet(s) \subseteq ToSet(l)
    BY <2>2, <2>4 DEF ToSet
  <2> HIDE DEF s
  <2> QED
    BY <2>1, <2>2, <2>5
<1> DEFINE p == [at |-> "send", adv |-> adv]
<1>4. p \in Phases(r) /\ p.at # "count"
  BY DEF Phases
<1>5. sending' = [sending EXCEPT ![r][th] = p]
  BY <1>3
<1> HIDE DEF p
<1>6. /\ DOMAIN sending' = Routers /\ \A q \in Routers : q # r => sending'[q] = sending[q]
      /\ SendOk(r, sending'[r])
      /\ \A q \in Routers : q # r => Walking(q)' = Walking(q)
      /\ Walking(r)' = Walking(r) \cup {th}
  BY <1>2, <1>4, <1>5, WalksOn
<1>7. r \in up
  BY <1>2
<1>8. Shape' /\ Parts'
  BY <1>0, <1>1, <1>6, <1>7, SendingParts DEF Shape
<1>9. crashed' \in BOOLEAN
  BY DEF Fill
<1>10. Tables' /\ Flags' /\ Lsus'
  BY <1>0, <1>1, <1>9 DEF Tables, Flags, Lsus
<1>11. \A q \in Routers : Walking(q)' \subseteq Walking(q)
  <2>1. th \in Walking(r)
    BY DEF Fill, Walking
  <2> QED
    BY <1>6, <2>1
<1>12. Turns'
  BY <1>0, <1>1, <1>11, SameLsus, TurnsStay
<1> QED
  BY <1>8, <1>10, <1>12 DEF Inv

-----------------------------------------------------------------------------
(* LSUs.                                                                    *)

\* A copy of an LSU goes on to n.
Copy(m, n) == [m EXCEPT !.at = n, !.from = m.at, !.hops = @ + 1]

\* It is an LSU, with the content of the one that came.
LEMMA CopyIs ==
  ASSUME NEW m \in Lsu, NEW n \in Routers
  PROVE  /\ Copy(m, n) \in Lsu /\ Copy(m, n).at = n /\ Copy(m, n).from = m.at /\ Copy(m, n).org = m.org
         /\ Copy(m, n).num = m.num /\ Copy(m, n).adv = m.adv /\ Copy(m, n).hops = m.hops + 1
<1> DEFINE c == [m EXCEPT !.at = n, !.from = m.at, !.hops = @ + 1]
           d == [at |-> n, from |-> m.at, org |-> m.org, num |-> m.num, adv |-> m.adv, hops |-> m.hops + 1]
<1>1. c = d
  <2>1. DOMAIN m = {"at", "from", "org", "num", "adv", "hops"}
    BY DEF Lsu
  <2>2. /\ DOMAIN c = DOMAIN m /\ DOMAIN d = {"at", "from", "org", "num", "adv", "hops"}
        /\ c = [x \in DOMAIN c |-> c[x]] /\ d = [x \in DOMAIN d |-> d[x]]
    BY DEF Lsu
  <2>3. c.at = n /\ c.from = m.at /\ c.org = m.org /\ c.num = m.num /\ c.adv = m.adv /\ c.hops = m.hops + 1
    BY <2>1
  <2>4. \A x \in DOMAIN c : c[x] = d[x]
    <3>1. d.at = n /\ d.from = m.at /\ d.org = m.org /\ d.num = m.num /\ d.adv = m.adv /\ d.hops = m.hops + 1
      OBVIOUS
    <3> HIDE DEF c, d
    <3> QED
      BY <2>1, <2>2, <2>3, <3>1
  <2> HIDE DEF c, d
  <2> QED
    BY <2>1, <2>2, <2>4
<1>2. d \in Lsu
  BY DEF Lsu
<1> QED
  BY <1>1, <1>2 DEF Copy

\* The database after an LSU.
LEMMA UpdatedIs ==
  ASSUME NEW r \in Routers, NEW d, DbOk(r, d), NEW m, LsuOk(m), m.at = r
  PROVE  DbOk(r, Updated(d, m))
<1> DEFINE e == [adv |-> m.adv, num |-> m.num, age |-> 0]
<1>1. m.org \in Routers \ {r} /\ m.num \in Nums /\ m.adv \subseteq Full(m.org) \cup {Garbage}
  BY DEF LsuOk, Lsu
<1>2. e \in EntryOf(m.org)
  <2>1. 0 \in 0 .. DbTimeout + 1
    BY Network
  <2> QED
    BY <1>1, <2>1 DEF EntryOf
<1>3. Updated(d, m) = d \/ Updated(d, m) = With(d, m.org, e)
  BY DEF Updated
<1> HIDE DEF e
<1>4. DbOk(r, With(d, m.org, e))
  <2>1. /\ DOMAIN With(d, m.org, e) = DOMAIN d \cup {m.org} /\ With(d, m.org, e)[m.org] = e
        /\ \A y \in DOMAIN d : y # m.org => With(d, m.org, e)[y] = d[y]
    BY DEF With
  <2> QED
    BY <1>1, <1>2, <2>1 DEF DbOk
<1> QED
  BY <1>3, <1>4

\* What handle_mospf_lsu sends on.
LEMMA ForwardIs ==
  ASSUME NEW m \in net, HandleLsu(m), DOMAIN db = Routers, m.at \in Routers
  PROVE  /\ m.at \in up /\ DOMAIN db' = Routers /\ db'[m.at] = Updated(db[m.at], m)
         /\ \A q \in Routers : q # m.at => db'[q] = db[q]
         /\ crashed' \in {crashed, TRUE}
         /\ \A l \in net' : l \in net \/ \E n \in DOMAIN nbr[m.at] \ {m.from, m.org} : l = Copy(m, n)
         /\ UNCHANGED <<nbr, graph, subnets, route, sending, up, fault, spent, bad, lapsed>>
<1>1. m.at \in up /\ DOMAIN db' = Routers /\ db'[m.at] = Updated(db[m.at], m)
      /\ \A q \in Routers : q # m.at => db'[q] = db[q]
  BY DEF HandleLsu, Listens
<1>2. UNCHANGED <<nbr, graph, subnets, route, sending, up, fault, spent, bad, lapsed>>
  BY DEF HandleLsu, env
<1>3. CASE Fatal(m.at, ForwardTo(m.at, m))
  <2>1. crashed' = TRUE /\ net' = net
    BY <1>3 DEF HandleLsu
  <2> QED
    BY <1>1, <1>2, <2>1
<1>4. CASE ~ Fatal(m.at, ForwardTo(m.at, m))
  <2>1. /\ crashed' = crashed
        /\ net' = (net \ {m}) \cup {[m EXCEPT !.at = n, !.from = m.at, !.hops = @ + 1] : n \in ForwardTo(m.at, m) \cap up}
    BY <1>4 DEF HandleLsu
  <2>2. \A l \in net' : l \in net \/ \E n \in DOMAIN nbr[m.at] \ {m.from, m.org} : l = Copy(m, n)
    BY <2>1 DEF ForwardTo, Copy
  <2> QED
    BY <1>1, <1>2, <2>1, <2>2
<1> QED
  BY <1>3, <1>4

\* An LSU is taken into the database and forwarded.
LEMMA HandleLsuKeeps ==
  ASSUME Inv, NEW m \in net, HandleLsu(m)
  PROVE  Inv'
<1>0. Shape /\ Parts /\ Tables /\ Flags /\ Lsus /\ Turns
  BY DEF Inv
<1>1. LsuOk(m) /\ m \in Lsu /\ m.at \in Routers /\ m.org \in Routers
  BY <1>0 DEF Lsus, LsuOk, Lsu
<1>2. /\ m.at \in up /\ DOMAIN db' = Routers /\ db'[m.at] = Updated(db[m.at], m)
      /\ \A q \in Routers : q # m.at => db'[q] = db[q]
      /\ crashed' \in {crashed, TRUE}
      /\ \A l \in net' : l \in net \/ \E n \in DOMAIN nbr[m.at] \ {m.from, m.org} : l = Copy(m, n)
      /\ UNCHANGED <<nbr, graph, subnets, route, sending, up, fault, spent, bad, lapsed>>
  BY <1>0, <1>1, ForwardIs DEF Shape
<1>3. Shape'
  BY <1>0, <1>2 DEF Shape
<1>4. Parts'
  <2> SUFFICES ASSUME NEW q \in Routers
               PROVE  DbOk(q, db'[q]) /\ (q \notin up => DOMAIN db'[q] = {})
    BY <1>0, <1>2 DEF Parts
  <2>1. CASE q = m.at
    <3>1. DbOk(q, db[q])
      BY <1>0 DEF Parts
    <3> QED
      BY <1>1, <1>2, <2>1, <3>1, UpdatedIs
  <2>2. CASE q # m.at
    BY <1>0, <1>2, <2>2 DEF Parts
  <2> QED
    BY <2>1, <2>2
<1>5. Tables' /\ Flags'
  BY <1>0, <1>2 DEF Tables, Flags
<1>6. ASSUME NEW l \in net', l \notin net
      PROVE  LsuOk(l) /\ l.org = m.org /\ l.num = m.num
  <2>1. PICK n \in DOMAIN nbr[m.at] \ {m.from, m.org} : l = Copy(m, n)
    BY <1>2, <1>6
  <2>2. n \in Peers(m.at) /\ n \in Routers
    BY <1>0, <1>1, Neighbours DEF Parts, NbrOk
  <2>3. /\ Copy(m, n) \in Lsu /\ Copy(m, n).at = n /\ Copy(m, n).from = m.at /\ Copy(m, n).org = m.org
        /\ Copy(m, n).num = m.num /\ Copy(m, n).adv = m.adv
    BY <1>1, <2>2, CopyIs
  <2> QED
    BY <1>1, <2>1, <2>2, <2>3 DEF LsuOk
<1>7. Lsus'
  BY <1>0, <1>6 DEF Lsus
<1>8. Turns'
  <2>1. \A l \in net' : \E k \in net : l.org = k.org /\ l.num = k.num /\ k.org \in Routers
    BY <1>0, <1>1, <1>6 DEF Lsus, LsuOk, Lsu
  <2>2. \A r \in Routers : Walking(r)' \subseteq Walking(r)
    BY <1>2 DEF Walking
  <2> QED
    BY <1>0, <2>1, <2>2, TurnsStay
<1> QED
  BY <1>3, <1>4, <1>5, <1>7, <1>8 DEF Inv

\* An LSU is lost.
LEMMA LoseKeeps ==
  ASSUME Inv, NEW m \in net, Lose(m)
  PROVE  Inv'
<1>0. Shape /\ Parts /\ Tables /\ Flags /\ Lsus /\ Turns
  BY DEF Inv
<1>1. /\ net' \subseteq net
      /\ UNCHANGED <<nbr, db, graph, subnets, route, sending, up, fault, bad, lapsed, crashed>> /\ spent' = TRUE
  BY DEF Lose, state
<1>2. Shape' /\ Parts' /\ Tables' /\ Flags'
  BY <1>0, <1>1 DEF Shape, Parts, Tables, Flags
<1>3. Lsus'
  BY <1>0, <1>1 DEF Lsus
<1>4. Turns'
  <2>1. \A l \in net' : \E k \in net : l.org = k.org /\ l.num = k.num /\ k.org \in Routers
    BY <1>0, <1>1 DEF Lsus, LsuOk, Lsu
  <2>2. \A r \in Routers : Walking(r)' \subseteq Walking(r)
    BY <1>1 DEF Walking
  <2> QED
    BY <1>0, <2>1, <2>2, TurnsStay
<1> QED
  BY <1>2, <1>3, <1>4 DEF Inv

-----------------------------------------------------------------------------
(* Steps of all routers.                                                    *)

\* Between two floods nothing is on its way and nobody sends.
LEMMA QuietIs ==
  ASSUME Quiet
  PROVE  net = {} /\ \A r \in Routers : DOMAIN sending[r] = {} /\ Walking(r) = {}
  BY DEF Quiet, Nothing, Walking

\* With nothing on its way there is little to say.
LEMMA NoTurns ==
  ASSUME net' = {}, \A r \in Routers : Walking(r)' = {}
  PROVE  Lsus' /\ Turns'
  BY DEF Lsus, Turns, OneWalks, TwoWalk, WalkersLsus, NumsLeft

\* A second older.
LEMMA OlderIs ==
  ASSUME NEW o, NEW e \in EntryOf(o), e.age <= DbTimeout
  PROVE  [e EXCEPT !.age = @ + 1] \in EntryOf(o)
<1>1. e.age + 1 \in 0 .. DbTimeout + 1
  BY Network DEF EntryOf
<1> QED
  BY <1>1 DEF EntryOf

\* A period passes.
LEMMA TickKeeps ==
  ASSUME Inv, Tick
  PROVE  Inv'
<1>0. Shape /\ Parts /\ Tables /\ Flags /\ Lsus /\ Turns
  BY DEF Inv
<1>1. /\ \A r \in up : Stale(r) = {} /\ Silent(r) = {}
      /\ UNCHANGED <<graph, subnets, route, net, up, fault, spent, lapsed, crashed>>
  BY DEF Tick
<1>2. net = {}
  BY QuietIs DEF Tick
<1>3. /\ DOMAIN nbr' = Routers /\ DOMAIN db' = Routers /\ DOMAIN sending' = Routers
  BY DEF Tick
<1>4. Shape'
  BY <1>0, <1>1, <1>3 DEF Shape
<1>5. Parts'
  <2> SUFFICES ASSUME NEW r \in Routers
               PROVE  /\ NbrOk(r, nbr'[r]) /\ DbOk(r, db'[r]) /\ SendOk(r, sending'[r])
                      /\ r \notin up => DOMAIN nbr'[r] = {} /\ DOMAIN db'[r] = {} /\ DOMAIN sending'[r] = {}
    BY <1>1 DEF Parts
  <2>0. /\ NbrOk(r, nbr[r]) /\ DbOk(r, db[r])
        /\ r \notin up => DOMAIN nbr[r] = {} /\ DOMAIN db[r] = {}
    BY <1>0 DEF Parts
  <2>1. /\ DOMAIN nbr'[r] = DOMAIN nbr[r]
        /\ \A n \in DOMAIN nbr[r] : nbr'[r][n] = IF n \in up THEN 0 ELSE nbr[r][n] + 1
    BY DEF Tick
  <2>2. /\ DOMAIN db'[r] = DOMAIN db[r]
        /\ \A o \in DOMAIN db[r] : db'[r][o] = [db[r][o] EXCEPT !.age = @ + 1]
    BY DEF Tick
  <2>3. NbrOk(r, nbr'[r])
    <3>1. \A n \in DOMAIN nbr[r] : nbr[r][n] <= NbrTimeout
      BY <1>1, <2>0, Network DEF Silent, NbrOk
    <3>2. \A n \in DOMAIN nbr[r] : nbr[r][n] \in Nat
      BY <2>0, Network DEF NbrOk
    <3> QED
      BY <2>0, <2>1, <3>1, <3>2, Network DEF NbrOk
  <2>4. DbOk(r, db'[r])
    <3> SUFFICES ASSUME NEW o \in DOMAIN db[r] PROVE db'[r][o] \in EntryOf(o)
      BY <2>0, <2>2 DEF DbOk
    <3>1. db[r][o] \in EntryOf(o)
      BY <2>0 DEF DbOk
    <3>2. db[r][o].age <= DbTimeout
      BY <1>1, <2>0, <3>1, Network DEF Stale, EntryOf
    <3>3. [db[r][o] EXCEPT !.age = @ + 1] \in EntryOf(o)
      BY <3>1, <3>2, OlderIs
    <3> QED
      BY <2>2, <3>3
  <2>5. SendOk(r, sending'[r]) /\ (r \notin up => DOMAIN sending'[r] = {})
    <3>1. sending'[r] = IF r \in up THEN With(Nothing, "lsu", [at |-> "count"]) ELSE Nothing
      BY DEF Tick
    <3> QED
      BY <3>1 DEF With, Nothing, SendOk, Threads, Phases
  <2> QED
    BY <2>0, <2>1, <2>2, <2>3, <2>4, <2>5
<1>6. bad' \in Routers \cup {None}
  BY DEF Tick
<1>7. Tables' /\ Flags'
  BY <1>0, <1>1, <1>6 DEF Tables, Flags
<1>8. \A r \in Routers : Walking(r)' = {}
  <2> SUFFICES ASSUME NEW r \in Routers PROVE \A th \in DOMAIN sending'[r] : sending'[r][th].at = "count"
    BY DEF Walking
  <2>1. sending'[r] = IF r \in up THEN With(Nothing, "lsu", [at |-> "count"]) ELSE Nothing
    BY DEF Tick
  <2> QED
    BY <2>1 DEF With, Nothing
<1>9. Lsus' /\ Turns'
  BY <1>1, <1>2, <1>8, NoTurns
<1> QED
  BY <1>4, <1>5, <1>7, <1>9 DEF Inv

\* A daemon stops.
LEMMA StopKeeps ==
  ASSUME Inv, NEW r \in Routers, Stop(r)
  PROVE  Inv'
<1>0. Shape /\ Parts /\ Tables /\ Flags /\ Lsus /\ Turns
  BY DEF Inv
<1>1. /\ up' = up \ {r} /\ spent' = TRUE /\ nbr' = [nbr EXCEPT ![r] = Nothing]
      /\ db' = [db EXCEPT ![r] = Nothing] /\ graph' = [graph EXCEPT ![r] = {}]
      /\ subnets' = [subnets EXCEPT ![r] = {}] /\ route' = [route EXCEPT ![r] = Direct(r)]
      /\ sending' = [sending EXCEPT ![r] = Nothing] /\ UNCHANGED <<net, fault, bad, lapsed, crashed>>
  BY DEF Stop
<1>2. net = {} /\ \A q \in Routers : Walking(q) = {}
  BY QuietIs DEF Stop
<1>3. Shape'
  BY <1>0, <1>1 DEF Shape
<1>4. Parts'
  <2> SUFFICES ASSUME NEW q \in Routers
               PROVE  /\ NbrOk(q, nbr'[q]) /\ DbOk(q, db'[q]) /\ SendOk(q, sending'[q])
                      /\ q \notin up' => DOMAIN nbr'[q] = {} /\ DOMAIN db'[q] = {} /\ DOMAIN sending'[q] = {}
    BY DEF Parts
  <2>1. CASE q = r
    <3>1. nbr'[q] = Nothing /\ db'[q] = Nothing /\ sending'[q] = Nothing
      BY <1>0, <1>1, <2>1 DEF Shape
    <3> QED
      BY <3>1 DEF Nothing, NbrOk, DbOk, SendOk
  <2>2. CASE q # r
    <3>1. nbr'[q] = nbr[q] /\ db'[q] = db[q] /\ sending'[q] = sending[q]
      BY <1>0, <1>1, <2>2 DEF Shape
    <3>2. q \notin up' => q \notin up
      BY <1>1, <2>2
    <3> QED
      BY <1>0, <3>1, <3>2 DEF Parts
  <2> QED
    BY <2>1, <2>2
<1>5. Tables'
  <2> SUFFICES ASSUME NEW q \in Routers
               PROVE  subnets'[q] \subseteq graph'[q] /\ graph'[q] \subseteq Edges /\ DOMAIN Direct(q) \subseteq DOMAIN route'[q]
    BY DEF Tables, Direct
  <2>1. CASE q = r
    <3>1. graph'[q] = {} /\ subnets'[q] = {} /\ route'[q] = Direct(r)
      BY <1>0, <1>1, <2>1 DEF Shape
    <3> QED
      BY <2>1, <3>1
  <2>2. CASE q # r
    <3>1. graph'[q] = graph[q] /\ subnets'[q] = subnets[q] /\ route'[q] = route[q]
      BY <1>0, <1>1, <2>2 DEF Shape
    <3> QED
      BY <1>0, <3>1 DEF Tables
  <2> QED
    BY <2>1, <2>2
<1>6. Flags'
  BY <1>0, <1>1 DEF Flags
<1>7. \A q \in Routers : Walking(q)' = {}
  <2> SUFFICES ASSUME NEW q \in Routers PROVE Walking(q)' \subseteq Walking(q)
    BY <1>2
  <2>1. CASE q = r
    <3>1. sending'[q] = Nothing
      BY <1>0, <1>1, <2>1 DEF Shape
    <3> QED
      BY <3>1 DEF Nothing, Walking
  <2>2. CASE q # r
    <3>1. sending'[q] = sending[q]
      BY <1>0, <1>1, <2>2 DEF Shape
    <3> QED
      BY <3>1 DEF Walking
  <2> QED
    BY <2>1, <2>2
<1>8. Lsus' /\ Turns'
  BY <1>1, <1>2, <1>7, NoTurns
<1> QED
  BY <1>3, <1>4, <1>5, <1>6, <1>8 DEF Inv

-----------------------------------------------------------------------------
(* New numbers.                                                             *)

\* An entry with another number.
LEMMA EntryRenumbered ==
  ASSUME NEW o, NEW e \in EntryOf(o), NEW x \in Nums
  PROVE  /\ [e EXCEPT !.num = x] \in EntryOf(o) /\ [e EXCEPT !.num = x].num = x
         /\ [e EXCEPT !.num = x].age = e.age /\ [e EXCEPT !.num = x].adv = e.adv
  BY DEF EntryOf

\* An LSU with another number.
LEMMA LsuRenumbered ==
  ASSUME NEW m, LsuOk(m), NEW x \in Nums, NEW l, l = [m EXCEPT !.num = x]
  PROVE  /\ LsuOk(l) /\ l.num = x /\ l.org = m.org /\ l.at = m.at /\ l.from = m.from /\ l.hops = m.hops /\ l.adv = m.adv
<1>1. m \in Lsu
  BY DEF LsuOk
<1>2. l \in Lsu /\ l.num = x /\ l.org = m.org /\ l.at = m.at /\ l.from = m.from /\ l.hops = m.hops /\ l.adv = m.adv
  BY <1>1 DEF Lsu
<1> QED
  BY <1>2 DEF LsuOk

\* The databases of all routers with other numbers of r.
Renumbered(r) ==
  /\ DOMAIN db' = Routers
  /\ \A q \in Routers :
       /\ DOMAIN db'[q] = DOMAIN db[q]
       /\ \A o \in DOMAIN db[q] : o # r => db'[q][o] = db[q][o]
       /\ r \in DOMAIN db[q] => \E x \in Nums : db'[q][r] = [db[q][r] EXCEPT !.num = x]

\* They are databases still.
LEMMA RenumberedIs ==
  ASSUME NEW r \in Routers, Parts, Renumbered(r)
  PROVE  \A q \in Routers : DbOk(q, db'[q]) /\ DOMAIN db'[q] = DOMAIN db[q]
<1> SUFFICES ASSUME NEW q \in Routers PROVE DbOk(q, db'[q]) /\ DOMAIN db'[q] = DOMAIN db[q]
  OBVIOUS
<1>1. DbOk(q, db[q])
  BY DEF Parts
<1>2. /\ DOMAIN db'[q] = DOMAIN db[q]
      /\ \A o \in DOMAIN db[q] : o # r => db'[q][o] = db[q][o]
      /\ r \in DOMAIN db[q] => \E x \in Nums : db'[q][r] = [db[q][r] EXCEPT !.num = x]
  BY DEF Renumbered
<1>3. ASSUME NEW o \in DOMAIN db[q] PROVE db'[q][o] \in EntryOf(o)
  <2>1. db[q][o] \in EntryOf(o)
    BY <1>1 DEF DbOk
  <2>2. CASE o # r
    BY <1>2, <2>1, <2>2
  <2>3. CASE o = r
    <3>1. PICK x \in Nums : db'[q][o] = [db[q][o] EXCEPT !.num = x]
      BY <1>2, <2>3
    <3> QED
      BY <2>1, <3>1, EntryRenumbered
  <2> QED
    BY <2>2, <2>3
<1> QED
  BY <1>1, <1>2, <1>3 DEF DbOk

\* A daemon starts again.
LEMMA StartKeeps ==
  ASSUME Inv, NEW r \in Routers, Start(r)
  PROVE  Inv'
<1>0. Shape /\ Parts /\ Tables /\ Flags /\ Lsus /\ Turns
  BY DEF Inv
<1>1. /\ up' = up \cup {r} /\ sending' = Due(r, "lsu")
      /\ UNCHANGED <<nbr, graph, subnets, route, net, fault, spent, bad, lapsed, crashed>>
  BY DEF Start
<1>2. net = {} /\ \A q \in Routers : Walking(q) = {}
  BY QuietIs DEF Start
<1>3. Renumbered(r)
  <2>1. db' = [q \in Routers |-> [o \in DOMAIN db[q] |->
                 IF o = r THEN [db[q][o] EXCEPT !.num = Above(db[q][o].num)] ELSE db[q][o]]]
    BY DEF Start, RenumberedDb
  <2>2. ASSUME NEW q \in Routers, r \in DOMAIN db[q] PROVE Above(db[q][r].num) \in Nums
    <3>1. db[q][r] \in EntryOf(r)
      BY <1>0, <2>2 DEF Parts, DbOk
    <3>2. db[q][r].num \in Nums /\ 0 \in Nat
      BY <3>1 DEF EntryOf
    <3> QED
      BY <3>2, Renumbers
  <2>3. ASSUME NEW q \in Routers
        PROVE  /\ DOMAIN db'[q] = DOMAIN db[q]
               /\ \A o \in DOMAIN db[q] : o # r => db'[q][o] = db[q][o]
    BY <2>1
  <2>4. ASSUME NEW q \in Routers, r \in DOMAIN db[q]
        PROVE  \E x \in Nums : db'[q][r] = [db[q][r] EXCEPT !.num = x]
    BY <2>1, <2>2, <2>4
  <2>5. DOMAIN db' = Routers
    BY <2>1
  <2> QED
    BY <2>3, <2>4, <2>5 DEF Renumbered
<1>4. \A q \in Routers : DbOk(q, db'[q]) /\ DOMAIN db'[q] = DOMAIN db[q]
  BY <1>0, <1>3, RenumberedIs
<1>5. /\ DOMAIN sending' = Routers /\ \A q \in Routers : q # r => sending'[q] = sending[q]
      /\ SendOk(r, sending'[r]) /\ \A q \in Routers : Walking(q)' \subseteq Walking(q)
  <2>1. SendOk(r, sending[r]) /\ DOMAIN sending = Routers /\ "lsu" \in Threads
    BY <1>0 DEF Parts, Shape, Threads
  <2> QED
    BY <1>1, <2>1, DueIs
<1>6. Shape'
  BY <1>0, <1>1, <1>3, <1>5 DEF Shape, Renumbered
<1>7. Parts'
  <2> SUFFICES ASSUME NEW q \in Routers
               PROVE  /\ NbrOk(q, nbr'[q]) /\ DbOk(q, db'[q]) /\ SendOk(q, sending'[q])
                      /\ q \notin up' => DOMAIN nbr'[q] = {} /\ DOMAIN db'[q] = {} /\ DOMAIN sending'[q] = {}
    BY DEF Parts
  <2>1. /\ NbrOk(q, nbr[q]) /\ SendOk(q, sending[q])
        /\ q \notin up => DOMAIN nbr[q] = {} /\ DOMAIN db[q] = {} /\ DOMAIN sending[q] = {}
    BY <1>0 DEF Parts
  <2>2. CASE q = r
    BY <1>1, <1>4, <1>5, <2>1, <2>2
  <2>3. CASE q # r
    BY <1>1, <1>4, <1>5, <2>1, <2>3
  <2> QED
    BY <2>2, <2>3
<1>8. Tables' /\ Flags'
  BY <1>0, <1>1 DEF Tables, Flags
<1>9. Lsus' /\ Turns'
  BY <1>1, <1>2, <1>5, NoTurns
<1> QED
  BY <1>6, <1>7, <1>8, <1>9 DEF Inv

\* A number after k more have been used, of which w before the counter wraps.
Shifted(num, k, w) == IF w > 0 THEN Above(Behind(num, k)) ELSE Behind(num, k)
Nth(i, k, w) == IF i < w THEN Above(i - k) ELSE i - k

\* The LSU r sends to the i-th of k neighbours.
Sent(r, adv, n, i, k, w) == [at |-> n, from |-> r, org |-> r, num |-> Nth(i, k, w), adv |-> adv, hops |-> 1]

\* What the third walk does when all routes have interfaces.
Sends(r, adv, to, k, w) ==
  /\ db' = [q \in Routers |-> [o \in DOMAIN db[q] |->
              IF o = r THEN [db[q][o] EXCEPT !.num = Shifted(db[q][o].num, k, w)] ELSE db[q][o]]]
  /\ net' = {[m EXCEPT !.num = Shifted(m.num, k, w)] : m \in net}
              \cup {Sent(r, adv, to[i], i, k, w) : i \in {i \in 1 .. k : to[i] \in up}}

\* A thread in its third walk does that, or is the end of the daemon.
LEMMA SendIs ==
  ASSUME NEW r \in Routers, NEW th \in DOMAIN sending[r], Send(r, th), NEW to, to = To(r, DOMAIN nbr[r]), NEW k, k = Len(to)
  PROVE  /\ sending[r][th].at = "send" /\ sending' = [sending EXCEPT ![r] = Without(@, th)]
         /\ UNCHANGED <<nbr, graph, subnets, route, up, fault, bad, lapsed>>
         /\ \E w \in 0 .. k :
              /\ w > 0 => fault = "wrap" /\ ~ spent
              /\ spent' = (spent \/ w > 0)
              /\ \/ Fatal(r, ToSet(to)) /\ crashed' = TRUE /\ UNCHANGED <<db, net>>
                 \/ ~ Fatal(r, ToSet(to)) /\ crashed' = crashed /\ Sends(r, sending[r][th].adv, to, k, w)
<1>1. /\ sending[r][th].at = "send" /\ sending' = [sending EXCEPT ![r] = Without(@, th)]
      /\ UNCHANGED <<nbr, graph, subnets, route, up, fault, bad, lapsed>>
  BY DEF Send
<1> DEFINE t == To(r, DOMAIN nbr[r])
           l == Len(t)
<1>2. PICK w \in 0 .. l :
        /\ w > 0 => fault = "wrap" /\ ~ spent
        /\ spent' = (spent \/ w > 0)
        /\ LET Shift(num) == IF w > 0 THEN Above(Behind(num, l)) ELSE Behind(num, l)
               New(i) == IF i < w THEN Above(i - l) ELSE i - l
           IN  IF Fatal(r, ToSet(t))
               THEN crashed' = TRUE /\ UNCHANGED <<db, net>>
               ELSE /\ db' = RenumberedDb(r, Shift)
                    /\ net' = RenumberedNet(r, Shift) \cup
                         {[at |-> t[i], from |-> r, org |-> r, num |-> New(i),
                           adv |-> sending[r][th].adv, hops |-> 1] :
                            i \in {i \in 1 .. l : t[i] \in up}}
                    /\ UNCHANGED crashed
  BY DEF Send
<1>3. CASE Fatal(r, ToSet(t))
  <2>1. crashed' = TRUE /\ UNCHANGED <<db, net>>
    BY <1>2, <1>3
  <2> HIDE DEF l, t
  <2> QED
    BY <1>1, <1>2, <1>3, <2>1 DEF l, t
<1>4. CASE ~ Fatal(r, ToSet(t))
  <2>1. crashed' = crashed
    BY <1>2, <1>4
  <2>2. Sends(r, sending[r][th].adv, t, l, w)
    BY <1>2, <1>4 DEF Sends, RenumberedDb, RenumberedNet, Shifted, Sent, Nth
  <2>3. to = t /\ k = l
    OBVIOUS
  <2>4. w \in 0 .. l /\ (w > 0 => fault = "wrap" /\ ~ spent) /\ spent' = (spent \/ w > 0)
    BY <1>2
  <2> HIDE DEF l, t
  <2> QED
    BY <1>1, <1>4, <2>1, <2>2, <2>3, <2>4
<1> QED
  BY <1>3, <1>4

\* The numbers that are given stay in the window.
LEMMA ShiftedIs ==
  ASSUME NEW num \in Nums, NEW k \in Nat, NEW w \in Nat
  PROVE  Shifted(num, k, w) \in Nums
<1>1. Behind(num, k) \in Nums
  BY Renumbers
<1>2. Above(Behind(num, k)) \in Nums
  BY <1>1, Renumbers
<1> QED
  BY <1>1, <1>2 DEF Shifted

\* The window is wide enough for the numbers of two threads.
LEMMA ShiftedAbove ==
  ASSUME NEW num \in Nums, NEW d \in Nat, NEW k \in Nat, NEW w \in Nat, k <= d, 2 * d <= Window, num > - d
  PROVE  Shifted(num, k, w) > - (2 * d)
<1>1. Window \in Nat
  BY Network
<1>2. CASE num > 0
  <2>1. Behind(num, k) = num /\ Above(num) = num
    BY <1>2 DEF Behind, Above
  <2> QED
    BY <1>2, <2>1 DEF Shifted, Nums
<1>3. CASE ~ (num > 0)
  <2>1. num \in Int /\ num - k >= - Window
    BY <1>1 DEF Nums
  <2>2. Behind(num, k) = num - k
    BY <1>1, <1>3, <2>1 DEF Behind
  <2>3. num - k \in Nums /\ num - k > - (2 * d)
    BY <1>1, <1>3, <2>1 DEF Nums
  <2>4. Above(num - k) > 0 /\ Above(num - k) \in Int
    BY <2>3, Renumbers DEF Nums
  <2> QED
    BY <2>1, <2>2, <2>3, <2>4 DEF Shifted
<1> QED
  BY <1>2, <1>3

\* A new number is in the window, too.
LEMMA NthIs ==
  ASSUME NEW d \in Nat, NEW k \in Nat, NEW i \in 1 .. k, NEW w \in Nat, k <= d, 2 * d <= Window
  PROVE  Nth(i, k, w) \in Nums /\ Nth(i, k, w) > - d
<1>1. Window \in Nat
  BY Network
<1>2. i - k \in Nums /\ i - k > - d
  BY <1>1 DEF Nums
<1>3. Above(i - k) \in Nums /\ Above(i - k) > 0
  BY <1>2, Renumbers
<1> QED
  BY <1>2, <1>3 DEF Nth, Nums

\* A new LSU.
LEMMA SentOk ==
  ASSUME NEW r \in Routers, NEW adv \in SUBSET (Full(r) \cup {Garbage}), NEW n \in Peers(r), NEW i, NEW k, NEW w,
         Nth(i, k, w) \in Nums, NEW m, m = Sent(r, adv, n, i, k, w)
  PROVE  LsuOk(m) /\ m.org = r /\ m.num = Nth(i, k, w) /\ m.hops = 1 /\ m.at = n /\ m.from = r
<1>1. n \in Routers /\ n # r /\ Full(r) \subseteq Vertices
  BY Neighbours
<1>2. /\ m.at = n /\ m.from = r /\ m.org = r /\ m.num = Nth(i, k, w) /\ m.adv = adv /\ m.hops = 1
  BY DEF Sent
<1>3. m \in Lsu
  BY <1>1 DEF Sent, Lsu, Ends
<1> QED
  BY <1>1, <1>2, <1>3 DEF LsuOk

\* A thread returns from send_mospf_lsu.
LEMMA Returns ==
  ASSUME NEW r \in Routers, NEW th, DOMAIN sending = Routers, SendOk(r, sending[r]),
         sending' = [sending EXCEPT ![r] = Without(@, th)]
  PROVE  /\ DOMAIN sending' = Routers /\ \A q \in Routers : q # r => sending'[q] = sending[q]
         /\ SendOk(r, sending'[r]) /\ DOMAIN sending'[r] = DOMAIN sending[r] \ {th}
         /\ \A q \in Routers : q # r => Walking(q)' = Walking(q)
         /\ Walking(r)' = Walking(r) \ {th}
<1> DEFINE s == Without(sending[r], th)
<1>1. /\ DOMAIN sending' = Routers /\ \A q \in Routers : q # r => sending'[q] = sending[q]
      /\ sending'[r] = s
  OBVIOUS
<1>2. DOMAIN s = DOMAIN sending[r] \ {th} /\ \A y \in DOMAIN sending[r] : y # th => s[y] = sending[r][y]
  BY DEF Without
<1> HIDE DEF s
<1>3. SendOk(r, s)
  BY <1>2 DEF SendOk
<1>4. \A q \in Routers : q # r => Walking(q)' = Walking(q)
  BY <1>1 DEF Walking
<1>5. Walking(r)' = Walking(r) \ {th}
  BY <1>1, <1>2 DEF Walking
<1> QED
  BY <1>1, <1>2, <1>3, <1>4, <1>5

\* What is in the network after the third walk: what was there, and the new LSUs.
SentBy(r, k, w) ==
  \A m \in net' :
    /\ LsuOk(m)
    /\ \/ \E l \in net : m.num = Shifted(l.num, k, w) /\ m.org = l.org /\ m.at = l.at /\ m.from = l.from /\ m.hops = l.hops
       \/ m.num \in Nums /\ m.num > - Degree(r) /\ m.org = r /\ m.from = r /\ m.at \in Peers(r) /\ m.hops = 1

\* The third walk leaves no others.
LEMMA SendsLsus ==
  ASSUME NEW r \in Routers, Lsus, NEW adv \in SUBSET (Full(r) \cup {Garbage}),
         NEW to \in Seq(Nat), ToSet(to) \subseteq Peers(r), NEW k, k = Len(to), NEW w \in Nat,
         k <= Degree(r), Sends(r, adv, to, k, w)
  PROVE  SentBy(r, k, w)
<1> SUFFICES ASSUME NEW m \in net'
             PROVE  /\ LsuOk(m)
                    /\ \/ \E l \in net : m.num = Shifted(l.num, k, w) /\ m.org = l.org /\ m.at = l.at /\ m.from = l.from /\ m.hops = l.hops
                       \/ m.num \in Nums /\ m.num > - Degree(r) /\ m.org = r /\ m.from = r /\ m.at \in Peers(r) /\ m.hops = 1
  BY DEF SentBy
<1>0. k \in Nat
  OBVIOUS
<1>1. \/ \E l \in net : m = [l EXCEPT !.num = Shifted(l.num, k, w)]
      \/ \E i \in 1 .. k : m = Sent(r, adv, to[i], i, k, w)
  BY DEF Sends
<1>2. ASSUME NEW l \in net, m = [l EXCEPT !.num = Shifted(l.num, k, w)]
      PROVE  LsuOk(m) /\ m.num = Shifted(l.num, k, w) /\ m.org = l.org /\ m.at = l.at /\ m.from = l.from /\ m.hops = l.hops
  <2>1. LsuOk(l)
    BY DEF Lsus
  <2>2. l.num \in Nums
    BY <2>1 DEF LsuOk, Lsu
  <2>3. Shifted(l.num, k, w) \in Nums
    BY <1>0, <2>2, ShiftedIs
  <2> QED
    BY <1>2, <2>1, <2>3, LsuRenumbered
<1>3. ASSUME NEW i \in 1 .. k, m = Sent(r, adv, to[i], i, k, w)
      PROVE  LsuOk(m) /\ m.num \in Nums /\ m.num > - Degree(r) /\ m.org = r /\ m.from = r /\ m.at \in Peers(r) /\ m.hops = 1
  <2>1. to[i] \in Peers(r)
    BY DEF ToSet
  <2>2. PICK d \in Nat : d = Degree(r) /\ 2 * d <= Window
    BY FewPeers DEF Degree
  <2>3. Nth(i, k, w) \in Nums /\ Nth(i, k, w) > - d
    BY <1>0, <2>2, NthIs
  <2>4. LsuOk(m) /\ m.org = r /\ m.num = Nth(i, k, w) /\ m.hops = 1 /\ m.at = to[i] /\ m.from = r
    BY <1>3, <2>1, <2>3, SentOk
  <2> QED
    BY <2>1, <2>2, <2>3, <2>4
<1> QED
  BY <1>1, <1>2, <1>3

\* So it is after any third walk.
LEMMA SendSentBy ==
  ASSUME Shape, Parts, Lsus, NEW r \in Routers, NEW th \in DOMAIN sending[r], sending[r][th].at = "send",
         NEW to, to = To(r, DOMAIN nbr[r]), NEW k, k = Len(to), NEW w \in 0 .. k,
         Sends(r, sending[r][th].adv, to, k, w)
  PROVE  SentBy(r, k, w)
<1>1. SendOk(r, sending[r]) /\ DOMAIN nbr[r] \subseteq Peers(r)
  BY DEF Parts, NbrOk
<1>2. PICK adv \in SUBSET (Full(r) \cup {Garbage}) : adv = sending[r][th].adv
  <2>1. sending[r][th] \in Phases(r)
    BY <1>1 DEF SendOk
  <2> QED
    BY <2>1 DEF Phases
<1>3. to \in Seq(Nat) /\ ToSet(to) \subseteq Peers(r) /\ k \in Nat /\ k <= Degree(r)
  <2>1. to \in Seq(Nat) /\ ToSet(to) = Full(r) \cap DOMAIN nbr[r]
    BY ToIs
  <2>2. k \in Nat /\ k <= Degree(r)
    BY <1>1, ToFew
  <2> QED
    BY <1>1, <2>1, <2>2
<1>4. Sends(r, adv, to, k, w) /\ w \in Nat
  BY <1>2, <1>3
<1> QED
  BY <1>3, <1>4, SendsLsus, Zenon

\* The third walk.
LEMMA SendKeeps ==
  ASSUME Inv, NEW r \in Routers, NEW th \in DOMAIN sending[r], Send(r, th)
  PROVE  Inv'
<1>0. Shape /\ Parts /\ Tables /\ Flags /\ Lsus /\ Turns
  BY DEF Inv
<1>1. PICK to : to = To(r, DOMAIN nbr[r])
  OBVIOUS
<1>2. PICK k : k = Len(to)
  OBVIOUS
<1>3. /\ sending[r][th].at = "send" /\ sending' = [sending EXCEPT ![r] = Without(@, th)]
      /\ UNCHANGED <<nbr, graph, subnets, route, up, fault, bad, lapsed>>
      /\ \E w \in 0 .. k :
           /\ w > 0 => fault = "wrap" /\ ~ spent
           /\ spent' = (spent \/ w > 0)
           /\ \/ Fatal(r, ToSet(to)) /\ crashed' = TRUE /\ UNCHANGED <<db, net>>
              \/ ~ Fatal(r, ToSet(to)) /\ crashed' = crashed /\ Sends(r, sending[r][th].adv, to, k, w)
  BY <1>1, <1>2, SendIs
<1>4. /\ SendOk(r, sending[r]) /\ DOMAIN nbr[r] \subseteq Peers(r) /\ DOMAIN sending = Routers
      /\ r \notin up => DOMAIN sending[r] = {}
  BY <1>0 DEF Shape, Parts, NbrOk
<1>5. /\ to \in Seq(Nat) /\ ToSet(to) \subseteq Peers(r) /\ k \in Nat /\ k <= Degree(r)
  <2>1. to \in Seq(Nat) /\ ToSet(to) = Full(r) \cap DOMAIN nbr[r]
    BY <1>1, ToIs
  <2>2. k \in Nat /\ k <= Degree(r)
    BY <1>1, <1>2, <1>4, ToFew
  <2> QED
    BY <1>4, <2>1, <2>2
<1>6. /\ DOMAIN sending' = Routers /\ \A q \in Routers : q # r => sending'[q] = sending[q]
      /\ SendOk(r, sending'[r]) /\ DOMAIN sending'[r] = DOMAIN sending[r] \ {th}
      /\ \A q \in Routers : q # r => Walking(q)' = Walking(q)
      /\ Walking(r)' = Walking(r) \ {th}
  BY <1>3, <1>4, Returns
<1>7. th \in Walking(r) /\ r \in up
  BY <1>3, <1>4 DEF Walking
<1>8. \A q \in Routers : Walking(q)' \subseteq Walking(q)
  BY <1>6
<1>9. Tables'
  BY <1>0, <1>3 DEF Tables
<1>10. CASE UNCHANGED <<db, net>> /\ crashed' = TRUE
  <2>1. Shape' /\ Parts'
    BY <1>0, <1>3, <1>6, <1>7, <1>10, SendingParts DEF Shape
  <2>2. Flags' /\ Lsus'
    BY <1>0, <1>3, <1>10 DEF Flags, Lsus
  <2>3. Turns'
    BY <1>0, <1>8, <1>10, SameLsus, TurnsStay
  <2> QED
    BY <1>9, <2>1, <2>2, <2>3 DEF Inv
<1>11. ASSUME NEW w \in 0 .. k, Sends(r, sending[r][th].adv, to, k, w), crashed' = crashed, spent' \in BOOLEAN
       PROVE  Inv'
  <2>0. w \in Nat
    OBVIOUS
  <2>2. SentBy(r, k, w)
    BY <1>0, <1>1, <1>2, <1>3, <1>11, SendSentBy
  <2>3. Lsus'
    BY <2>2 DEF SentBy, Lsus, LsuOk, Lsu, Nums, Full, Peers, OwnLans
  <2>4. Renumbered(r)
    <3>1. db' = [q \in Routers |-> [o \in DOMAIN db[q] |->
                   IF o = r THEN [db[q][o] EXCEPT !.num = Shifted(db[q][o].num, k, w)] ELSE db[q][o]]]
      BY <1>11 DEF Sends
    <3>2. ASSUME NEW q \in Routers, r \in DOMAIN db[q] PROVE Shifted(db[q][r].num, k, w) \in Nums
      <4>1. db[q][r] \in EntryOf(r)
        BY <1>0, <3>2 DEF Parts, DbOk
      <4>2. db[q][r].num \in Nums
        BY <4>1 DEF EntryOf
      <4> QED
        BY <1>5, <2>0, <4>2, ShiftedIs
    <3>3. ASSUME NEW q \in Routers
          PROVE  /\ DOMAIN db'[q] = DOMAIN db[q]
                 /\ \A o \in DOMAIN db[q] : o # r => db'[q][o] = db[q][o]
      BY <3>1
    <3>4. ASSUME NEW q \in Routers, r \in DOMAIN db[q]
          PROVE  \E x \in Nums : db'[q][r] = [db[q][r] EXCEPT !.num = x]
      BY <3>1, <3>2, <3>4
    <3>5. DOMAIN db' = Routers
      BY <3>1
    <3> QED
      BY <3>3, <3>4, <3>5 DEF Renumbered
  <2>5. \A q \in Routers : DbOk(q, db'[q]) /\ DOMAIN db'[q] = DOMAIN db[q]
    BY <1>0, <2>4, RenumberedIs
  <2>6. Shape'
    BY <1>0, <1>3, <1>6, <2>4 DEF Shape, Renumbered
  <2>7. Parts'
    <3> SUFFICES ASSUME NEW q \in Routers
                 PROVE  /\ SendOk(q, sending'[q])
                        /\ q \notin up => DOMAIN db'[q] = {} /\ DOMAIN sending'[q] = {}
      BY <1>0, <1>3, <2>5 DEF Parts
    <3>1. SendOk(q, sending[q]) /\ (q \notin up => DOMAIN db[q] = {} /\ DOMAIN sending[q] = {})
      BY <1>0 DEF Parts
    <3>2. CASE q = r
      BY <1>6, <1>7, <2>5, <3>1, <3>2
    <3>3. CASE q # r
      BY <1>6, <2>5, <3>1, <3>3
    <3> QED
      BY <3>2, <3>3
  <2>8. Flags'
    BY <1>0, <1>3, <1>11 DEF Flags
  <2>9. OneWalks' /\ TwoWalk'
    BY <1>0, <1>8 DEF Turns, OneWalks, TwoWalk
  <2>10. \A m \in net' : m.org = r
    BY <1>0, <1>7, <2>2 DEF SentBy, Turns, WalkersLsus
  <2>11. WalkersLsus'
    BY <1>0, <1>7, <1>8, <2>10 DEF Turns, OneWalks, WalkersLsus
  <2>12. ~ Pair(r)'
    <3> SUFFICES ASSUME NEW a \in Walking(r) \ {th}, NEW b \in Walking(r) \ {th}, a # b PROVE FALSE
      BY <1>6 DEF Pair
    <3> QED
      BY <1>0, <1>7 DEF Turns, TwoWalk
  <2>13. PICK d \in Nat : d = Degree(r) /\ 2 * d <= Window
    BY FewPeers DEF Degree
  <2>14. ASSUME NEW m \in net'
         PROVE  (Walking(r)' # {} => m.num > - d) /\ m.num > - (2 * d)
    <3>1. CASE m.num \in Nums /\ m.num > - d
      BY <2>13, <3>1 DEF Nums
    <3>2. ASSUME NEW l \in net, m.num = Shifted(l.num, k, w)
          PROVE  (Walking(r)' # {} => m.num > - d) /\ m.num > - (2 * d)
      <4>1. l.org = r /\ l.num \in Nums
        BY <1>0, <1>7 DEF Turns, WalkersLsus, Lsus, LsuOk, Lsu
      <4>2. ~ Pair(r) /\ l.num > - d
        BY <1>0, <1>7, <2>13, <4>1 DEF Turns, NumsLeft
      <4>3. Walking(r)' = {}
        BY <1>6, <1>7, <4>2 DEF Pair
      <4>4. Shifted(l.num, k, w) > - (2 * d)
        BY <1>5, <2>0, <2>13, <4>1, <4>2, ShiftedAbove
      <4> QED
        BY <3>2, <4>3, <4>4
    <3> QED
      BY <2>2, <2>13, <3>1, <3>2 DEF SentBy
  <2>15. NumsLeft'
    <3> SUFFICES ASSUME NEW m \in net'
                 PROVE  /\ ~ Pair(m.org)'
                        /\ Walking(m.org)' # {} => m.num > - Degree(m.org)
                        /\ m.num > - (2 * Degree(m.org))
      BY DEF NumsLeft, Degree, Peers
    <3>1. m.org = r
      BY <2>10
    <3>2. ~ Pair(m.org)'
      BY <2>12, <3>1 DEF Pair
    <3>3. Walking(m.org)' # {} => Walking(r)' # {}
      BY <3>1
    <3> QED
      BY <2>13, <2>14, <3>1, <3>2, <3>3
  <2> QED
    BY <1>9, <2>3, <2>6, <2>7, <2>8, <2>9, <2>11, <2>15 DEF Inv, Turns
<1>12. spent' \in BOOLEAN
  BY <1>0, <1>3 DEF Flags
<1> QED
  BY <1>3, <1>10, <1>11, <1>12

-----------------------------------------------------------------------------
(* The invariant.                                                           *)

\* Every step keeps the invariant.
LEMMA NextInv == ASSUME Inv, [Next]_vars PROVE Inv'
<1>1. CASE UNCHANGED vars
  <2>1. /\ UNCHANGED <<nbr, db, graph, subnets, route>> /\ UNCHANGED <<up, fault, spent, bad, lapsed>>
        /\ UNCHANGED <<sending, net, crashed>>
    BY <1>1 DEF vars, state, env
  <2>2. Shape' /\ Parts' /\ Tables' /\ Flags' /\ Lsus'
    BY <2>1 DEF Inv, Shape, Parts, Tables, Flags, Lsus
  <2>3. \A q \in Routers : Walking(q)' \subseteq Walking(q)
    BY <2>1 DEF Walking
  <2>4. Turns'
    BY <2>1, <2>3, SameLsus, TurnsStay DEF Inv
  <2> QED
    BY <2>2, <2>4 DEF Inv
<1>2. CASE Flood
  <2>1. ASSUME NEW r \in Routers, NEW th \in DOMAIN sending[r], Count(r, th) PROVE Inv'
    BY <2>1, CountKeeps
  <2>2. ASSUME NEW r \in Routers, NEW th \in DOMAIN sending[r], Fill(r, th) PROVE Inv'
    BY <2>2, FillKeeps
  <2>3. ASSUME NEW r \in Routers, NEW th \in DOMAIN sending[r], Send(r, th) PROVE Inv'
    BY <2>3, SendKeeps
  <2>4. ASSUME NEW m \in net, HandleLsu(m) PROVE Inv'
    BY <2>4, HandleLsuKeeps
  <2> QED
    BY <1>2, <2>1, <2>2, <2>3, <2>4 DEF Flood
<1>3. CASE Discover
  BY <1>3, HelloKeeps DEF Discover
<1>4. CASE Expire
  BY <1>4, ExpireNbrKeeps, ExpireDbKeeps DEF Expire
<1>5. CASE Tick
  BY <1>5, TickKeeps
<1>6. CASE Compute
  BY <1>6, RouteKeeps DEF Compute
<1>7. CASE Fault
  BY <1>7, LoseKeeps, StopKeeps, StartKeeps DEF Fault
<1> QED
  BY <1>1, <1>2, <1>3, <1>4, <1>5, <1>6, <1>7 DEF Next, Work

\* The state stays as typed, above all: an LSU on its way is one hop from its
\* sender, and the threads of a router do not use up the window of numbers that the
\* databases tell apart before their LSUs are through.
THEOREM TypeCorrect == Spec => []TypeOK
<1>1. Init => Inv
  BY InitInv
<1>2. Inv /\ [Next]_vars => Inv'
  BY NextInv
<1>3. Inv => TypeOK
  BY InvTypeOK
<1> QED
  BY <1>1, <1>2, <1>3, PTL DEF Spec

-----------------------------------------------------------------------------
(* Hops on a ring.                                                          *)

\* A ring, seen from its first router.
After(i) == IF i = Cardinality(Routers) - 1 THEN 0 ELSE i + 1
Before(i) == IF i = 0 THEN Cardinality(Routers) - 1 ELSE i - 1
Places == 0 .. Cardinality(Routers) - 1
Ring(f) ==
  /\ f \in Bijection(Places, Routers)
  /\ \A i \in Places : Peers(f[i]) \subseteq {f[After(i)], f[Before(i)]}

\* There are routers, if there is a router.
LEMMA SomeRouters ==
  ASSUME NEW r \in Routers
  PROVE  Cardinality(Routers) \in Nat \ {0}
  BY MospfAssumption, FS_CardinalityType, FS_EmptySet

\* What Rings says, with indices in place of remainders.
LEMMA RingIs ==
  ASSUME NEW f, f \in Rings, NEW r \in Routers
  PROVE  Ring(f)
<1>1. PICK N \in Nat \ {0} : N = Cardinality(Routers)
  BY SomeRouters
<1>2. /\ f \in Bijection(Places, Routers) /\ DOMAIN f = Places
      /\ \A i \in Places : Peers(f[i]) \subseteq {f[(i + 1) % N], f[(i - 1) % N]}
  BY <1>1 DEF Rings, Places, Bijection, Injection
<1>3. ASSUME NEW i \in 0 .. N - 1
      PROVE  /\ (i + 1) % N = IF i = N - 1 THEN 0 ELSE i + 1
             /\ (i - 1) % N = IF i = 0 THEN N - 1 ELSE i - 1
  <2>1. CASE i + 1 < N
    BY <2>1
  <2>2. CASE i + 1 = N
    BY <2>2
  <2> QED
    BY <2>1, <2>2
<1>4. \A i \in Places : (i + 1) % N = After(i) /\ (i - 1) % N = Before(i)
  BY <1>1, <1>3 DEF Places, After, Before
<1> QED
  BY <1>2, <1>4 DEF Ring

\* It may be begun anywhere,
LEMMA RingTurned ==
  ASSUME NEW f, Ring(f), NEW r \in Routers
  PROVE  \E g : Ring(g) /\ g[0] = r
<1>1. PICK N \in Nat \ {0} : N = Cardinality(Routers)
  BY SomeRouters
<1>2. PICK j \in 0 .. N - 1 : f[j] = r
  BY <1>1 DEF Ring, Bijection, Surjection, Places
<1> DEFINE Place(i) == IF i + j < N THEN i + j ELSE i + j - N
           g == [i \in 0 .. N - 1 |-> f[Place(i)]]
<1>3. /\ \A i \in 0 .. N - 1 : Place(i) \in 0 .. N - 1
      /\ \A i, k \in 0 .. N - 1 : Place(i) = Place(k) => i = k
      /\ \A p \in 0 .. N - 1 : \E i \in 0 .. N - 1 : Place(i) = p
      /\ Place(0) = j
  <2>1. \A p \in 0 .. N - 1 : \E i \in 0 .. N - 1 : Place(i) = p
    <3> SUFFICES ASSUME NEW p \in 0 .. N - 1 PROVE \E i \in 0 .. N - 1 : Place(i) = p
      OBVIOUS
    <3>1. CASE p >= j
      <4>1. p - j \in 0 .. N - 1 /\ Place(p - j) = p
        BY <3>1
      <4> QED
        BY <4>1
    <3>2. CASE p < j
      <4>1. p - j + N \in 0 .. N - 1 /\ Place(p - j + N) = p
        BY <3>2
      <4> QED
        BY <4>1
    <3> QED
      BY <3>1, <3>2
  <2> QED
    BY <2>1
<1>4. ASSUME NEW i \in 0 .. N - 1
      PROVE  Place(After(i)) = After(Place(i)) /\ Place(Before(i)) = Before(Place(i))
             /\ After(i) \in 0 .. N - 1 /\ Before(i) \in 0 .. N - 1
  BY <1>1 DEF After, Before
<1> HIDE DEF Place
<1>5. /\ f \in [0 .. N - 1 -> Routers] /\ IsInjective(f) /\ \A q \in Routers : \E i \in 0 .. N - 1 : f[i] = q
      /\ \A i \in 0 .. N - 1 : Peers(f[i]) \subseteq {f[After(i)], f[Before(i)]}
  BY <1>1 DEF Ring, Places, Bijection, Injection, Surjection, IsInjective
<1>6. /\ g \in [0 .. N - 1 -> Routers] /\ IsInjective(g)
      /\ \A q \in Routers : \E i \in 0 .. N - 1 : g[i] = q
  <2>1. IsInjective(g)
    <3> SUFFICES ASSUME NEW i \in 0 .. N - 1, NEW k \in 0 .. N - 1, f[Place(i)] = f[Place(k)] PROVE i = k
      BY DEF IsInjective
    <3> QED
      BY <1>3, <1>5 DEF IsInjective
  <2>2. \A q \in Routers : \E i \in 0 .. N - 1 : g[i] = q
    BY <1>3, <1>5
  <2> QED
    BY <1>3, <1>5, <2>1, <2>2
<1>7. ASSUME NEW i \in 0 .. N - 1 PROVE Peers(g[i]) \subseteq {g[After(i)], g[Before(i)]}
  <2>1. Peers(f[Place(i)]) \subseteq {f[After(Place(i))], f[Before(Place(i))]}
    BY <1>3, <1>5
  <2>2. g[i] = f[Place(i)] /\ g[After(i)] = f[Place(After(i))] /\ g[Before(i)] = f[Place(Before(i))]
    BY <1>4
  <2> QED
    BY <1>4, <2>1, <2>2
<1>8. g[0] = r
  <2>1. 0 \in 0 .. N - 1
    OBVIOUS
  <2> QED
    BY <1>2, <1>3, <2>1
<1>9. g \in Bijection(0 .. N - 1, Routers)
  BY <1>6 DEF Bijection, Injection, Surjection, IsInjective
<1> HIDE DEF g
<1>10. Ring(g)
  BY <1>1, <1>7, <1>9 DEF Ring, Places
<1> QED
  BY <1>8, <1>10

\* and gone round in either direction: with a given peer of the first router next.
LEMMA RingFrom ==
  ASSUME NEW f, Ring(f), NEW r \in Routers, NEW n \in Peers(r)
  PROVE  Cardinality(Routers) > 1 /\ \E g : Ring(g) /\ g[0] = r /\ g[1] = n
<1>1. PICK N \in Nat \ {0} : N = Cardinality(Routers)
  BY SomeRouters
<1>2. PICK h : Ring(h) /\ h[0] = r
  BY RingTurned
<1>3. /\ h \in [0 .. N - 1 -> Routers] /\ IsInjective(h) /\ \A q \in Routers : \E i \in 0 .. N - 1 : h[i] = q
      /\ \A i \in 0 .. N - 1 : Peers(h[i]) \subseteq {h[After(i)], h[Before(i)]}
  BY <1>1, <1>2 DEF Ring, Places, Bijection, Injection, Surjection, IsInjective
<1>4. n # r
  BY Neighbours
<1>5. n = h[After(0)] \/ n = h[Before(0)]
  BY <1>2, <1>3
<1>6. N > 1
  BY <1>1, <1>2, <1>4, <1>5 DEF After, Before
<1>7. After(0) = 1 /\ Before(0) = N - 1
  BY <1>1, <1>6 DEF After, Before
<1>8. CASE n = h[1]
  BY <1>1, <1>2, <1>6, <1>8
<1>9. CASE n = h[N - 1]
  <2> DEFINE Place(i) == IF i = 0 THEN 0 ELSE N - i
             g == [i \in 0 .. N - 1 |-> h[Place(i)]]
  <2>1. /\ \A i \in 0 .. N - 1 : Place(i) \in 0 .. N - 1 /\ Place(Place(i)) = i
        /\ Place(0) = 0 /\ Place(1) = N - 1
    BY <1>6
  <2>2. \A i \in 0 .. N - 1 : Place(After(i)) = Before(Place(i)) /\ Place(Before(i)) = After(Place(i))
                              /\ After(i) \in 0 .. N - 1 /\ Before(i) \in 0 .. N - 1
    BY <1>1, <1>6 DEF After, Before
  <2> HIDE DEF Place
  <2>3. g \in [0 .. N - 1 -> Routers] /\ IsInjective(g)
    BY <1>3, <2>1 DEF IsInjective
  <2>4. \A q \in Routers : \E i \in 0 .. N - 1 : g[i] = q
    <3> SUFFICES ASSUME NEW q \in Routers PROVE \E i \in 0 .. N - 1 : g[i] = q
      OBVIOUS
    <3>1. PICK i \in 0 .. N - 1 : h[i] = q
      BY <1>3
    <3>2. Place(i) \in 0 .. N - 1 /\ g[Place(i)] = q
      BY <2>1, <3>1
    <3> QED
      BY <3>2
  <2>5. ASSUME NEW i \in 0 .. N - 1 PROVE Peers(g[i]) \subseteq {g[After(i)], g[Before(i)]}
    <3>1. Peers(h[Place(i)]) \subseteq {h[After(Place(i))], h[Before(Place(i))]}
      BY <1>3, <2>1
    <3>2. g[i] = h[Place(i)] /\ g[After(i)] = h[Place(After(i))] /\ g[Before(i)] = h[Place(Before(i))]
      BY <2>2
    <3> QED
      BY <2>2, <3>1, <3>2
  <2>6. g[0] = r /\ g[1] = n
    BY <1>2, <1>6, <1>9, <2>1
  <2>7. g \in Bijection(0 .. N - 1, Routers)
    BY <2>3, <2>4 DEF Bijection, Injection, Surjection, IsInjective
  <2> HIDE DEF g
  <2>8. Ring(g)
    BY <1>1, <2>5, <2>7 DEF Ring, Places
  <2> QED
    BY <1>1, <1>6, <2>6, <2>8
<1> QED
  BY <1>5, <1>7, <1>8, <1>9

\* An LSU is as many places from its originator as it has made hops, and it was one
\* place less before.
OnRing(m) ==
  \E f : /\ Ring(f) /\ f[0] = m.org
         /\ m.hops \in 1 .. Cardinality(Routers) - 1 /\ m.at = f[m.hops] /\ m.from = f[m.hops - 1]
HopsInv == Rings # {} => \A m \in net : OnRing(m)

\* So it goes on away from the originator, if it does not reach it.
LEMMA HopOn ==
  ASSUME NEW m, LsuOk(m), OnRing(m), NEW n \in Peers(m.at), n # m.from, n # m.org
  PROVE  OnRing(Copy(m, n))
<1>1. m \in Lsu /\ m.at \in Routers /\ n \in Routers /\ m.org \in Routers
  BY Neighbours DEF LsuOk, Lsu
<1>2. PICK N \in Nat \ {0} : N = Cardinality(Routers)
  BY <1>1, SomeRouters
<1>3. PICK f : /\ Ring(f) /\ f[0] = m.org /\ m.hops \in 1 .. N - 1 /\ m.at = f[m.hops] /\ m.from = f[m.hops - 1]
  BY <1>2 DEF OnRing
<1>4. PICK h \in 1 .. N - 1 : h = m.hops
  BY <1>3
<1>5. Peers(f[h]) \subseteq {f[After(h)], f[Before(h)]}
  <2>1. h \in 0 .. N - 1
    OBVIOUS
  <2> QED
    BY <1>2, <1>3, <2>1 DEF Ring, Places
<1>6. n = f[After(h)]
  BY <1>2, <1>3, <1>4, <1>5 DEF Before
<1>7. After(h) = h + 1 /\ h + 1 \in 1 .. N - 1
  BY <1>2, <1>3, <1>6 DEF After
<1>8. /\ Copy(m, n).at = n /\ Copy(m, n).from = m.at /\ Copy(m, n).org = m.org /\ Copy(m, n).hops = h + 1
  BY <1>1, <1>4, CopyIs
<1>9. h + 1 - 1 = h
  OBVIOUS
<1> HIDE DEF Copy
<1> QED
  BY <1>2, <1>3, <1>4, <1>6, <1>7, <1>8, <1>9 DEF OnRing

\* One hop after the third walk.
LEMMA HopFirst ==
  ASSUME Rings # {}, NEW m, m.org \in Routers, m.from = m.org, m.at \in Peers(m.org), m.hops = 1
  PROVE  OnRing(m)
<1>1. PICK f : Ring(f)
  BY RingIs
<1>2. PICK g : Ring(g) /\ g[0] = m.org /\ g[1] = m.at
  BY <1>1, RingFrom
<1>3. PICK N \in Nat \ {0} : N = Cardinality(Routers) /\ N > 1
  BY <1>1, RingFrom, SomeRouters
<1>4. 1 \in 1 .. N - 1 /\ 1 - 1 = 0
  BY <1>3
<1> QED
  BY <1>2, <1>3, <1>4 DEF OnRing

\* New numbers do not move an LSU.
LEMMA HopSame ==
  ASSUME NEW l, OnRing(l), NEW m, m.org = l.org, m.at = l.at, m.from = l.from, m.hops = l.hops
  PROVE  OnRing(m)
  BY DEF OnRing

\* At the start there are no LSUs, ...
LEMMA HopsInit == ASSUME Init PROVE HopsInv
  BY DEF Init, HopsInv

\* ... and every step keeps LSUs on the ring.
LEMMA HopsNext == ASSUME Inv, HopsInv, [Next]_vars PROVE HopsInv'
<1>0. Shape /\ Parts /\ Lsus
  BY DEF Inv
<1> SUFFICES ASSUME Rings # {}, NEW m \in net' PROVE OnRing(m)
  BY DEF HopsInv, OnRing, Ring, Rings, Places, After, Before, Peers, Routers
<1>1. \A l \in net : OnRing(l) /\ LsuOk(l)
  BY <1>0 DEF HopsInv, Lsus
<1>2. CASE net' \subseteq net
  BY <1>1, <1>2
<1>3. ASSUME NEW r \in Routers, NEW th \in DOMAIN sending[r], Send(r, th) PROVE OnRing(m)
  <2>1. PICK to : to = To(r, DOMAIN nbr[r])
    OBVIOUS
  <2>2. PICK k : k = Len(to)
    OBVIOUS
  <2>3. /\ sending[r][th].at = "send"
        /\ UNCHANGED net \/ \E w \in 0 .. k : Sends(r, sending[r][th].adv, to, k, w)
    BY <1>3, <2>1, <2>2, SendIs
  <2>4. CASE \E w \in 0 .. k : Sends(r, sending[r][th].adv, to, k, w)
    <3>0. PICK w \in 0 .. k : Sends(r, sending[r][th].adv, to, k, w)
      BY <2>4
    <3>1. SentBy(r, k, w)
      BY <1>0, <2>1, <2>2, <2>3, <3>0, SendSentBy
    <3>2. CASE \E l \in net : m.org = l.org /\ m.at = l.at /\ m.from = l.from /\ m.hops = l.hops
      BY <1>1, <3>2, HopSame
    <3>3. CASE m.org = r /\ m.from = r /\ m.at \in Peers(r) /\ m.hops = 1
      BY <3>3, HopFirst
    <3> QED
      BY <3>1, <3>2, <3>3 DEF SentBy
  <2> QED
    BY <1>2, <2>3, <2>4
<1>4. ASSUME NEW l \in net, HandleLsu(l) PROVE OnRing(m)
  <2>1. LsuOk(l) /\ l.at \in Routers /\ DOMAIN db = Routers
    BY <1>0, <1>1 DEF Shape, LsuOk, Lsu
  <2>2. m \in net \/ \E n \in DOMAIN nbr[l.at] \ {l.from, l.org} : m = Copy(l, n)
    BY <1>4, <2>1, ForwardIs
  <2>3. ASSUME NEW n \in DOMAIN nbr[l.at] \ {l.from, l.org}, m = Copy(l, n) PROVE OnRing(m)
    <3>1. n \in Peers(l.at)
      BY <1>0, <2>1 DEF Parts, NbrOk
    <3> QED
      BY <1>1, <2>3, <3>1, HopOn
  <2> QED
    BY <1>1, <2>2, <2>3
<1> QED
  BY <1>2, <1>3, <1>4 DEF Next, Work, Flood, Discover, Expire, Compute, Fault, Count, Fill, HandleHello, ExpireNbr,
     ExpireDb, Route, Tick, Lose, Stop, Start, vars

\* On a ring every flood ends, though nothing is remembered of what has been forwarded
\* and no ttl is looked at: an LSU has passed each router at most once.
THEOREM FloodsEnd == Spec => [](Rings # {} => HopBound)
<1>1. Init => Inv /\ HopsInv
  BY InitInv, HopsInit
<1>2. (Inv /\ HopsInv) /\ [Next]_vars => (Inv /\ HopsInv)'
  BY NextInv, HopsNext
<1>3. Inv /\ HopsInv => (Rings # {} => HopBound)
  <2> SUFFICES ASSUME Inv, HopsInv, Rings # {}, NEW m \in net PROVE m.hops < Cardinality(Routers)
    BY DEF HopBound
  <2>1. OnRing(m) /\ m.org \in Routers
    BY DEF HopsInv, Inv, Lsus, LsuOk, Lsu
  <2>2. PICK N \in Nat \ {0} : N = Cardinality(Routers)
    BY <2>1, SomeRouters
  <2>3. m.hops \in 1 .. N - 1
    BY <2>1, <2>2 DEF OnRing
  <2> QED
    BY <2>2, <2>3
<1> QED
  BY <1>1, <1>2, <1>3, PTL DEF Spec

-----------------------------------------------------------------------------
(* Shortest paths.                                                          *)

\* There are finitely many vertices.
LEMMA FiniteVertices == IsFiniteSet(Vertices)
<1>1. ASSUME NEW q \in Routers PROVE IsFiniteSet(ToSet(Ifaces[q]))
  <2>1. Ifaces[q] \in Seq(Nat)
    BY MospfAssumption
  <2>2. PICK n \in Nat : n = Len(Ifaces[q])
    BY <2>1
  <2>3. PICK s : s = Ifaces[q]
    OBVIOUS
  <2>4. s \in Surjection(1 .. n, ToSet(s))
    BY <2>1, <2>2, <2>3 DEF Surjection, ToSet
  <2>5. IsFiniteSet(1 .. n)
    BY FS_Interval
  <2>6. IsFiniteSet(ToSet(s))
    BY <2>4, <2>5, FS_Surjection
  <2> QED
    BY <2>3, <2>6
<1> DEFINE f == [q \in Routers |-> ToSet(Ifaces[q])]
           T == {ToSet(Ifaces[q]) : q \in Routers}
<1>2. f \in Surjection(Routers, T)
  BY DEF Surjection
<1>3. IsFiniteSet(Routers)
  BY MospfAssumption
<1>4. IsFiniteSet(T)
  <2> HIDE DEF f, T
  <2> QED
    BY <1>2, <1>3, FS_Surjection
<1>5. \A t \in T : IsFiniteSet(t)
  BY <1>1
<1>6. IsFiniteSet(UNION T)
  <2> HIDE DEF T
  <2> QED
    BY <1>4, <1>5, FS_UNION
<1> QED
  <2> HIDE DEF T
  <2>1. IsFiniteSet(Routers \cup UNION T)
    BY <1>3, <1>6, FS_Union
  <2> QED
    BY <2>1 DEF Vertices, T

\* At least one, if there is a router.
LEMMA Finite ==
  ASSUME NEW r \in Routers
  PROVE  Unreached \in Nat \ {0}
<1>1. Vertices # {}
  BY DEF Vertices
<1> QED
  BY <1>1, FiniteVertices, FS_CardinalityType, FS_EmptySet DEF Unreached

\* A set of numbers that is not empty has a least one.
LEMMA LeastNat ==
  ASSUME NEW S \in SUBSET Nat, S # {}
  PROVE  \E j \in S : \A k \in S : j <= k
<1> DEFINE T == {m \in Nat : \A k \in S : m <= k}
<1>1. 0 \in T
  OBVIOUS
<1>2. PICK m \in T : m + 1 \notin T
  <2> SUFFICES ASSUME \A m \in T : m + 1 \in T PROVE FALSE
    OBVIOUS
  <2>1. T \in SUBSET Nat
    OBVIOUS
  <2>2. T = Nat
    <3> HIDE DEF T
    <3> QED
      BY <1>1, <2>1, NatSet
  <2>3. PICK n \in Nat : n \in S
    OBVIOUS
  <2>4. n + 1 \in T
    BY <2>2
  <2> QED
    BY <2>3, <2>4
<1> QED
  BY <1>2

\* What dijkstra works on.
Labels(src) == {s \in [done : SUBSET Vertices, dist : [Vertices -> Nat], prev : [Vertices -> Vertices \cup {None}]] :
                  s.dist[src] = 0 /\ s.prev[src] = None}
Label(done, dist, prev) == [done |-> done, dist |-> dist, prev |-> prev]

\* Labels of which the source's is 0.
LEMMA LabelIs ==
  ASSUME NEW src \in Vertices, NEW done \in SUBSET Vertices, NEW dist \in [Vertices -> Nat],
         NEW prev \in [Vertices -> Vertices \cup {None}], dist[src] = 0, prev[src] = None
  PROVE  Label(done, dist, prev) \in Labels(src)
  BY DEF Label, Labels

\* A round of dijkstra: nothing more is reached, or one of the nearest is done.
Reached(s) == {v \in Vertices \ s.done : s.dist[v] < Unreached}
Nearer(g, s, u) == {v \in Vertices \ s.done : {u, v} \in g /\ s.dist[u] + 1 < s.dist[v]}
Visited(g, s, u) ==
  Label(s.done \cup {u},
        [v \in Vertices |-> IF v \in Nearer(g, s, u) THEN s.dist[u] + 1 ELSE s.dist[v]],
        [v \in Vertices |-> IF v \in Nearer(g, s, u) THEN u ELSE s.prev[v]])

\* If something can be reached, a round is that.
LEMMA RelaxedTo ==
  ASSUME NEW src \in Vertices, NEW g, NEW s \in Labels(src), Reached(s) # {}
  PROVE  \E u \in Reached(s) :
           /\ \A v \in Reached(s) : s.dist[u] <= s.dist[v]
           /\ Relaxed(g, s) = Visited(g, s, u)
<1> DEFINE open == {v \in Vertices \ s.done : s.dist[v] < Unreached}
           best(u) == \A v \in open : s.dist[u] < s.dist[v] \/ (s.dist[u] = s.dist[v] /\ u <= v)
<1>0. open = Reached(s)
  BY DEF Reached
<1>1. s.dist \in [Vertices -> Nat]
  BY DEF Labels
<1>2. \E u \in open : best(u)
  <2> DEFINE dists == {s.dist[v] : v \in open}
  <2>1. dists \in SUBSET Nat /\ dists # {}
    BY <1>0, <1>1
  <2> HIDE DEF dists
  <2>2. PICK d \in dists : \A k \in dists : d <= k
    BY <2>1, LeastNat
  <2> DEFINE near == {v \in open : s.dist[v] = d}
  <2>3. near \in SUBSET Nat /\ near # {}
    BY <2>2, Network DEF dists
  <2> HIDE DEF near
  <2>4. PICK u \in near : \A k \in near : u <= k
    BY <2>3, LeastNat
  <2>5. u \in open /\ s.dist[u] = d
    BY <2>4 DEF near
  <2>6. ASSUME NEW v \in open PROVE s.dist[u] < s.dist[v] \/ (s.dist[u] = s.dist[v] /\ u <= v)
    <3>1. s.dist[v] \in dists /\ s.dist[v] \in Nat /\ d \in Nat
      BY <1>1, <2>1 DEF dists
    <3>2. s.dist[v] = d => v \in near
      BY DEF near
    <3> QED
      BY <2>2, <2>4, <2>5, <3>1, <3>2
  <2> QED
    BY <2>5, <2>6
<1> DEFINE u == CHOOSE u \in open : best(u)
<1>3. u \in open /\ best(u)
  BY <1>2, Zenon
<1>4. Relaxed(g, s) = Visited(g, s, u)
  BY <1>0 DEF Relaxed, Label, Nearer, Visited
<1> HIDE DEF u
<1>5. \A v \in open : s.dist[u] <= s.dist[v]
  BY <1>1, <1>3
<1> QED
  BY <1>0, <1>3, <1>4, <1>5

\* A round leaves the source as it is: nothing is nearer.
LEMMA RelaxedIs ==
  ASSUME NEW src \in Vertices, NEW g, NEW s \in Labels(src)
  PROVE  Relaxed(g, s) \in Labels(src)
<1>1. /\ s.done \in SUBSET Vertices /\ s.dist \in [Vertices -> Nat] /\ s.prev \in [Vertices -> Vertices \cup {None}]
      /\ s.dist[src] = 0 /\ s.prev[src] = None
  BY DEF Labels
<1>2. CASE Reached(s) = {}
  BY <1>2 DEF Relaxed, Reached
<1>3. CASE Reached(s) # {}
  <2>1. PICK u \in Reached(s) : Relaxed(g, s) = Visited(g, s, u)
    BY <1>3, RelaxedTo
  <2>2. u \in Vertices /\ s.dist[u] \in Nat
    BY <1>1 DEF Reached
  <2>3. src \notin Nearer(g, s, u)
    BY <1>1, <2>2 DEF Nearer
  <2> QED
    BY <1>1, <2>1, <2>2, <2>3, LabelIs DEF Visited
<1> QED
  BY <1>2, <1>3

\* The rounds of dijkstra.
Rounds(g, src, f) ==
  f = [k \in 0 .. Unreached |->
         IF k = 0
         THEN [done |-> {}, prev |-> [v \in Vertices |-> None],
               dist |-> [v \in Vertices |-> IF v = src THEN 0 ELSE Unreached]]
         ELSE Relaxed(g, f[k - 1])]

\* There are such rounds, and dijkstra returns what the last but one has found.
LEMMA DijkstraRounds ==
  ASSUME NEW src \in Routers, NEW g
  PROVE  \E f : Rounds(g, src, f) /\ Dijkstra(g, src) = f[Unreached - 1].prev
<1>1. PICK n \in Nat \ {0} : n = Unreached
  BY Finite
<1>2. src \in Vertices
  BY Network
<1> DEFINE first == [done |-> {}, prev |-> [v \in Vertices |-> None],
                     dist |-> [v \in Vertices |-> IF v = src THEN 0 ELSE Unreached]]
           D == Labels(src)
           step == [x \in Nat \X D |-> Relaxed(g, x[2])]
<1>3. first \in D
  BY <1>1, <1>2 DEF Labels
<1>4. step \in [Nat \X D -> D]
  <2>1. \A s \in D : Relaxed(g, s) \in D
    BY <1>2, RelaxedIs
  <2> HIDE DEF D
  <2> QED
    BY <2>1
<1>5. \A i \in Nat : \A s \in D : step[<<i, s>>] = Relaxed(g, s)
  <2> HIDE DEF D
  <2> QED
    OBVIOUS
<1> HIDE DEF D, step
<1>6. PICK f \in [0 .. n -> D] : Iterates(f, first, step, n)
  <2> HIDE DEF first
  <2> QED
    BY <1>1, <1>3, <1>4, Iteration
<1>7. f = [k \in 0 .. n |-> IF k = 0 THEN first ELSE Relaxed(g, f[k - 1])]
  <2> HIDE DEF first
  <2>1. ASSUME NEW k \in 0 .. n, k # 0 PROVE f[k] = Relaxed(g, f[k - 1])
    <3>1. k \in 1 .. n /\ k - 1 \in 0 .. n /\ k \in Nat
      BY <1>1, <2>1
    <3>2. f[k] = step[<<k, f[k - 1]>>] /\ f[k - 1] \in D
      BY <1>6, <3>1 DEF Iterates
    <3> QED
      BY <1>5, <3>1, <3>2
  <2>2. f[0] = first
    BY <1>6 DEF Iterates
  <2> QED
    BY <2>1, <2>2
<1>8. \E h : Rounds(g, src, h)
  BY <1>1, <1>7 DEF Rounds
<1>9. Dijkstra(g, src) = (CHOOSE h : Rounds(g, src, h))[Unreached - 1].prev
  BY Zenon DEF Dijkstra, Rounds
<1> QED
  BY <1>8, <1>9

\* The source has no predecessor.
LEMMA DijkstraIs ==
  ASSUME NEW src \in Routers, NEW g
  PROVE  Dijkstra(g, src) \in [Vertices -> Vertices \cup {None}] /\ Dijkstra(g, src)[src] = None
<1>1. PICK n \in Nat \ {0} : n = Unreached
  BY Finite
<1>2. src \in Vertices
  BY Network
<1>3. PICK f : Rounds(g, src, f) /\ Dijkstra(g, src) = f[n - 1].prev
  BY <1>1, DijkstraRounds
<1> DEFINE first == [done |-> {}, prev |-> [v \in Vertices |-> None],
                     dist |-> [v \in Vertices |-> IF v = src THEN 0 ELSE Unreached]]
           S == {k \in Nat : k \in 0 .. n => f[k] \in Labels(src)}
<1>4. first \in Labels(src)
  BY <1>1, <1>2 DEF Labels
<1>5. f[0] = first /\ \A k \in 1 .. n : f[k] = Relaxed(g, f[k - 1])
  <2>1. \A k \in 0 .. n : f[k] = IF k = 0 THEN first ELSE Relaxed(g, f[k - 1])
    BY <1>1, <1>3 DEF Rounds
  <2> HIDE DEF first
  <2>2. 0 \in 0 .. n /\ \A k \in 1 .. n : k \in 0 .. n /\ k # 0
    OBVIOUS
  <2> QED
    BY <2>1, <2>2
<1> HIDE DEF first
<1>6. 0 \in S
  BY <1>4, <1>5
<1>7. ASSUME NEW k \in S PROVE k + 1 \in S
  <2> SUFFICES ASSUME k + 1 \in 0 .. n PROVE f[k + 1] \in Labels(src)
    OBVIOUS
  <2>1. k + 1 \in 1 .. n /\ k \in 0 .. n /\ k + 1 - 1 = k
    OBVIOUS
  <2>2. f[k + 1] = Relaxed(g, f[k]) /\ f[k] \in Labels(src)
    BY <1>5, <2>1
  <2> QED
    BY <1>2, <2>2, RelaxedIs
<1>8. S = Nat
  <2> HIDE DEF S
  <2>1. S \in SUBSET Nat
    BY DEF S
  <2> QED
    BY <1>6, <1>7, <2>1, NatSet
<1>9. f[n - 1] \in Labels(src)
  <2>1. n - 1 \in S
    <3> HIDE DEF S
    <3> QED
      BY <1>8
  <2> QED
    BY <2>1
<1> QED
  BY <1>3, <1>9 DEF Labels

\* A vertex next to the source is its own first hop.
LEMMA FirstHopIs ==
  ASSUME NEW v \in Routers, NEW prev, prev[prev[v]] = None
  PROVE  FirstHop(prev, v) = v
<1>1. PICK n \in Nat : n = Unreached
  BY Finite
<1> DEFINE Back(f) == f = [k \in 0 .. n |->
                             IF k = 0 THEN v
                             ELSE IF prev[prev[f[k - 1]]] = None THEN f[k - 1] ELSE prev[f[k - 1]]]
<1>2. \E f : Back(f)
  <2> DEFINE f == [k \in 0 .. n |-> v]
  <2>1. \A k \in 0 .. n : k # 0 => f[k - 1] = v
    OBVIOUS
  <2>2. Back(f)
    BY <2>1
  <2> HIDE DEF Back, f
  <2> QED
    BY <2>2
<1>3. FirstHop(prev, v) = (CHOOSE f : Back(f))[n]
  BY <1>1, Zenon DEF FirstHop
<1>4. PICK f : Back(f) /\ FirstHop(prev, v) = f[n]
  <2> HIDE DEF Back
  <2> QED
    BY <1>2, <1>3
<1>5. f[0] = v /\ \A k \in 1 .. n : f[k - 1] = v => f[k] = v
  <2>1. \A k \in 0 .. n : f[k] = IF k = 0 THEN v ELSE IF prev[prev[f[k - 1]]] = None THEN f[k - 1] ELSE prev[f[k - 1]]
    BY <1>4
  <2>2. 0 \in 0 .. n /\ \A k \in 1 .. n : k \in 0 .. n /\ k # 0
    OBVIOUS
  <2> QED
    BY <2>1, <2>2
<1> DEFINE S == {k \in Nat : k \in 0 .. n => f[k] = v}
<1>6. 0 \in S
  BY <1>5
<1>7. ASSUME NEW k \in S PROVE k + 1 \in S
  <2> SUFFICES ASSUME k + 1 \in 0 .. n PROVE f[k + 1] = v
    OBVIOUS
  <2>1. k + 1 \in 1 .. n /\ k \in 0 .. n /\ k + 1 - 1 = k
    OBVIOUS
  <2> QED
    BY <1>5, <2>1
<1>8. S = Nat
  <2> HIDE DEF S
  <2>1. S \in SUBSET Nat
    BY DEF S
  <2> QED
    BY <1>6, <1>7, <2>1, NatSet
<1>9. n \in S /\ n \in 0 .. n
  <2> HIDE DEF S
  <2> QED
    BY <1>8
<1> QED
  BY <1>4, <1>9

\* The first hop on the way to the last edge of a shortest path is that to its end.
LEMMA HopsIs ==
  ASSUME NEW g, NEW r, NEW v \in Vertices, Dijkstra(g, r)[v] # None,
         NEW e, e = {Dijkstra(g, r)[v], v},
         \A x \in Vertices : Dijkstra(g, r)[x] # None /\ {Dijkstra(g, r)[x], x} = e => x = v
  PROVE  e \in DOMAIN Hops(g, r) /\ Hops(g, r)[e] = FirstHop(Dijkstra(g, r), v)
<1> DEFINE prev == Dijkstra(g, r)
           far == {x \in Vertices : prev[x] # None}
           Edge(x) == {prev[x], x}
<1>1. Hops(g, r) = [d \in {Edge(x) : x \in far} |-> FirstHop(prev, CHOOSE x \in far : Edge(x) = d)]
  BY DEF Hops
<1>2. v \in far /\ Edge(v) = e
  OBVIOUS
<1>3. (CHOOSE x \in far : Edge(x) = e) = v
  <2>1. \A x \in far : Edge(x) = e => x = v
    OBVIOUS
  <2> HIDE DEF far, Edge
  <2> QED
    BY <1>2, <2>1
<1> HIDE DEF prev, far, Edge
<1>4. e \in {Edge(x) : x \in far}
  BY <1>2
<1> QED
  BY <1>1, <1>3, <1>4 DEF prev

\* Every edge with a first hop is the last of a shortest path.
LEMMA HopsTo ==
  ASSUME NEW g, NEW r, NEW e \in DOMAIN Hops(g, r)
  PROVE  \E x \in Vertices : Dijkstra(g, r)[x] # None /\ {Dijkstra(g, r)[x], x} = e
  BY DEF Hops

\* So the route to the network of a neighbour that the database knows has an interface.
Linked(t, e) == e \in DOMAIN t => t[e].via = e

\* The neighbour is the first hop, and Entry finds the interface to it.
LEMMA RoutesVia ==
  ASSUME NEW r \in Routers, NEW n \in Peers(r), NEW g, NEW s, NEW d, NEW f,
         n \in DOMAIN d, r \in d[n].adv
  PROVE  Linked(Routes(r, Hops(g, r), s, d, f), {r, n})
<1> SUFFICES ASSUME {r, n} \in DOMAIN Routes(r, Hops(g, r), s, d, f)
             PROVE  Routes(r, Hops(g, r), s, d, f)[{r, n}].via = {r, n}
  BY DEF Linked
<1>1. PICK prev : prev = Dijkstra(g, r)
  OBVIOUS
<1>2. PICK hops : hops = Hops(g, r)
  OBVIOUS
<1>3. {r, n} \in DOMAIN hops /\ Routes(r, hops, s, d, f)[{r, n}] = Entry(r, hops[{r, n}], d, f)
  BY <1>2 DEF Routes
<1>4. prev[r] = None
  BY <1>1, DijkstraIs
<1>5. \A x \in Vertices : prev[x] # None /\ {prev[x], x} = {r, n} => x = n /\ prev[x] = r
  BY <1>4
<1>6. n \in Routers /\ n \in Vertices
  BY Neighbours, Network
<1>7. prev[n] = r /\ r # None
  <2>1. PICK x \in Vertices : prev[x] # None /\ {prev[x], x} = {r, n}
    BY <1>1, <1>2, <1>3, HopsTo
  <2> QED
    BY <1>5, <2>1
<1>8. hops[{r, n}] = FirstHop(prev, n)
  <2>1. \A x \in Vertices : Dijkstra(g, r)[x] # None /\ {Dijkstra(g, r)[x], x} = {r, n} => x = n
    BY <1>1, <1>5
  <2>2. Dijkstra(g, r)[n] # None /\ {r, n} = {Dijkstra(g, r)[n], n}
    BY <1>1, <1>7
  <2> QED
    BY <1>1, <1>2, <1>6, <2>1, <2>2, HopsIs
<1>9. FirstHop(prev, n) = n
  BY <1>4, <1>6, <1>7, FirstHopIs
<1>10. Entry(r, n, d, f).via = {r, n}
  BY DEF Entry
<1> QED
  BY <1>2, <1>3, <1>8, <1>9, <1>10

\* So has a table computed from a database that knows the neighbours.
LEMMA TableVia ==
  ASSUME NEW r \in Routers, NEW n \in Peers(r), NEW g, NEW s, NEW d, NEW f, NEW t,
         n \in DOMAIN d, d[n].adv = Full(n), {r, n} \in DOMAIN t, t[{r, n}].via # Null
  PROVE  Table(t, Routes(r, Hops(g, r), s, d, f))[{r, n}].via # Null
<1>1. {r, n} # Null /\ r \in d[n].adv
  <2>1. n \in Full(r) /\ n \in Routers /\ r \in Peers(n)
    BY Neighbours
  <2>2. {r, n} \in Edges /\ r \in Full(n)
    BY <2>1, Neighbours
  <2> QED
    BY <2>2, Network
<1>2. Linked(Routes(r, Hops(g, r), s, d, f), {r, n})
  BY <1>1, RoutesVia, Zenon
<1>3. PICK new : new = Routes(r, Hops(g, r), s, d, f)
  OBVIOUS
<1>4. {r, n} \in DOMAIN new => new[{r, n}].via = {r, n} /\ Table(t, new)[{r, n}] = new[{r, n}]
  BY <1>2, <1>3 DEF Linked, Table
<1>5. {r, n} \notin DOMAIN new => Table(t, new)[{r, n}] = t[{r, n}]
  BY DEF Table
<1> QED
  BY <1>1, <1>3, <1>4, <1>5

-----------------------------------------------------------------------------
(* Lost LSUs.                                                               *)

\* While nothing but the loss of LSUs goes wrong: no daemon and no neighbour goes.
Steady == up = Routers /\ nbr = [r \in Routers |-> [n \in Peers(r) |-> 0]] /\ crashed = FALSE

\* Only the thread of the period sends: it advertises all links, to be sent when
\* nothing is on its way.
Counting == [at |-> "count"]
Filling(r) == [at |-> "fill", nadv |-> Len(To(r, Full(r)))]
Filled(r) == [at |-> "send", adv |-> Full(r)]
SenderOk(r, s) == DOMAIN s \subseteq {"lsu"} /\ \A th \in DOMAIN s : s[th] \in {Counting, Filling(r), Filled(r)}
Senders == \A r \in Routers : SenderOk(r, sending[r]) /\ (Walking(r) # {} => net = {})

\* What is advertised is in the network, and all of it.
Adverts ==
  /\ \A m \in net : m.adv = Full(m.org)
  /\ \A r \in Routers : \A o \in DOMAIN db[r] : db[r][o].adv = Full(o)

\* What is on its way has a number that an entry not of this period is behind.
Numbers ==
  /\ \A m \in net : m.num <= 0
  /\ \A r \in Routers : \A o \in DOMAIN db[r] : db[r][o].num <= 0
  /\ \A m \in net : \A q \in Routers :
       m.org \in DOMAIN db[q] /\ db[q][m.org].age > 0 => m.num > db[q][m.org].num

\* The neighbours are in every database: heard in this period, or about to be, unless
\* LSUs have been lost and those of this router are in this period; then it has been in
\* the last.
Fresh(r, n) == db[r][n].age = 0 \/ \E m \in net : m.at = r /\ m.org = n
Heard ==
  \A n \in Routers : \A r \in Peers(n) :
    /\ n \in DOMAIN db[r] /\ db[r][n].age <= 2
    /\ bad # None \/ ~ spent => db[r][n].age <= 1
    /\ (n # bad \/ ~ spent) /\ DOMAIN sending[n] = {} => Fresh(r, n)

\* All routes to neighbours have interfaces.
Routed == \A r \in Routers : \A n \in Peers(r) : route[r][{r, n}].via # Null

Stable == Steady /\ Senders /\ Adverts /\ Numbers /\ Heard /\ Routed

\* Nobody is dropped from a neighbour list.
LEMMA SteadyIs ==
  ASSUME Steady, NEW r \in Routers
  PROVE  DOMAIN nbr[r] = Peers(r) /\ (\A n \in Peers(r) : nbr[r][n] = 0) /\ Listed(r) = To(r, Full(r))
<1>1. DOMAIN nbr[r] = Peers(r) /\ \A n \in Peers(r) : nbr[r][n] = 0
  BY DEF Steady
<1>2. OwnLans(r) \cup DOMAIN nbr[r] = Full(r)
  BY <1>1, Neighbours
<1> QED
  BY <1>1, <1>2 DEF Listed

\* An entry of a database, and its age.
LEMMA EntryIs ==
  ASSUME Parts, NEW r \in Routers, NEW o \in DOMAIN db[r]
  PROVE  o \in Routers /\ db[r][o] \in EntryOf(o) /\ db[r][o].age \in Nat /\ db[r][o].num \in Int
<1>1. o \in Routers /\ db[r][o] \in EntryOf(o)
  BY DEF Parts, DbOk
<1> QED
  BY <1>1, Network DEF EntryOf, Nums

\* So the way to a neighbour is never the end.
LEMMA NotFatal ==
  ASSUME Routed, NEW r \in Routers, NEW to \in SUBSET Peers(r)
  PROVE  ~ Fatal(r, to)
  BY DEF Routed, Fatal

\* The kernel's routes to the networks of the neighbours.
LEMMA DirectIs ==
  ASSUME NEW r \in Routers, NEW n \in Peers(r)
  PROVE  {r, n} \in DOMAIN Direct(r) /\ Direct(r)[{r, n}].via = {r, n} /\ {r, n} # Null
<1>1. n \in ToSet(Ifaces[r]) /\ {r, n} \in Edges
  BY Neighbours DEF Peers, Full
<1>2. {r, n} # Null
  BY <1>1, Network
<1>3. DOMAIN Direct(r) = {{r, v} : v \in ToSet(Ifaces[r])} /\ \A e \in DOMAIN Direct(r) : Direct(r)[e].via = e
  BY DEF Direct
<1> QED
  BY <1>1, <1>2, <1>3

\* At the start every database is full.
LEMMA StableInit == ASSUME Init PROVE Stable
<1>1. Steady
  BY DEF Init, Steady
<1>2. Senders
  BY DEF Init, Senders, SenderOk, Nothing, Walking
<1>3. \A r \in Routers : /\ DOMAIN db[r] = Routers \ {r}
                         /\ \A o \in DOMAIN db[r] : db[r][o].adv = Full(o) /\ db[r][o].num = 0 /\ db[r][o].age = 0
  BY DEF Init
<1>4. net = {}
  BY DEF Init
<1>5. Adverts /\ Numbers
  BY <1>3, <1>4 DEF Adverts, Numbers
<1>6. Heard
  <2> SUFFICES ASSUME NEW n \in Routers, NEW r \in Peers(n) PROVE n \in DOMAIN db[r] /\ db[r][n].age = 0
    BY DEF Heard, Fresh
  <2>1. r \in Routers /\ n # r
    BY Neighbours
  <2> QED
    BY <1>3, <2>1
<1>7. Routed
  <2> SUFFICES ASSUME NEW r \in Routers, NEW n \in Peers(r) PROVE route[r][{r, n}].via # Null
    BY DEF Routed
  <2>1. route[r] = Table(Direct(r), Routes(r, Hops(Edges, r), subnets[r], db[r], nbr[r]))
    BY DEF Init
  <2>2. {r, n} \in DOMAIN Direct(r) /\ Direct(r)[{r, n}].via # Null
    BY DirectIs
  <2>3. n \in DOMAIN db[r] /\ db[r][n].adv = Full(n)
    BY <1>3, Neighbours
  <2> QED
    BY <2>1, <2>2, <2>3, TableVia
<1> QED
  BY <1>1, <1>2, <1>5, <1>6, <1>7 DEF Stable

\* The steps that only concern neighbours that come or go, or routers that stop, do not happen.
LEMMA NobodyGoes ==
  ASSUME Stable, fault = "loss"
  PROVE  /\ \A r, n \in Routers : ~ HandleHello(r, n)
         /\ \A r \in Routers : \A n \in DOMAIN nbr[r] : ~ ExpireNbr(r, n)
         /\ \A r \in Routers : ~ Stop(r) /\ ~ Start(r)
<1>0. Steady
  BY DEF Stable
<1>1. ASSUME NEW r \in Routers, NEW n \in Routers PROVE ~ HandleHello(r, n)
  BY <1>0, SteadyIs DEF HandleHello
<1>2. ASSUME NEW r \in Routers, NEW n \in DOMAIN nbr[r] PROVE ~ ExpireNbr(r, n)
  <2>1. nbr[r][n] = 0
    BY <1>0, SteadyIs
  <2>2. n \notin Silent(r)
    BY <2>1, Network DEF Silent
  <2> QED
    BY <2>2 DEF ExpireNbr
<1>3. ASSUME NEW r \in Routers PROVE ~ Stop(r) /\ ~ Start(r)
  BY <1>0 DEF Steady, Stop, Start
<1> QED
  BY <1>1, <1>2, <1>3

\* A neighbour's entry is dropped only after a loss, and if its timeout is two periods.
LEMMA ExpireDbLapses ==
  ASSUME Inv, Stable, fault = "loss", ~ lapsed, DbTimeout >= 2,
         NEW r \in Routers, NEW o \in DOMAIN db[r], ExpireDb(r, o)
  PROVE  /\ lapsed' => spent /\ DbTimeout < 3
         /\ ~ lapsed' => o \notin Peers(r)
<1>0. Parts /\ Steady /\ Heard
  BY DEF Inv, Stable
<1>1. db[r][o].age >= DbTimeout /\ lapsed' = (o \in Peers(r))
  BY <1>0, SteadyIs DEF ExpireDb, Expired
<1>2. ASSUME o \in Peers(r) PROVE spent /\ DbTimeout < 3
  <2>1. o \in Routers /\ r \in Peers(o)
    BY <1>2, Neighbours
  <2>2. db[r][o].age <= 2 /\ (~ spent => db[r][o].age <= 1)
    BY <1>0, <2>1 DEF Heard
  <2>3. db[r][o].age \in Nat
    BY <1>0, EntryIs
  <2> QED
    BY <1>1, <2>2, <2>3, Network
<1> QED
  BY <1>1, <1>2

\* Without the entry of one that is none, all is as before.
LEMMA ExpireDbStable ==
  ASSUME Inv, Stable, NEW r \in Routers, NEW o \in DOMAIN db[r], ExpireDb(r, o), o \notin Peers(r)
  PROVE  Stable'
<1>0. Shape /\ Parts /\ Steady /\ Senders /\ Adverts /\ Numbers /\ Heard /\ Routed
  BY DEF Inv, Stable
<1>1. /\ db' = [db EXCEPT ![r] = Without(@, o)] /\ db[r][o].age >= DbTimeout
      /\ UNCHANGED <<nbr, graph, subnets, route, sending, net, up, fault, spent, bad, crashed>>
  BY DEF ExpireDb, Expired
<1>3. \A q \in Routers : /\ DOMAIN db'[q] \subseteq DOMAIN db[q]
                         /\ \A p \in DOMAIN db'[q] : db'[q][p] = db[q][p]
                         /\ \A p \in DOMAIN db[q] : (q # r \/ p # o) => p \in DOMAIN db'[q]
  <2> SUFFICES ASSUME NEW q \in Routers
               PROVE  /\ DOMAIN db'[q] \subseteq DOMAIN db[q]
                      /\ \A p \in DOMAIN db'[q] : db'[q][p] = db[q][p]
                      /\ \A p \in DOMAIN db[q] : (q # r \/ p # o) => p \in DOMAIN db'[q]
    OBVIOUS
  <2>1. CASE q # r
    <3>1. db'[q] = db[q]
      BY <1>0, <1>1, <2>1 DEF Shape
    <3> QED
      BY <2>1, <3>1
  <2>2. CASE q = r
    <3>1. db'[q] = Without(db[q], o)
      BY <1>0, <1>1, <2>2 DEF Shape
    <3>2. /\ DOMAIN Without(db[q], o) = DOMAIN db[q] \ {o}
          /\ \A y \in DOMAIN db[q] : y # o => Without(db[q], o)[y] = db[q][y]
      BY WithoutIs
    <3> QED
      BY <3>1, <3>2, <2>2
  <2> QED
    BY <2>1, <2>2
<1>4. Steady' /\ Senders' /\ Routed'
  BY <1>0, <1>1 DEF Steady, Senders, SenderOk, Walking, Routed
<1>5. Adverts' /\ Numbers'
  BY <1>0, <1>1, <1>3 DEF Adverts, Numbers
<1>6. Heard'
  <2> SUFFICES ASSUME NEW n \in Routers, NEW q \in Peers(n)
               PROVE  n \in DOMAIN db'[q] /\ db'[q][n] = db[q][n]
    BY <1>0, <1>1 DEF Heard, Fresh
  <2>1. q \in Routers /\ n \in Peers(q)
    BY Neighbours
  <2>2. n \in DOMAIN db[q] /\ (q # r \/ n # o)
    BY <1>0, <2>1 DEF Heard
  <2> QED
    BY <1>3, <2>1, <2>2
<1> QED
  BY <1>4, <1>5, <1>6 DEF Stable

\* deal_rtable finds the neighbours in the database.
LEMMA RouteStable ==
  ASSUME Inv, Stable, NEW r \in Routers, Route(r)
  PROVE  Stable'
<1>0. Shape /\ Parts /\ Tables /\ Steady /\ Senders /\ Adverts /\ Numbers /\ Heard /\ Routed
  BY DEF Inv, Stable
<1>1. \A o \in DOMAIN db[r] : Garbage \notin db[r][o].adv
  <2> SUFFICES ASSUME NEW o \in DOMAIN db[r] PROVE Garbage \notin db[r][o].adv
    OBVIOUS
  <2>1. o \in Routers
    BY <1>0, EntryIs
  <2>2. db[r][o].adv = Full(o)
    BY <1>0 DEF Adverts
  <2> QED
    BY <2>1, <2>2, Neighbours, Network
<1> DEFINE g == Drawn(r, graph[r], db[r], nbr[r])
           s == subnets[r] \cup Learned(db[r])
<1>2. /\ route' = [route EXCEPT ![r] = Computed(r, g, s)]
      /\ UNCHANGED <<nbr, db, sending, net, up, fault, spent, bad, lapsed, crashed>>
  BY <1>1 DEF Route, env
<1>3. Computed(r, g, s) = Table(route[r], Routes(r, Hops(g, r), s, db[r], nbr[r]))
  <2>1. DbOk(r, db[r]) /\ DOMAIN nbr[r] \subseteq Peers(r) /\ graph[r] \in SUBSET Edges
    BY <1>0 DEF Parts, NbrOk, Tables
  <2>2. g \in SUBSET Edges
    BY <1>1, <2>1, DrawnEdges
  <2> HIDE DEF g, s
  <2> QED
    BY <2>2, ComputedIs
<1> HIDE DEF g, s
<1>4. \A q \in Routers : route'[q] = IF q = r THEN Computed(r, g, s) ELSE route[q]
  BY <1>0, <1>2 DEF Shape
<1>5. ASSUME NEW n \in Peers(r) PROVE Computed(r, g, s)[{r, n}].via # Null
  <2>1. n \in Routers /\ r \in Peers(n)
    BY Neighbours
  <2>2. n \in DOMAIN db[r] /\ db[r][n].adv = Full(n)
    BY <1>0, <2>1 DEF Heard, Adverts
  <2>3. {r, n} \in DOMAIN route[r]
    BY <1>0, DirectIs DEF Tables
  <2>4. route[r][{r, n}].via # Null
    BY <1>0 DEF Routed
  <2> QED
    BY <1>3, <2>2, <2>3, <2>4, TableVia
<1>6. Routed'
  BY <1>0, <1>4, <1>5 DEF Routed, Peers
<1>7. Steady' /\ Senders' /\ Adverts' /\ Numbers' /\ Heard'
  BY <1>0, <1>2 DEF Steady, Senders, SenderOk, Walking, Adverts, Numbers, Heard, Fresh
<1> QED
  BY <1>6, <1>7 DEF Stable

\* The LSUs of one router are lost.
LEMMA LoseStable ==
  ASSUME Inv, Stable, NEW m \in net, Lose(m)
  PROVE  Stable'
<1>0. Steady /\ Senders /\ Adverts /\ Numbers /\ Heard /\ Routed
  BY DEF Stable
<1>1. /\ m.org = bad /\ net' = net \ {m}
      /\ UNCHANGED <<nbr, db, graph, subnets, route, sending, up, fault, bad, lapsed, crashed>> /\ spent' = TRUE
  BY DEF Lose, state
<1>2. Steady' /\ Adverts' /\ Numbers' /\ Routed'
  BY <1>0, <1>1 DEF Steady, Adverts, Numbers, Routed
<1>3. Senders'
  BY <1>0, <1>1 DEF Senders, SenderOk, Walking
<1>4. Heard'
  BY <1>0, <1>1 DEF Heard, Fresh
<1> QED
  BY <1>2, <1>3, <1>4 DEF Stable

\* A period begins: what has not been heard is one period older.
LEMMA TickStable ==
  ASSUME Inv, Stable, Tick
  PROVE  Stable'
<1>0. Shape /\ Parts /\ Steady /\ Senders /\ Adverts /\ Numbers /\ Heard /\ Routed
  BY DEF Inv, Stable
<1>1. net = {} /\ \A r \in Routers : DOMAIN sending[r] = {}
  BY QuietIs DEF Tick
<1>2. /\ bad' = None \/ bad = None
      /\ UNCHANGED <<graph, subnets, route, net, up, fault, spent, lapsed, crashed>>
  BY DEF Tick
<1>3. Steady'
  <2>1. nbr' = [r \in Routers |-> [n \in DOMAIN nbr[r] |-> IF n \in up THEN 0 ELSE nbr[r][n] + 1]]
    BY DEF Tick
  <2>2. \A r \in Routers : DOMAIN nbr[r] = Peers(r) /\ Peers(r) \subseteq up
    BY <1>0, SteadyIs, Neighbours DEF Steady
  <2>3. nbr' = [r \in Routers |-> [n \in Peers(r) |-> 0]]
    BY <2>1, <2>2
  <2> QED
    BY <1>0, <1>2, <2>3 DEF Steady
<1>4. \A r \in Routers : sending'[r] = With(Nothing, "lsu", [at |-> "count"])
  BY <1>0 DEF Tick, Steady
<1>5. \A r \in Routers : DOMAIN sending'[r] = {"lsu"} /\ sending'[r]["lsu"] = Counting
  <2>1. DOMAIN Nothing = {}
    BY DEF Nothing
  <2>2. PICK c : c = Counting
    OBVIOUS
  <2>3. \A r \in Routers : sending'[r] = With(Nothing, "lsu", c)
    BY <1>4, <2>2 DEF Counting
  <2>4. DOMAIN With(Nothing, "lsu", c) = DOMAIN Nothing \cup {"lsu"} /\ With(Nothing, "lsu", c)["lsu"] = c
    BY DEF With
  <2> QED
    BY <2>1, <2>2, <2>3, <2>4
<1>11. Senders'
  <2> SUFFICES ASSUME NEW r \in Routers PROVE SenderOk(r, sending'[r]) /\ Walking(r)' = {}
    BY DEF Senders, SenderOk, Filling, Filled, Full, Peers, OwnLans
  <2>1. Walking(r)' = {}
    BY <1>5 DEF Walking, Counting
  <2> QED
    BY <1>5, <2>1 DEF SenderOk
<1>6. \A r \in Routers : /\ DOMAIN db'[r] = DOMAIN db[r]
                         /\ \A o \in DOMAIN db[r] : db'[r][o] = [db[r][o] EXCEPT !.age = @ + 1]
  BY DEF Tick
<1>7. ASSUME NEW r \in Routers, NEW o \in DOMAIN db[r]
      PROVE  db'[r][o].adv = db[r][o].adv /\ db'[r][o].num = db[r][o].num /\ db'[r][o].age = db[r][o].age + 1
  <2>1. db[r][o] \in EntryOf(o) /\ db'[r][o] = [db[r][o] EXCEPT !.age = @ + 1]
    BY <1>0, <1>6, EntryIs
  <2>2. PICK e \in EntryOf(o) : e = db[r][o]
    BY <2>1
  <2>3. [e EXCEPT !.age = @ + 1].adv = e.adv /\ [e EXCEPT !.age = @ + 1].num = e.num /\ [e EXCEPT !.age = @ + 1].age = e.age + 1
    BY DEF EntryOf
  <2> QED
    BY <2>1, <2>2, <2>3
<1>8. Adverts' /\ Numbers'
  BY <1>0, <1>1, <1>2, <1>6, <1>7 DEF Adverts, Numbers
<1>9. Heard'
  <2> SUFFICES ASSUME NEW n \in Routers, NEW r \in Peers(n)
               PROVE  /\ n \in DOMAIN db'[r] /\ db'[r][n].age <= 2
                      /\ bad' # None \/ ~ spent => db'[r][n].age <= 1
                      /\ DOMAIN sending'[n] # {}
    BY <1>2 DEF Heard
  <2>1. r \in Routers
    BY Neighbours
  <2>2. /\ n \in DOMAIN db[r] /\ (bad # None => db[r][n].age <= 1)
        /\ n # bad \/ ~ spent => db[r][n].age = 0
    BY <1>0, <1>1, <2>1 DEF Heard, Fresh
  <2>3. db[r][n].age \in Nat
    BY <1>0, <2>1, <2>2, EntryIs
  <2>4. db'[r][n].age = db[r][n].age + 1 /\ n \in DOMAIN db'[r]
    BY <1>6, <1>7, <2>1, <2>2
  <2>5. n # None
    BY Network
  <2>6. DOMAIN sending'[n] # {}
    BY <1>5
  <2> QED
    BY <1>2, <2>2, <2>3, <2>4, <2>5, <2>6
<1>10. Routed'
  BY <1>0, <1>2 DEF Routed
<1> QED
  BY <1>3, <1>11, <1>8, <1>9, <1>10 DEF Stable

\* A thread goes on in send_mospf_lsu while nothing is on its way.
LEMMA WalkStable ==
  ASSUME Inv, Stable, NEW r \in Routers, NEW th \in DOMAIN sending[r], NEW p \in {Filling(r), Filled(r)},
         sending' = [sending EXCEPT ![r][th] = p], net = {},
         UNCHANGED <<nbr, db, graph, subnets, route, net, up, fault, spent, bad, lapsed, crashed>>
  PROVE  Stable'
<1>0. Shape /\ Parts /\ Steady /\ Senders /\ Adverts /\ Numbers /\ Heard /\ Routed
  BY DEF Inv, Stable
<1>1. /\ \A q \in Routers : q # r => sending'[q] = sending[q]
      /\ DOMAIN sending'[r] = DOMAIN sending[r] /\ sending'[r][th] = p
      /\ \A t \in DOMAIN sending[r] : t # th => sending'[r][t] = sending[r][t]
  BY <1>0 DEF Shape
<1>2. Senders'
  <2> SUFFICES ASSUME NEW q \in Routers PROVE SenderOk(q, sending'[q])
    BY DEF Senders, SenderOk, Filling, Filled, Full, Peers, OwnLans
  <2>1. SenderOk(q, sending[q])
    BY <1>0 DEF Senders
  <2>2. CASE q = r
    BY <1>1, <2>1, <2>2 DEF SenderOk
  <2>3. CASE q # r
    BY <1>1, <2>1, <2>3
  <2> QED
    BY <2>2, <2>3
<1>3. \A q \in Routers : DOMAIN sending'[q] = DOMAIN sending[q]
  BY <1>1
<1>4. Steady' /\ Adverts' /\ Numbers' /\ Routed'
  BY <1>0 DEF Steady, Adverts, Numbers, Routed
<1>5. Heard'
  BY <1>0, <1>3 DEF Heard, Fresh
<1> QED
  BY <1>2, <1>4, <1>5 DEF Stable

\* The first walk counts all links.
LEMMA CountStable ==
  ASSUME Inv, Stable, NEW r \in Routers, NEW th \in DOMAIN sending[r], Count(r, th)
  PROVE  Stable'
<1>1. Listed(r) = To(r, Full(r))
  BY SteadyIs DEF Stable
<1>2. PICK p : p = Filling(r)
  OBVIOUS
<1>3. sending' = [sending EXCEPT ![r][th] = p] /\ net = {}
  BY <1>1, <1>2 DEF Count, Turn, Filling
<1>4. UNCHANGED <<nbr, db, graph, subnets, route, net, up, fault, spent, bad, lapsed, crashed>>
  BY DEF Count, state, env
<1> QED
  BY <1>2, <1>3, <1>4, WalkStable

\* What the first walk has counted is still there for the second.
LEMMA FillStable ==
  ASSUME Inv, Stable, NEW r \in Routers, NEW th \in DOMAIN sending[r], Fill(r, th)
  PROVE  Stable'
<1>0. Shape /\ Steady /\ Senders
  BY DEF Inv, Stable
<1>1. PICK l \in Seq(Nat) : l = Listed(r) /\ ToSet(l) = Full(r) /\ l = To(r, Full(r))
  <2>1. Listed(r) = To(r, Full(r))
    BY <1>0, SteadyIs
  <2>2. To(r, Full(r)) \in Seq(Nat) /\ ToSet(To(r, Full(r))) = Full(r) \cap Full(r)
    BY ToIs
  <2> QED
    BY <2>1, <2>2
<1>2. PICK n \in Nat : n = Len(l)
  OBVIOUS
<1>3. sending[r][th].nadv = n /\ net = {}
  <2>1. sending[r][th] \in {Counting, Filling(r), Filled(r)}
    BY <1>0 DEF Senders, SenderOk
  <2>2. sending[r][th].at = "fill"
    BY DEF Fill
  <2>3. sending[r][th] = Filling(r)
    BY <2>1, <2>2 DEF Counting, Filled
  <2>4. Walking(r) # {}
    BY <2>2 DEF Walking
  <2> QED
    BY <1>0, <1>1, <1>2, <2>3, <2>4 DEF Filling, Senders
<1>4. SubSeq(l, 1, n) = l
  BY <1>2
<1>5. /\ \E x \in IF n > n THEN Full(r) \cup {Garbage} ELSE {None} :
           sending' = [sending EXCEPT ![r][th] = [at |-> "send", adv |-> (ToSet(SubSeq(l, 1, IF n < n THEN n ELSE n)) \cup {x}) \ {None}]]
      /\ crashed' \in IF n < n THEN BOOLEAN ELSE {FALSE}
  BY <1>1, <1>2, <1>3 DEF Fill
<1>6. (Full(r) \cup {None}) \ {None} = Full(r)
  BY Neighbours, Network
<1>7. PICK p : p = Filled(r)
  OBVIOUS
<1>8. sending' = [sending EXCEPT ![r][th] = p]
  <2>1. ~ (n < n) /\ ~ (n > n)
    OBVIOUS
  <2>2. sending' = [sending EXCEPT ![r][th] = [at |-> "send", adv |-> (ToSet(l) \cup {None}) \ {None}]]
    BY <1>4, <1>5, <2>1
  <2> QED
    BY <1>1, <1>6, <1>7, <2>2 DEF Filled
<1>9. UNCHANGED <<nbr, db, graph, subnets, route, net, up, fault, spent, bad, lapsed, crashed>>
  <2>1. ~ (n < n)
    OBVIOUS
  <2>2. crashed' = FALSE
    BY <1>5, <2>1, Zenon
  <2> QED
    BY <1>0, <2>2 DEF Fill, state, env, Steady
<1> QED
  BY <1>3, <1>7, <1>8, <1>9, WalkStable

\* What is on its way stays there, but for the LSU that is handled.
LEMMA ForwardStays ==
  ASSUME NEW m \in net, HandleLsu(m), ~ Fatal(m.at, ForwardTo(m.at, m))
  PROVE  crashed' = crashed /\ \A l \in net : l # m => l \in net'
  BY DEF HandleLsu

\* The entry of the originator after an LSU that was not behind, and all other entries.
Received(d, m, u) ==
  /\ DOMAIN u = DOMAIN d \cup {m.org} /\ u[m.org].age = 0
  /\ \A o \in DOMAIN d : o # m.org => u[o] = d[o]
  /\ \/ m.org \in DOMAIN d /\ u[m.org] = d[m.org]
     \/ u[m.org].adv = Full(m.org) /\ u[m.org].num <= 0

\* A database that takes such an LSU.
LEMMA UpdatedStable ==
  ASSUME NEW d, NEW m \in Lsu, m.num <= 0, m.adv = Full(m.org),
         m.org \in DOMAIN d => /\ d[m.org].age \in Nat /\ d[m.org].num \in Int
                               /\ d[m.org].age > 0 => m.num > d[m.org].num
  PROVE  Received(d, m, Updated(d, m))
<1>1. PICK e : e = [adv |-> m.adv, num |-> m.num, age |-> 0]
  OBVIOUS
<1>2. e.adv = m.adv /\ e.num = m.num /\ e.age = 0
  BY <1>1
<1>3. m.num \in Int
  BY DEF Lsu, Nums
<1>4. CASE m.org \in DOMAIN d /\ d[m.org].num >= m.num
  <2>1. Updated(d, m) = d
    BY <1>4 DEF Updated
  <2>2. d[m.org].age = 0
    BY <1>3, <1>4
  <2> QED
    BY <1>4, <2>1, <2>2 DEF Received
<1>5. CASE ~ (m.org \in DOMAIN d /\ d[m.org].num >= m.num)
  <2>1. Updated(d, m) = With(d, m.org, e)
    BY <1>1, <1>5 DEF Updated
  <2>2. /\ DOMAIN With(d, m.org, e) = DOMAIN d \cup {m.org} /\ With(d, m.org, e)[m.org] = e
        /\ \A y \in DOMAIN d : y # m.org => With(d, m.org, e)[y] = d[y]
    BY DEF With
  <2> QED
    BY <1>2, <2>1, <2>2 DEF Received
<1> QED
  BY <1>4, <1>5

\* An LSU of this period makes its originator heard.
LEMMA HandleLsuStable ==
  ASSUME Inv, Stable, NEW m \in net, HandleLsu(m)
  PROVE  Stable'
<1>0. Shape /\ Parts /\ Lsus /\ Steady /\ Senders /\ Adverts /\ Numbers /\ Heard /\ Routed
  BY DEF Inv, Stable
<1>1. LsuOk(m) /\ m \in Lsu /\ m.at \in Routers /\ m.org \in Routers /\ m.num <= 0 /\ m.adv = Full(m.org)
  BY <1>0 DEF Lsus, LsuOk, Lsu, Numbers, Adverts
<1>2. /\ DOMAIN db' = Routers /\ db'[m.at] = Updated(db[m.at], m)
      /\ \A q \in Routers : q # m.at => db'[q] = db[q]
      /\ \A l \in net' : l \in net \/ \E n \in DOMAIN nbr[m.at] \ {m.from, m.org} : l = Copy(m, n)
      /\ UNCHANGED <<nbr, graph, subnets, route, sending, up, fault, spent, bad, lapsed>>
  BY <1>0, <1>1, ForwardIs DEF Shape
<1>3. crashed' = crashed /\ \A l \in net : l # m => l \in net'
  <2>1. ForwardTo(m.at, m) \in SUBSET Peers(m.at)
    BY <1>0, <1>1, SteadyIs DEF ForwardTo
  <2> QED
    BY <1>0, <1>1, <2>1, NotFatal, ForwardStays
<1>4. ASSUME NEW l \in net' PROVE \E k \in net : l.org = k.org /\ l.num = k.num /\ l.adv = k.adv
  <2>1. ASSUME NEW n \in DOMAIN nbr[m.at], l = Copy(m, n) PROVE l.org = m.org /\ l.num = m.num /\ l.adv = m.adv
    <3>1. n \in Routers
      BY <1>0, <1>1, SteadyIs, Neighbours
    <3> QED
      BY <1>1, <2>1, <3>1, CopyIs
  <2> QED
    BY <1>2, <2>1
<1>5. PICK d : d = db[m.at]
  OBVIOUS
<1>6. m.org \in DOMAIN d => /\ d[m.org].age \in Nat /\ d[m.org].num \in Int
                            /\ d[m.org].age > 0 => m.num > d[m.org].num
  BY <1>0, <1>1, <1>5, EntryIs DEF Numbers
<1>7. PICK u : u = db'[m.at]
  OBVIOUS
<1>8. /\ DOMAIN u = DOMAIN d \cup {m.org} /\ u[m.org].age = 0
      /\ \A o \in DOMAIN d : o # m.org => u[o] = d[o]
      /\ \/ m.org \in DOMAIN d /\ u[m.org] = d[m.org]
         \/ u[m.org].adv = Full(m.org) /\ u[m.org].num <= 0
  <2>1. u = Updated(d, m)
    BY <1>2, <1>5, <1>7
  <2>2. Received(d, m, Updated(d, m))
    BY <1>1, <1>6, UpdatedStable
  <2>3. Received(d, m, u)
    BY <2>1, <2>2, Zenon
  <2> QED
    BY <2>3 DEF Received
<1>9. Steady' /\ Routed'
  BY <1>0, <1>2, <1>3 DEF Steady, Routed
<1>10. Senders'
  <2>1. \A q \in Routers : Walking(q) = {}
    BY <1>0 DEF Senders
  <2>2. \A q \in Routers : Walking(q)' = {}
    BY <1>2, <2>1 DEF Walking
  <2> QED
    BY <1>0, <1>2, <2>2 DEF Senders, SenderOk, Filling, Filled, Full, Peers, OwnLans
<1>11. \A q \in Routers : \A o \in DOMAIN db'[q] :
         \/ o \in DOMAIN db[q] /\ db'[q][o] = db[q][o]
         \/ q = m.at /\ o = m.org /\ u[o] = db'[q][o]
  BY <1>2, <1>5, <1>7, <1>8
<1>12. \A q \in Routers : \A o \in DOMAIN db'[q] : db'[q][o].adv = Full(o) /\ db'[q][o].num <= 0
  <2> SUFFICES ASSUME NEW q \in Routers, NEW o \in DOMAIN db'[q] PROVE db'[q][o].adv = Full(o) /\ db'[q][o].num <= 0
    OBVIOUS
  <2>1. \A p \in DOMAIN db[q] : db[q][p].adv = Full(p) /\ db[q][p].num <= 0
    BY <1>0 DEF Adverts, Numbers
  <2> QED
    BY <1>5, <1>8, <1>11, <2>1
<1>13. Adverts'
  BY <1>0, <1>4, <1>12 DEF Adverts, Full, Peers, OwnLans
<1>14. Numbers'
  <2>1. \A l \in net' : l.num <= 0
    BY <1>0, <1>4 DEF Numbers
  <2>2. ASSUME NEW l \in net', NEW q \in Routers, l.org \in DOMAIN db'[q], db'[q][l.org].age > 0
        PROVE  l.num > db'[q][l.org].num
    <3>1. PICK k \in net : l.org = k.org /\ l.num = k.num
      BY <1>4
    <3>2. l.org \in DOMAIN db[q] /\ db'[q][l.org] = db[q][l.org]
      BY <1>8, <1>11, <2>2
    <3> QED
      BY <1>0, <2>2, <3>1, <3>2 DEF Numbers
  <2> QED
    BY <1>12, <2>1, <2>2 DEF Numbers
<1>15. Heard'
  <2> SUFFICES ASSUME NEW n \in Routers, NEW r \in Peers(n)
               PROVE  /\ n \in DOMAIN db'[r] /\ db'[r][n].age <= 2
                      /\ bad # None \/ ~ spent => db'[r][n].age <= 1
                      /\ (n # bad \/ ~ spent) /\ DOMAIN sending[n] = {} => Fresh(r, n)'
    BY <1>2 DEF Heard
  <2>1. r \in Routers
    BY Neighbours
  <2>2. /\ n \in DOMAIN db[r] /\ db[r][n].age <= 2
        /\ bad # None \/ ~ spent => db[r][n].age <= 1
        /\ (n # bad \/ ~ spent) /\ DOMAIN sending[n] = {} => Fresh(r, n)
    BY <1>0, <2>1 DEF Heard
  <2>3. CASE r = m.at /\ n = m.org
    BY <1>7, <1>8, <2>3 DEF Fresh
  <2>4. CASE ~ (r = m.at /\ n = m.org)
    <3>1. n \in DOMAIN db'[r] /\ db'[r][n] = db[r][n]
      BY <1>2, <1>5, <1>7, <1>8, <2>1, <2>2, <2>4
    <3>2. Fresh(r, n) => Fresh(r, n)'
      BY <1>3, <2>4, <3>1 DEF Fresh
    <3> QED
      BY <2>2, <3>1, <3>2
  <2> QED
    BY <2>3, <2>4
<1> QED
  BY <1>9, <1>10, <1>13, <1>14, <1>15 DEF Stable

\* The numbers of a router after its LSUs have been sent, if no counter wraps.
LEMMA ShiftedBack ==
  ASSUME NEW num \in Int, num <= 0, NEW k \in Nat, k <= Window
  PROVE  Shifted(num, k, 0) \in Int /\ Shifted(num, k, 0) <= - k
<1>1. Window \in Nat
  BY Network
<1>2. Shifted(num, k, 0) = IF num - k < - Window THEN - Window ELSE num - k
  BY DEF Shifted, Behind
<1> QED
  BY <1>1, <1>2

\* What the third walk sends when nothing was on its way: an LSU to each neighbour, with
\* the highest numbers.
Announced(r, k) ==
  /\ \A m \in net' : m.org = r /\ m.adv = Full(r) /\ m.num \in Int /\ - k < m.num /\ m.num <= 0
  /\ \A n \in Peers(r) : \E m \in net' : m.at = n /\ m.org = r
Renewed(r, k) ==
  \A q \in Routers :
    /\ DOMAIN db'[q] = DOMAIN db[q]
    /\ \A o \in DOMAIN db[q] :
         /\ o # r => db'[q][o] = db[q][o]
         /\ db'[q][o].adv = db[q][o].adv /\ db'[q][o].age = db[q][o].age
         /\ o = r => db'[q][o].num \in Int /\ db'[q][o].num <= - k

\* The third walk announces the router, and renews nothing but numbers.
LEMMA SendsStable ==
  ASSUME Parts, Adverts, Numbers, up = Routers, net = {}, NEW r \in Routers,
         NEW to, to = To(r, Peers(r)), NEW k, k = Len(to), Sends(r, Full(r), to, k, 0)
  PROVE  k \in Nat /\ Announced(r, k) /\ Renewed(r, k)
<1>1. to \in Seq(Nat) /\ ToSet(to) = Peers(r)
  <2>1. to \in Seq(Nat) /\ ToSet(to) = Full(r) \cap Peers(r)
    BY ToIs
  <2> QED
    BY <2>1, Neighbours
<1>2. k \in Nat /\ k <= Window
  <2>1. k \in Nat /\ k <= Degree(r)
    BY ToFew
  <2>2. Degree(r) \in Nat /\ 2 * Degree(r) <= Window /\ Window \in Nat
    BY FewPeers, Network DEF Degree
  <2> QED
    BY <2>1, <2>2
<1>3. /\ \A i \in 1 .. k : to[i] \in Peers(r) /\ to[i] \in up
      /\ \A n \in Peers(r) : \E i \in 1 .. k : to[i] = n
  BY <1>1, Neighbours DEF ToSet
<1>4. net' = {Sent(r, Full(r), to[i], i, k, 0) : i \in 1 .. k}
  <2>1. {i \in 1 .. k : to[i] \in up} = 1 .. k
    BY <1>3
  <2>2. net' = {[m EXCEPT !.num = Shifted(m.num, k, 0)] : m \in net}
                 \cup {Sent(r, Full(r), to[i], i, k, 0) : i \in {i \in 1 .. k : to[i] \in up}}
    BY DEF Sends
  <2> QED
    BY <2>1, <2>2
<1>5. ASSUME NEW i \in 1 .. k, NEW m, m = Sent(r, Full(r), to[i], i, k, 0)
      PROVE  m.at = to[i] /\ m.org = r /\ m.adv = Full(r) /\ m.num \in Int /\ - k < m.num /\ m.num <= 0
  <2>1. m.at = to[i] /\ m.org = r /\ m.adv = Full(r) /\ m.num = i - k
    BY <1>2, <1>5 DEF Sent, Nth
  <2> QED
    BY <1>2, <2>1
<1>6. \A m \in net' : m.org = r /\ m.adv = Full(r) /\ m.num \in Int /\ - k < m.num /\ m.num <= 0
  BY <1>4, <1>5
<1>7. \A n \in Peers(r) : \E m \in net' : m.at = n /\ m.org = r
  <2> SUFFICES ASSUME NEW n \in Peers(r) PROVE \E m \in net' : m.at = n /\ m.org = r
    OBVIOUS
  <2>1. PICK i \in 1 .. k : to[i] = n
    BY <1>3
  <2>2. PICK m : m = Sent(r, Full(r), to[i], i, k, 0)
    OBVIOUS
  <2> QED
    BY <1>4, <1>5, <2>1, <2>2
<1>8. Renewed(r, k)
  <2> SUFFICES ASSUME NEW q \in Routers, NEW o \in DOMAIN db[q]
               PROVE  /\ o # r => db'[q][o] = db[q][o]
                      /\ db'[q][o].adv = db[q][o].adv /\ db'[q][o].age = db[q][o].age
                      /\ o = r => db'[q][o].num \in Int /\ db'[q][o].num <= - k
    <3>1. \A q \in Routers : DOMAIN db'[q] = DOMAIN db[q]
      BY DEF Sends
    <3> QED
      BY <3>1 DEF Renewed
  <2>1. /\ DOMAIN db'[q] = DOMAIN db[q]
        /\ db'[q][o] = IF o = r THEN [db[q][o] EXCEPT !.num = Shifted(db[q][o].num, k, 0)] ELSE db[q][o]
    BY DEF Sends
  <2>2. PICK e \in EntryOf(o) : e = db[q][o]
    BY EntryIs
  <2>3. e.num \in Int /\ e.num <= 0
    BY <2>2, EntryIs DEF Numbers
  <2>4. PICK x \in Int : x = Shifted(e.num, k, 0) /\ x <= - k
    BY <1>2, <2>3, ShiftedBack
  <2>5. [e EXCEPT !.num = x].num = x /\ [e EXCEPT !.num = x].adv = e.adv /\ [e EXCEPT !.num = x].age = e.age
    BY DEF EntryOf
  <2> QED
    BY <2>1, <2>2, <2>4, <2>5
<1> QED
  BY <1>2, <1>6, <1>7, <1>8 DEF Announced

\* The LSUs of the period leave: one to each neighbour, ahead of every database.
LEMMA SendStable ==
  ASSUME Inv, Stable, fault = "loss", NEW r \in Routers, NEW th \in DOMAIN sending[r], Send(r, th)
  PROVE  Stable'
<1>0. /\ Shape /\ Parts /\ Turns
      /\ Steady /\ Senders /\ Adverts /\ Numbers /\ Heard /\ Routed
  BY DEF Inv, Stable
<1>1. PICK to : to = To(r, DOMAIN nbr[r])
  OBVIOUS
<1>2. PICK k : k = Len(to)
  OBVIOUS
<1>3. /\ sending[r][th].at = "send" /\ sending' = [sending EXCEPT ![r] = Without(@, th)]
      /\ UNCHANGED <<nbr, graph, subnets, route, up, fault, bad, lapsed>>
      /\ \E w \in 0 .. k :
           /\ w > 0 => fault = "wrap" /\ ~ spent
           /\ spent' = (spent \/ w > 0)
           /\ \/ Fatal(r, ToSet(to)) /\ crashed' = TRUE /\ UNCHANGED <<db, net>>
              \/ ~ Fatal(r, ToSet(to)) /\ crashed' = crashed /\ Sends(r, sending[r][th].adv, to, k, w)
  BY <1>1, <1>2, SendIs
<1>4. DOMAIN nbr[r] = Peers(r) /\ to = To(r, Peers(r)) /\ up = Routers
  BY <1>0, <1>1, SteadyIs DEF Steady
<1>5. ToSet(to) \subseteq Peers(r) /\ k \in Nat
  <2>1. to \in Seq(Nat) /\ ToSet(to) = Full(r) \cap Peers(r)
    BY <1>4, ToIs
  <2> QED
    BY <1>2, <2>1
<1>6. ~ Fatal(r, ToSet(to))
  BY <1>0, <1>5, NotFatal
<1>7. th = "lsu" /\ sending[r][th].adv = Full(r) /\ th \in Walking(r)
  <2>1. th = "lsu" /\ sending[r][th] \in {Counting, Filling(r), Filled(r)}
    BY <1>0 DEF Senders, SenderOk
  <2> QED
    BY <1>3, <2>1 DEF Counting, Filling, Filled, Walking
<1>8. net = {} /\ \A q \in Routers : q # r => Walking(q) = {}
  BY <1>0, <1>7 DEF Senders, Turns, OneWalks
<1>9. crashed' = crashed /\ spent' = spent /\ Sends(r, Full(r), to, k, 0)
  <2>1. PICK w \in 0 .. k :
          /\ w > 0 => fault = "wrap"
          /\ spent' = (spent \/ w > 0)
          /\ \/ Fatal(r, ToSet(to)) /\ crashed' = TRUE /\ UNCHANGED <<db, net>>
             \/ ~ Fatal(r, ToSet(to)) /\ crashed' = crashed /\ Sends(r, sending[r][th].adv, to, k, w)
    BY <1>3
  <2>2. w = 0
    BY <1>5, <2>1
  <2>3. spent \in BOOLEAN
    BY DEF Inv, Flags
  <2>4. spent' = spent
    BY <2>1, <2>2, <2>3
  <2> QED
    BY <1>6, <1>7, <2>1, <2>2, <2>4
<1>10. k \in Nat /\ Announced(r, k) /\ Renewed(r, k)
  BY <1>0, <1>2, <1>4, <1>8, <1>9, SendsStable
<1>11. /\ DOMAIN sending[r] = {"lsu"} /\ DOMAIN sending'[r] = {} /\ Walking(r)' = {}
       /\ \A q \in Routers : q # r => sending'[q] = sending[q] /\ Walking(q)' = Walking(q)
  <2>1. DOMAIN sending[r] = {"lsu"}
    BY <1>0, <1>7 DEF Senders, SenderOk
  <2>2. SendOk(r, sending[r]) /\ DOMAIN sending = Routers
    BY <1>0 DEF Shape, Parts
  <2>3. /\ \A q \in Routers : q # r => sending'[q] = sending[q]
        /\ DOMAIN sending'[r] = DOMAIN sending[r] \ {th}
        /\ \A q \in Routers : q # r => Walking(q)' = Walking(q)
        /\ Walking(r)' = Walking(r) \ {th}
    BY <1>3, <2>2, Returns
  <2>4. Walking(r) \subseteq {"lsu"}
    BY <2>1 DEF Walking
  <2> QED
    BY <1>7, <2>1, <2>3, <2>4
<1>12. Steady' /\ Routed'
  BY <1>0, <1>3, <1>9 DEF Steady, Routed
<1>13. Senders'
  <2> SUFFICES ASSUME NEW q \in Routers PROVE SenderOk(q, sending'[q]) /\ Walking(q)' = {}
    BY DEF Senders, SenderOk, Filling, Filled, Full, Peers, OwnLans
  <2>1. SenderOk(q, sending[q])
    BY <1>0 DEF Senders
  <2> QED
    BY <1>8, <1>11, <2>1 DEF SenderOk
<1>14. Adverts'
  BY <1>0, <1>10 DEF Adverts, Announced, Renewed, Full, Peers, OwnLans
<1>15. Numbers'
  <2>1. \A q \in Routers : \A o \in DOMAIN db'[q] : db'[q][o].num <= 0
    <3> SUFFICES ASSUME NEW q \in Routers, NEW o \in DOMAIN db'[q] PROVE db'[q][o].num <= 0
      OBVIOUS
    <3>1. o \in DOMAIN db[q] /\ (o # r => db'[q][o] = db[q][o]) /\ (o = r => db'[q][o].num \in Int /\ db'[q][o].num <= - k)
      BY <1>10 DEF Renewed
    <3>2. CASE o = r
      BY <1>10, <3>1, <3>2
    <3>3. CASE o # r
      BY <1>0, <3>1, <3>3 DEF Numbers
    <3> QED
      BY <3>2, <3>3
  <2>2. ASSUME NEW m \in net', NEW q \in Routers, m.org \in DOMAIN db'[q] PROVE m.num > db'[q][m.org].num
    <3>1. m.org = r /\ m.num \in Int /\ - k < m.num
      BY <1>10 DEF Announced
    <3>2. db'[q][r].num \in Int /\ db'[q][r].num <= - k
      BY <1>10, <2>2, <3>1 DEF Renewed
    <3> QED
      BY <1>10, <3>1, <3>2
  <2> QED
    BY <1>10, <2>1, <2>2 DEF Numbers, Announced
<1>16. Heard'
  <2> SUFFICES ASSUME NEW n \in Routers, NEW q \in Peers(n)
               PROVE  /\ n \in DOMAIN db'[q] /\ db'[q][n].age <= 2
                      /\ bad # None \/ ~ spent => db'[q][n].age <= 1
                      /\ (n # bad \/ ~ spent) /\ DOMAIN sending'[n] = {} => Fresh(q, n)'
    BY <1>3, <1>9 DEF Heard
  <2>1. q \in Routers
    BY Neighbours
  <2>2. /\ n \in DOMAIN db[q] /\ db[q][n].age <= 2
        /\ bad # None \/ ~ spent => db[q][n].age <= 1
        /\ (n # bad \/ ~ spent) /\ DOMAIN sending[n] = {} => Fresh(q, n)
    BY <1>0, <2>1 DEF Heard
  <2>3. n \in DOMAIN db'[q] /\ db'[q][n].age = db[q][n].age
    BY <1>10, <2>1, <2>2 DEF Renewed
  <2>4. CASE n = r
    BY <1>10, <2>2, <2>3, <2>4 DEF Announced, Fresh
  <2>5. CASE n # r
    BY <1>8, <1>11, <2>2, <2>3, <2>5 DEF Fresh
  <2> QED
    BY <2>4, <2>5
<1> QED
  BY <1>12, <1>13, <1>14, <1>15, <1>16 DEF Stable

\* As long as no neighbour's entry has been dropped, all is stable; once one has, an LSU
\* had been lost, and the timeout is short.
Lasting ==
  fault = "loss" => /\ ~ lapsed => Stable
                    /\ lapsed => spent /\ DbTimeout < 3

\* What has gone wrong stays so.
LEMMA Remains ==
  ASSUME Inv, Next
  PROVE  /\ fault' = fault /\ (spent => spent')
         /\ lapsed' = lapsed \/ \E r \in Routers : \E o \in DOMAIN db[r] : ExpireDb(r, o)
<1>1. CASE Flood
  <2>1. ASSUME NEW r \in Routers, NEW th \in DOMAIN sending[r], Send(r, th)
        PROVE  fault' = fault /\ (spent => spent') /\ lapsed' = lapsed
    BY <2>1 DEF Send
  <2>2. ASSUME NEW r \in Routers, NEW th \in DOMAIN sending[r], Count(r, th) \/ Fill(r, th)
        PROVE  fault' = fault /\ spent' = spent /\ lapsed' = lapsed
    BY <2>2 DEF Count, Fill, env
  <2>3. ASSUME NEW m \in net, HandleLsu(m)
        PROVE  fault' = fault /\ spent' = spent /\ lapsed' = lapsed
    BY <2>3 DEF HandleLsu, env
  <2> QED
    BY <1>1, <2>1, <2>2, <2>3 DEF Flood
<1>2. CASE Discover \/ Compute \/ Tick
  <2>1. ASSUME NEW r \in Routers, NEW n \in Routers, HandleHello(r, n)
        PROVE  fault' = fault /\ spent' = spent /\ lapsed' = lapsed
    BY <2>1 DEF HandleHello, env
  <2>2. ASSUME NEW r \in Routers, Route(r)
        PROVE  fault' = fault /\ spent' = spent /\ lapsed' = lapsed
    BY <2>2 DEF Route, env
  <2>3. ASSUME Tick PROVE fault' = fault /\ spent' = spent /\ lapsed' = lapsed
    BY <2>3 DEF Tick
  <2> QED
    BY <1>2, <2>1, <2>2, <2>3 DEF Discover, Compute
<1>3. CASE Expire
  BY <1>3 DEF Expire, ExpireNbr, ExpireDb, env
<1>4. CASE Fault
  BY <1>4 DEF Fault, Lose, Stop, Start
<1> QED
  BY <1>1, <1>2, <1>3, <1>4 DEF Next, Work

\* A step that drops no entry of a database.
LEMMA StableStep ==
  ASSUME Inv, Stable, fault = "loss", Next, ~ \E r \in Routers : \E o \in DOMAIN db[r] : ExpireDb(r, o)
  PROVE  Stable'
<1>1. CASE Flood
  <2>1. ASSUME NEW r \in Routers, NEW th \in DOMAIN sending[r], Count(r, th) PROVE Stable'
    BY <2>1, CountStable
  <2>2. ASSUME NEW r \in Routers, NEW th \in DOMAIN sending[r], Fill(r, th) PROVE Stable'
    BY <2>2, FillStable
  <2>3. ASSUME NEW r \in Routers, NEW th \in DOMAIN sending[r], Send(r, th) PROVE Stable'
    BY <2>3, SendStable
  <2>4. ASSUME NEW m \in net, HandleLsu(m) PROVE Stable'
    BY <2>4, HandleLsuStable
  <2> QED
    BY <1>1, <2>1, <2>2, <2>3, <2>4 DEF Flood
<1>2. CASE Discover
  BY <1>2, NobodyGoes DEF Discover
<1>3. CASE Expire
  BY <1>3, NobodyGoes DEF Expire
<1>4. CASE Tick
  BY <1>4, TickStable
<1>5. CASE Compute
  BY <1>5, RouteStable DEF Compute
<1>6. CASE Fault
  BY <1>6, NobodyGoes, LoseStable DEF Fault
<1> QED
  BY <1>1, <1>2, <1>3, <1>4, <1>5, <1>6 DEF Next, Work

\* As long as nothing worse happens than the loss of LSUs.
LEMMA LastingNext ==
  ASSUME Inv, DbTimeout >= 2, Lasting, [Next]_vars
  PROVE  Lasting'
<1>1. CASE UNCHANGED vars
  <2>1. /\ UNCHANGED <<nbr, db, graph, subnets, route>> /\ UNCHANGED <<up, fault, spent, bad, lapsed>>
        /\ UNCHANGED <<sending, net, crashed>>
    BY <1>1 DEF vars, state, env
  <2>2. \A r \in Routers : Walking(r)' = Walking(r)
    BY <2>1 DEF Walking
  <2>3. Senders => Senders'
    BY <2>1, <2>2 DEF Senders, SenderOk, Filling, Filled, Full, Peers, OwnLans
  <2>4. Heard => Heard'
    BY <2>1 DEF Heard, Fresh
  <2>5. (Steady => Steady') /\ (Adverts => Adverts') /\ (Numbers => Numbers') /\ (Routed => Routed')
    BY <2>1 DEF Steady, Adverts, Full, Peers, OwnLans, Numbers, Routed
  <2> QED
    BY <2>1, <2>3, <2>4, <2>5 DEF Stable, Lasting
<1>2. CASE Next
  <2> SUFFICES ASSUME fault' = "loss"
               PROVE  (~ lapsed' => Stable') /\ (lapsed' => spent' /\ DbTimeout < 3)
    BY DEF Lasting
  <2>1. /\ fault = "loss" /\ (spent => spent')
        /\ lapsed' = lapsed \/ \E r \in Routers : \E o \in DOMAIN db[r] : ExpireDb(r, o)
    BY <1>2, Remains
  <2>2. CASE \E r \in Routers : \E o \in DOMAIN db[r] : ExpireDb(r, o)
    <3>1. PICK r \in Routers : \E o \in DOMAIN db[r] : ExpireDb(r, o)
      BY <2>2
    <3>2. PICK o \in DOMAIN db[r] : ExpireDb(r, o)
      BY <3>1
    <3>3. CASE lapsed
      <4>1. lapsed'
        BY <2>1, <3>2, <3>3 DEF ExpireDb
      <4> QED
        BY <2>1, <3>3, <4>1 DEF Lasting
    <3>4. CASE ~ lapsed
      <4>1. Stable
        BY <2>1, <3>4 DEF Lasting
      <4> QED
        BY <2>1, <3>2, <3>4, <4>1, ExpireDbLapses, ExpireDbStable
    <3> QED
      BY <3>3, <3>4
  <2>3. CASE ~ \E r \in Routers : \E o \in DOMAIN db[r] : ExpireDb(r, o)
    BY <1>2, <2>1, <2>3, StableStep DEF Lasting
  <2> QED
    BY <2>2, <2>3
<1> QED
  BY <1>1, <1>2

\* With a timeout of two periods (10 s, and an LSU every 5 s) a daemon may crash when LSUs
\* are lost, but not before the database entry of a neighbour has expired, and none
\* expires unless an LSU has been lost.  With three periods none expires and no daemon
\* crashes though all LSUs of a router may be lost in one period out of two: a database
\* then holds the neighbours when deal_rtable reads it, so no route to them is ever
\* without interface.
THEOREM LossIsSurvived == Spec => [](DbTimeout >= 2 => StableLives)
<1>1. Init => Inv /\ (DbTimeout >= 2 => Lasting)
  <2>1. Init => ~ lapsed
    BY DEF Init
  <2> QED
    BY <2>1, InitInv, StableInit DEF Lasting
<1>2. (Inv /\ (DbTimeout >= 2 => Lasting)) /\ [Next]_vars => (Inv /\ (DbTimeout >= 2 => Lasting))'
  BY NextInv, LastingNext
<1>3. Inv /\ (DbTimeout >= 2 => Lasting) => (DbTimeout >= 2 => StableLives)
  BY DEF Lasting, Stable, Steady, StableLives
<1> QED
  BY <1>1, <1>2, <1>3, PTL DEF Spec

-----------------------------------------------------------------------------
(* The shortest paths, and what is sent along them.                         *)

\* The ends of an edge.
LEMMA EdgeIs ==
  ASSUME NEW e \in Edges
  PROVE  \E r \in Routers : \E v \in Full(r) : e = {r, v} /\ r # v /\ v \in Vertices
<1>1. PICK r \in Routers : \E v \in ToSet(Ifaces[r]) : e = {r, v}
  BY DEF Edges
<1>a. PICK v \in ToSet(Ifaces[r]) : e = {r, v}
  BY <1>1
<1>2. v \in Full(r) /\ v \in Vertices
  BY Neighbours
<1>3. r # v
  BY MospfAssumption
<1> QED
  BY <1>a, <1>2, <1>3

\* An edge between two vertices; one of them is a router.
LEMMA EdgeOf ==
  ASSUME NEW u, NEW v, {u, v} \in Edges
  PROVE  /\ u \in Vertices /\ v \in Vertices /\ u # v
         /\ u \in Routers => v \in Full(u)
         /\ u \notin Routers => v \in Routers /\ u \in OwnLans(v)
<1>a. PICK r \in Routers : \E w \in Full(r) : {u, v} = {r, w} /\ r # w /\ w \in Vertices
  BY EdgeIs
<1>1. PICK w \in Full(r) : {u, v} = {r, w} /\ r # w /\ w \in Vertices
  BY <1>a
<1>2. (u = r /\ v = w) \/ (u = w /\ v = r)
  BY <1>1
<1>3. r \in Vertices
  BY Network
<1>4. w \in Routers => r \in Peers(w) /\ w \in Peers(r)
  BY <1>1, Neighbours, Network, MospfAssumption DEF OwnLans, Lans
<1>5. w \notin Routers => w \in OwnLans(r)
  BY <1>1, Neighbours
<1>6. w \in Routers => r \in Full(w)
  BY <1>4, Neighbours
<1> QED
  BY <1>1, <1>2, <1>3, <1>5, <1>6

\* The vertices are finitely many, and a set that leaves one out, or two, is smaller.
LEMMA Smaller ==
  ASSUME NEW r \in Routers, NEW s \in SUBSET Vertices
  PROVE  /\ IsFiniteSet(s) /\ Cardinality(s) \in Nat
         /\ \A u \in Vertices \ s : /\ Cardinality(s \cup {u}) = Cardinality(s) + 1
                                    /\ Cardinality(s) + 1 <= Unreached
                                    /\ \A v \in Vertices \ s : v # u => Cardinality(s) + 2 <= Unreached
<1>1. IsFiniteSet(Vertices) /\ Cardinality(Vertices) = Unreached
  BY FiniteVertices DEF Unreached
<1>2. ASSUME NEW t \in SUBSET Vertices
      PROVE  IsFiniteSet(t) /\ Cardinality(t) \in Nat /\ Cardinality(t) <= Unreached
  BY <1>1, FS_Subset, FS_CardinalityType
<1>3. ASSUME NEW t \in SUBSET Vertices, NEW u \in Vertices \ t
      PROVE  /\ Cardinality(t \cup {u}) = Cardinality(t) + 1 /\ Cardinality(t) + 1 <= Unreached
             /\ t \cup {u} \in SUBSET Vertices
  <2>1. Cardinality(t \cup {u}) = Cardinality(t) + 1
    BY <1>2, FS_AddElement
  <2>2. t \cup {u} \in SUBSET Vertices
    OBVIOUS
  <2> QED
    BY <1>2, <2>1, <2>2
<1>4. ASSUME NEW u \in Vertices \ s, NEW v \in Vertices \ s, v # u
      PROVE  Cardinality(s) + 2 <= Unreached
  <2>1. PICK t \in SUBSET Vertices : t = s \cup {u}
    OBVIOUS
  <2>2. v \in Vertices \ t
    BY <1>4, <2>1
  <2>3. Cardinality(t) + 1 <= Unreached /\ Cardinality(t) = Cardinality(s) + 1 /\ Cardinality(s) \in Nat
    BY <1>2, <1>3, <2>1, <2>2
  <2>4. Unreached \in Nat
    BY Finite
  <2> QED
    BY <2>3, <2>4
<1> QED
  BY <1>2, <1>3, <1>4

\* What has been done is done for good: it is at least as near as the rest, and so
\* are its neighbours but for one hop.  No path is longer than the vertices on it.
Settled(s) ==
  /\ \A u \in s.done : s.dist[u] < Cardinality(s.done)
  /\ \A u \in s.done : \A v \in Vertices \ s.done : s.dist[u] <= s.dist[v]
  /\ \A u \in s.done : \A v \in Vertices : {u, v} \in Edges => s.dist[v] <= s.dist[u] + 1
  /\ \A v \in Vertices : /\ s.dist[v] <= Unreached
                         /\ s.dist[v] < Unreached => s.dist[v] <= Cardinality(s.done)
\* What has been reached has been so over its predecessor.
Led(src, s) ==
  \A v \in Vertices \ {src} : s.dist[v] < Unreached =>
     s.prev[v] \in s.done /\ {s.prev[v], v} \in Edges /\ s.dist[v] = s.dist[s.prev[v]] + 1

\* A round keeps that.
LEMMA VisitedSettles ==
  ASSUME NEW src \in Routers, NEW s \in Labels(src), Settled(s), Led(src, s),
         NEW u \in Reached(s), \A v \in Reached(s) : s.dist[u] <= s.dist[v]
  PROVE  LET t == Visited(Edges, s, u)
         IN  Settled(t) /\ Led(src, t) /\ Cardinality(t.done) = Cardinality(s.done) + 1
<1> DEFINE t == Visited(Edges, s, u)
<1> SUFFICES Settled(t) /\ Led(src, t) /\ Cardinality(t.done) = Cardinality(s.done) + 1
  OBVIOUS
<1>1. /\ s.done \in SUBSET Vertices /\ s.dist \in [Vertices -> Nat] /\ s.prev \in [Vertices -> Vertices \cup {None}]
      /\ s.dist[src] = 0 /\ s.prev[src] = None
  BY DEF Labels
<1>2. u \in Vertices \ s.done /\ s.dist[u] < Unreached
  BY DEF Reached
<1>3. PICK n \in Nat : n = Unreached
  BY Finite
<1>4. PICK c \in Nat : c = Cardinality(s.done) /\ c + 1 <= n
  BY <1>1, <1>2, <1>3, Smaller
<1>5. Cardinality(s.done \cup {u}) = c + 1
  BY <1>1, <1>2, <1>4, Smaller
<1>6. PICK d \in Nat : d = s.dist[u]
  BY <1>1, <1>2
<1>7. /\ t.done = s.done \cup {u}
      /\ \A v \in Vertices : /\ t.dist[v] = IF v \in Nearer(Edges, s, u) THEN d + 1 ELSE s.dist[v]
                             /\ t.prev[v] = IF v \in Nearer(Edges, s, u) THEN u ELSE s.prev[v]
  BY <1>6 DEF Visited, Label
<1> HIDE DEF t
<1>8. \A v \in Vertices : s.dist[v] \in Nat /\ t.dist[v] \in Nat
  BY <1>1, <1>7
<1>9. \A v \in Vertices : v \in Nearer(Edges, s, u) <=> v \notin s.done /\ {u, v} \in Edges /\ d + 1 < s.dist[v]
  BY <1>6 DEF Nearer
<1>10. ASSUME NEW w \in t.done PROVE t.dist[w] = s.dist[w]
  <2>1. w \in Vertices /\ (w \in s.done \/ w = u)
    BY <1>1, <1>2, <1>7
  <2>2. w = u => ~ (d + 1 < s.dist[w])
    BY <1>6
  <2>3. w \notin Nearer(Edges, s, u)
    BY <1>9, <2>1, <2>2
  <2> QED
    BY <1>7, <2>1, <2>3
<1>11. \A v \in Vertices \ s.done : d <= s.dist[v]
  <2> SUFFICES ASSUME NEW v \in Vertices \ s.done PROVE d <= s.dist[v]
    OBVIOUS
  <2>1. v \in Reached(s) \/ s.dist[v] >= n
    BY <1>3, <1>8 DEF Reached
  <2> QED
    BY <1>2, <1>3, <1>6, <1>8, <2>1
<1>12. /\ \A w \in s.done : s.dist[w] < c
       /\ \A w \in s.done : \A v \in Vertices \ s.done : s.dist[w] <= s.dist[v]
       /\ \A w \in s.done : \A v \in Vertices : {w, v} \in Edges => s.dist[v] <= s.dist[w] + 1
       /\ \A v \in Vertices : s.dist[v] <= n /\ (s.dist[v] < n => s.dist[v] <= c)
  BY <1>3, <1>4 DEF Settled
<1>13. d < n /\ d <= c
  BY <1>2, <1>3, <1>6, <1>12
<1>14. \A w \in t.done : t.dist[w] < c + 1
  BY <1>1, <1>6, <1>7, <1>8, <1>10, <1>12, <1>13
<1>15. ASSUME NEW w \in t.done, NEW v \in Vertices \ t.done PROVE t.dist[w] <= t.dist[v]
  <2>1. t.dist[w] <= d
    BY <1>1, <1>2, <1>6, <1>7, <1>10, <1>12
  <2>2. d <= t.dist[v]
    BY <1>7, <1>8, <1>11
  <2>3. w \in Vertices
    BY <1>1, <1>2, <1>7
  <2> QED
    BY <1>8, <2>1, <2>2, <2>3
<1>16. ASSUME NEW w \in t.done, NEW v \in Vertices, {w, v} \in Edges PROVE t.dist[v] <= t.dist[w] + 1
  <2>1. t.dist[v] <= s.dist[v]
    <3>1. v \in Nearer(Edges, s, u) => d + 1 < s.dist[v]
      BY <1>9
    <3>2. s.dist[v] \in Nat /\ t.dist[v] = IF v \in Nearer(Edges, s, u) THEN d + 1 ELSE s.dist[v]
      BY <1>7, <1>8
    <3> QED
      BY <3>1, <3>2
  <2>2. CASE w \in s.done
    <3>1. s.dist[v] <= s.dist[w] + 1 /\ w \in Vertices
      BY <1>1, <1>12, <1>16, <2>2
    <3> QED
      BY <1>8, <1>10, <2>1, <3>1
  <2>3. CASE w = u
    <3>1. t.dist[w] = d
      BY <1>6, <1>10, <2>3
    <3>2. CASE v \in s.done
      BY <1>2, <1>6, <1>8, <1>12, <2>1, <3>1, <3>2
    <3>3. CASE v \notin s.done
      <4>1. v \in Nearer(Edges, s, u) \/ ~ (d + 1 < s.dist[v])
        BY <1>9, <1>16, <2>3, <3>3
      <4> QED
        BY <1>7, <1>8, <3>1, <4>1
    <3> QED
      BY <3>2, <3>3
  <2> QED
    BY <1>7, <2>2, <2>3
<1>17. ASSUME NEW v \in Vertices PROVE t.dist[v] <= n /\ (t.dist[v] < n => t.dist[v] <= c + 1)
  <2>1. CASE v \in Nearer(Edges, s, u)
    <3>1. t.dist[v] = d + 1 /\ d + 1 < s.dist[v] /\ s.dist[v] <= n
      BY <1>7, <1>9, <1>12, <2>1
    <3> QED
      BY <1>8, <1>13, <3>1
  <2>2. CASE v \notin Nearer(Edges, s, u)
    BY <1>7, <1>8, <1>12, <2>2
  <2> QED
    BY <2>1, <2>2
<1>18. Settled(t)
  BY <1>3, <1>5, <1>7, <1>14, <1>15, <1>16, <1>17 DEF Settled
<1>19. ASSUME NEW v \in Vertices \ {src}, t.dist[v] < Unreached
       PROVE  t.prev[v] \in t.done /\ {t.prev[v], v} \in Edges /\ t.dist[v] = t.dist[t.prev[v]] + 1
  <2>1. CASE v \in Nearer(Edges, s, u)
    <3>1. t.prev[v] = u /\ u \in t.done /\ t.dist[v] = d + 1 /\ {u, v} \in Edges
      BY <1>7, <1>9, <2>1
    <3>2. t.dist[u] = d
      BY <1>6, <1>10, <3>1
    <3> QED
      BY <3>1, <3>2
  <2>2. CASE v \notin Nearer(Edges, s, u)
    <3>1. t.prev[v] = s.prev[v] /\ t.dist[v] = s.dist[v]
      BY <1>7, <2>2
    <3>2. s.prev[v] \in s.done /\ {s.prev[v], v} \in Edges /\ s.dist[v] = s.dist[s.prev[v]] + 1
      BY <1>19, <3>1 DEF Led
    <3>3. s.prev[v] \in t.done
      BY <1>7, <3>2
    <3>4. t.dist[s.prev[v]] = s.dist[s.prev[v]]
      BY <1>10, <3>3
    <3> QED
      BY <3>1, <3>2, <3>3, <3>4
  <2> QED
    BY <2>1, <2>2
<1>20. Led(src, t)
  BY <1>19 DEF Led
<1> QED
  BY <1>4, <1>5, <1>7, <1>18, <1>20

\* After k rounds, k vertices are done, or all that can be reached.
Round(src, k, s) ==
  s \in Labels(src) /\ Settled(s) /\ Led(src, s) /\ (Cardinality(s.done) = k \/ Reached(s) = {})

\* One round more.
LEMMA RoundIs ==
  ASSUME NEW src \in Routers, NEW k \in Nat, NEW s, Round(src, k, s)
  PROVE  Round(src, k + 1, Relaxed(Edges, s))
<1>1. src \in Vertices /\ s \in Labels(src) /\ Settled(s) /\ Led(src, s)
  BY Network DEF Round
<1>2. CASE Reached(s) = {}
  <2>1. Relaxed(Edges, s) = s
    BY <1>2 DEF Relaxed, Reached
  <2> QED
    BY <1>2, <2>1 DEF Round
<1>3. CASE Reached(s) # {}
  <2>1. PICK u \in Reached(s) : /\ \A v \in Reached(s) : s.dist[u] <= s.dist[v]
                                /\ Relaxed(Edges, s) = Visited(Edges, s, u)
    BY <1>1, <1>3, RelaxedTo
  <2>2. PICK t : t = Visited(Edges, s, u)
    OBVIOUS
  <2>3. Settled(t) /\ Led(src, t) /\ Cardinality(t.done) = Cardinality(s.done) + 1
    BY <1>1, <2>1, <2>2, VisitedSettles
  <2>4. t \in Labels(src)
    BY <1>1, <2>1, <2>2, RelaxedIs
  <2> QED
    BY <1>3, <2>1, <2>2, <2>3, <2>4 DEF Round
<1> QED
  BY <1>2, <1>3

\* The shortest paths from src: how far each vertex is, and by way of which.
Paths(src, dist, prev) ==
  /\ dist \in [Vertices -> Nat] /\ prev \in [Vertices -> Vertices \cup {None}]
  /\ dist[src] = 0 /\ prev[src] = None
  /\ \A u, v \in Vertices : {u, v} \in Edges => dist[v] <= dist[u] + 1
  /\ \A v \in Vertices : dist[v] < Unreached
  /\ \A v \in Vertices \ {src} :
       prev[v] \in Vertices /\ {prev[v], v} \in Edges /\ dist[v] = dist[prev[v]] + 1

\* What is known when all but one vertex are done.
LEMMA LastRound ==
  ASSUME OneNetwork, NEW src \in Routers, NEW s, Round(src, Unreached - 1, s)
  PROVE  Paths(src, s.dist, s.prev)
<1>1. /\ s.done \in SUBSET Vertices /\ s.dist \in [Vertices -> Nat] /\ s.prev \in [Vertices -> Vertices \cup {None}]
      /\ s.dist[src] = 0 /\ s.prev[src] = None
  BY DEF Labels, Round
<1>2. src \in Vertices
  BY Network
<1>3. PICK n \in Nat \ {0} : n = Unreached
  BY Finite
<1>4. PICK c \in Nat : c = Cardinality(s.done)
  BY <1>1, Smaller
<1>5. \A v \in Vertices \ s.done : c + 1 <= n /\ \A w \in Vertices \ s.done : w # v => c + 2 <= n
  BY <1>1, <1>3, <1>4, Smaller
<1>6. /\ \A w \in s.done : s.dist[w] < c
      /\ \A w \in s.done : \A v \in Vertices \ s.done : s.dist[w] <= s.dist[v]
      /\ \A w \in s.done : \A v \in Vertices : {w, v} \in Edges => s.dist[v] <= s.dist[w] + 1
      /\ \A v \in Vertices : s.dist[v] <= n /\ (s.dist[v] < n => s.dist[v] <= c)
  BY <1>3, <1>4 DEF Settled, Round
<1>7. \A v \in Vertices : s.dist[v] \in Nat
  BY <1>1
<1>8. c = n - 1 \/ Reached(s) = {}
  BY <1>3, <1>4 DEF Round
<1>9. \A w \in s.done : s.dist[w] < n
  <2>1. c <= n
    <3>1. s.done = Vertices \/ \E v \in Vertices \ s.done : TRUE
      BY <1>1
    <3>2. s.done = Vertices => c = n
      BY <1>3, <1>4 DEF Unreached
    <3> QED
      BY <1>5, <3>1, <3>2
  <2> QED
    BY <1>1, <1>6, <1>7, <2>1
<1>10. ASSUME NEW u \in Vertices, NEW v \in Vertices, {u, v} \in Edges, s.dist[u] < n
       PROVE  s.dist[v] < n /\ s.dist[v] <= s.dist[u] + 1
  <2>1. CASE u \in s.done
    <3>1. s.dist[v] <= s.dist[u] + 1 /\ s.dist[u] < c
      BY <1>6, <1>10, <2>1
    <3>2. CASE v \in s.done
      BY <1>9, <3>1, <3>2
    <3>3. CASE v \notin s.done
      <4>1. c + 1 <= n
        BY <1>5, <3>3
      <4> QED
        BY <1>7, <3>1, <4>1
    <3> QED
      BY <3>2, <3>3
  <2>2. CASE u \notin s.done
    <3>1. u \in Reached(s)
      BY <1>3, <1>10, <2>2 DEF Reached
    <3>2. c = n - 1
      BY <1>8, <3>1
    <3>3. u # v
      BY <1>10, EdgeOf
    <3>4. v \in s.done
      BY <1>5, <2>2, <3>2, <3>3
    <3>5. s.dist[v] <= s.dist[u]
      BY <1>6, <2>2, <3>4
    <3> QED
      BY <1>7, <1>10, <3>5
  <2> QED
    BY <2>1, <2>2
<1>11. \A v \in Vertices : s.dist[v] < n
  <2> DEFINE R == {v \in Vertices : s.dist[v] < n}
  <2>1. R \in SUBSET Vertices /\ src \in R
    BY <1>1, <1>2, <1>3
  <2>2. ASSUME NEW e \in Edges, e \cap R # {} PROVE e \subseteq R
    <3>1. PICK r \in Routers : \E w \in Full(r) : e = {r, w} /\ r # w /\ w \in Vertices
      BY EdgeIs
    <3>2. PICK w \in Vertices : e = {r, w}
      BY <3>1
    <3>3. r \in Vertices /\ {r, w} \in Edges /\ {w, r} \in Edges
      <4>1. {r, w} = {w, r}
        OBVIOUS
      <4> QED
        BY <3>2, <4>1, Network
    <3>4. r \in R => w \in R
      BY <1>10, <3>3
    <3>5. w \in R => r \in R
      BY <1>10, <3>3
    <3> QED
      BY <2>2, <3>2, <3>4, <3>5
  <2>3. R = Vertices
    <3> HIDE DEF R
    <3> QED
      BY <2>1, <2>2 DEF OneNetwork
  <2> QED
    BY <2>3
<1>12. \A u, v \in Vertices : {u, v} \in Edges => s.dist[v] <= s.dist[u] + 1
  BY <1>10, <1>11
<1>13. \A v \in Vertices \ {src} :
         s.prev[v] \in Vertices /\ {s.prev[v], v} \in Edges /\ s.dist[v] = s.dist[s.prev[v]] + 1
  BY <1>1, <1>3, <1>11 DEF Led, Round
<1> QED
  BY <1>1, <1>3, <1>11, <1>12, <1>13 DEF Paths

\* dijkstra finds the shortest paths.
LEMMA DijkstraFinds ==
  ASSUME OneNetwork, NEW src \in Routers
  PROVE  \E dist : Paths(src, dist, Dijkstra(Edges, src))
<1>1. PICK n \in Nat \ {0} : n = Unreached
  BY Finite
<1>2. src \in Vertices
  BY Network
<1>3. PICK f : Rounds(Edges, src, f) /\ Dijkstra(Edges, src) = f[n - 1].prev
  BY <1>1, DijkstraRounds
<1> DEFINE first == [done |-> {}, prev |-> [v \in Vertices |-> None],
                     dist |-> [v \in Vertices |-> IF v = src THEN 0 ELSE Unreached]]
           S == {k \in Nat : k \in 0 .. n => Round(src, k, f[k])}
<1>4. Round(src, 0, first)
  <2>1. first \in Labels(src)
    BY <1>1, <1>2 DEF Labels
  <2>2. Cardinality(first.done) = 0
    BY FS_EmptySet
  <2>3. Settled(first)
    <3>1. \A v \in Vertices : first.dist[v] = IF v = src THEN 0 ELSE n
      BY <1>1
    <3>2. first.done = {}
      OBVIOUS
    <3> HIDE DEF first
    <3> QED
      BY <1>1, <2>2, <3>1, <3>2 DEF Settled
  <2>4. Led(src, first)
    BY <1>1 DEF Led
  <2> HIDE DEF first
  <2> QED
    BY <2>1, <2>2, <2>3, <2>4 DEF Round
<1>5. f[0] = first /\ \A k \in 1 .. n : f[k] = Relaxed(Edges, f[k - 1])
  <2>1. \A k \in 0 .. n : f[k] = IF k = 0 THEN first ELSE Relaxed(Edges, f[k - 1])
    BY <1>1, <1>3 DEF Rounds
  <2> HIDE DEF first
  <2>2. 0 \in 0 .. n /\ \A k \in 1 .. n : k \in 0 .. n /\ k # 0
    OBVIOUS
  <2> QED
    BY <2>1, <2>2
<1> HIDE DEF first
<1>6. 0 \in S
  BY <1>4, <1>5
<1>7. ASSUME NEW k \in S PROVE k + 1 \in S
  <2> SUFFICES ASSUME k + 1 \in 0 .. n PROVE Round(src, k + 1, f[k + 1])
    OBVIOUS
  <2>1. k \in Nat /\ k + 1 \in 1 .. n /\ k \in 0 .. n /\ k + 1 - 1 = k
    OBVIOUS
  <2>2. f[k + 1] = Relaxed(Edges, f[k]) /\ Round(src, k, f[k])
    BY <1>5, <2>1
  <2> QED
    BY <2>1, <2>2, RoundIs
<1>8. S = Nat
  <2> HIDE DEF S
  <2>1. S \in SUBSET Nat
    BY DEF S
  <2> QED
    BY <1>6, <1>7, <2>1, NatSet
<1>9. Round(src, n - 1, f[n - 1])
  <2>1. n - 1 \in S /\ n - 1 \in 0 .. n
    <3> HIDE DEF S
    <3> QED
      BY <1>8
  <2> QED
    BY <2>1
<1>10. Paths(src, f[n - 1].dist, f[n - 1].prev)
  BY <1>1, <1>9, LastRound
<1> QED
  BY <1>3, <1>10

\* A path goes through routers only: a LAN has one neighbour.
LEMMA ByRouters ==
  ASSUME OneNetwork, NEW src \in Routers, NEW dist, NEW prev, Paths(src, dist, prev),
         NEW v \in Vertices \ {src}
  PROVE  prev[v] \in Routers
<1> SUFFICES ASSUME prev[v] \notin Routers PROVE FALSE
  OBVIOUS
<1>1. PICK x \in Vertices : x = prev[v] /\ {x, v} \in Edges /\ dist[v] = dist[x] + 1
  BY DEF Paths
<1>2. v \in Routers /\ x \in OwnLans(v)
  BY <1>1, EdgeOf
<1>3. PICK y \in Vertices : y = prev[x] /\ {y, x} \in Edges /\ dist[x] = dist[y] + 1
  BY <1>1 DEF Paths
<1>4. {x, y} \in Edges
  <2>1. {x, y} = {y, x}
    OBVIOUS
  <2> QED
    BY <1>3, <2>1
<1>5. y \in Routers /\ x \in OwnLans(y)
  BY <1>1, <1>4, EdgeOf
<1>6. y = v
  BY <1>2, <1>5 DEF OneNetwork
<1>7. dist[v] \in Nat /\ dist[x] \in Nat
  BY DEF Paths
<1> QED
  BY <1>1, <1>3, <1>6, <1>7

\* No hop changes a distance by more than one.
Near(dist) ==
  dist \in [Vertices -> Nat] /\ \A u, v \in Vertices : {u, v} \in Edges => dist[v] <= dist[u] + 1

\* The first hop on the way to v is a neighbour of the source, and v is as much nearer
\* to it, by any measure, as it is to the source.
LEMMA FirstHopOn ==
  ASSUME OneNetwork, NEW src \in Routers, NEW dist, NEW prev, Paths(src, dist, prev),
         NEW v \in Vertices \ {src}
  PROVE  \E f \in Vertices \ {src} :
           /\ f = FirstHop(prev, v) /\ prev[f] = src /\ (f \in Routers \/ f = v)
           /\ \A d : Near(d) => d[v] + 1 <= d[f] + dist[v]
<1>1. PICK n \in Nat : n = Unreached
  BY Finite
<1> DEFINE D == Vertices \ {src}
           Step(x) == IF prev[prev[x]] = None THEN x ELSE prev[x]
           step == [x \in Nat \X D |-> Step(x[2])]
           Back(b) == b = [k \in 0 .. n |->
                             IF k = 0 THEN v
                             ELSE IF prev[prev[b[k - 1]]] = None THEN b[k - 1] ELSE prev[b[k - 1]]]
<1>2. ASSUME NEW x \in D
      PROVE  /\ prev[x] \in Routers /\ {prev[x], x} \in Edges /\ dist[x] = dist[prev[x]] + 1
             /\ prev[x] = src <=> prev[prev[x]] = None
             /\ Step(x) \in D
  <2>1. prev[x] \in Vertices /\ {prev[x], x} \in Edges /\ dist[x] = dist[prev[x]] + 1
    BY DEF Paths
  <2>2. prev[x] \in Routers
    BY ByRouters
  <2>3. prev[src] = None
    BY DEF Paths
  <2>4. prev[x] # src => prev[prev[x]] \in Vertices
    BY <2>1 DEF Paths
  <2>5. None \notin Vertices
    BY Network
  <2> QED
    BY <2>1, <2>2, <2>3, <2>4, <2>5
<1>3. step \in [Nat \X D -> D]
  <2> HIDE DEF D, Step
  <2> QED
    BY <1>2
<1>4. \A i \in Nat : \A x \in D : step[<<i, x>>] = Step(x)
  <2> HIDE DEF D, Step
  <2> QED
    OBVIOUS
<1>5. v \in D
  OBVIOUS
<1> HIDE DEF D, step
<1>6. PICK b \in [0 .. n -> D] : Iterates(b, v, step, n)
  BY <1>3, <1>5, Iteration
<1>7. b[0] = v /\ \A k \in 1 .. n : b[k] = Step(b[k - 1]) /\ b[k - 1] \in D
  <2>1. b[0] = v
    BY <1>6 DEF Iterates
  <2>2. ASSUME NEW k \in 1 .. n PROVE b[k] = Step(b[k - 1]) /\ b[k - 1] \in D
    <3>1. k - 1 \in 0 .. n /\ k \in Nat
      OBVIOUS
    <3>2. b[k] = step[<<k, b[k - 1]>>] /\ b[k - 1] \in D
      BY <1>6, <3>1 DEF Iterates
    <3> HIDE DEF Step
    <3> QED
      BY <1>4, <3>1, <3>2
  <2> HIDE DEF Step
  <2> QED
    BY <2>1, <2>2
<1>8. Back(b)
  <2>1. \A k \in 0 .. n : b[k] = IF k = 0 THEN v
                                 ELSE IF prev[prev[b[k - 1]]] = None THEN b[k - 1] ELSE prev[b[k - 1]]
    <3>1. \A k \in 0 .. n : k = 0 \/ k \in 1 .. n
      OBVIOUS
    <3> QED
      BY <1>7, <3>1
  <2>2. DOMAIN b = 0 .. n /\ b = [k \in 0 .. n |-> b[k]]
    BY <1>6
  <2> QED
    BY <2>1, <2>2
<1>9. FirstHop(prev, v) = (CHOOSE f : Back(f))[n]
  BY <1>1, Zenon DEF FirstHop
<1>10. PICK a : Back(a) /\ FirstHop(prev, v) = a[n]
  <2> HIDE DEF Back
  <2> QED
    BY <1>8, <1>9
<1>11. /\ a[0] = v
       /\ \A k \in 1 .. n : a[k] = Step(a[k - 1])
  <2>1. \A k \in 0 .. n : a[k] = IF k = 0 THEN v
                                 ELSE IF prev[prev[a[k - 1]]] = None THEN a[k - 1] ELSE prev[a[k - 1]]
    BY <1>10
  <2>2. 0 \in 0 .. n /\ \A k \in 1 .. n : k \in 0 .. n /\ k # 0
    OBVIOUS
  <2> QED
    BY <2>1, <2>2
<1> DEFINE On(k, x) == /\ x \in D /\ (x \in Routers \/ x = v)
                       /\ dist[x] = 1 \/ dist[x] + k <= dist[v]
                       /\ \A d : Near(d) => d[v] + dist[x] <= d[x] + dist[v]
           S == {k \in Nat : k \in 0 .. n => On(k, a[k])}
<1>12. \A x \in Vertices : dist[x] \in Nat /\ dist[x] < n
  BY <1>1 DEF Paths
<1>13. 0 \in S
  BY <1>5, <1>11, <1>12 DEF D, Near
<1>14. ASSUME NEW k \in S PROVE k + 1 \in S
  <2> SUFFICES ASSUME k + 1 \in 0 .. n PROVE On(k + 1, a[k + 1])
    OBVIOUS
  <2>1. k \in Nat /\ k + 1 \in 1 .. n /\ k \in 0 .. n /\ k + 1 - 1 = k
    OBVIOUS
  <2>2. PICK x : x = a[k] /\ On(k, x) /\ a[k + 1] = Step(x)
    BY <1>11, <2>1
  <2>3. /\ x \in D /\ prev[x] \in Routers /\ {prev[x], x} \in Edges /\ dist[x] = dist[prev[x]] + 1
        /\ prev[x] = src <=> prev[prev[x]] = None
        /\ Step(x) \in D /\ prev[x] \in Vertices /\ x \in Vertices
    BY <1>2, <2>2, Network DEF D
  <2>4. CASE prev[x] = src
    <3>1. Step(x) = x
      BY <2>3, <2>4
    <3>2. dist[x] = 1
      BY <2>3, <2>4 DEF Paths
    <3> QED
      BY <2>2, <3>1, <3>2
  <2>5. CASE prev[x] # src
    <3>1. Step(x) = prev[x]
      BY <2>3, <2>5
    <3>2. PICK y \in Vertices : y = prev[x] /\ dist[x] = dist[y] + 1 /\ {y, x} \in Edges
      BY <2>3
    <3>3. dist[y] # 0
      <4>1. dist[y] = dist[prev[y]] + 1 /\ prev[y] \in Vertices
        BY <2>5, <3>2 DEF Paths
      <4> QED
        BY <1>12, <4>1
    <3>4. dist[y] + (k + 1) <= dist[v]
      <4>1. dist[x] \in Nat /\ dist[y] \in Nat /\ dist[v] \in Nat
        BY <1>12, <2>3
      <4> QED
        BY <2>1, <2>2, <3>2, <3>3, <4>1
    <3>5. ASSUME NEW d, Near(d) PROVE d[v] + dist[y] <= d[y] + dist[v]
      <4>1. d[v] + dist[x] <= d[x] + dist[v]
        BY <2>2, <3>5
      <4>2. d[x] <= d[y] + 1 /\ d[x] \in Nat /\ d[y] \in Nat /\ d[v] \in Nat
        BY <2>3, <3>2, <3>5 DEF Near
      <4>3. dist[x] \in Nat /\ dist[y] \in Nat /\ dist[v] \in Nat
        BY <1>12, <2>3
      <4>4. PICK i, j, p, w, z, c \in Nat :
               /\ i = dist[x] /\ j = dist[y] /\ p = dist[v] /\ w = d[x] /\ z = d[y] /\ c = d[v]
        BY <4>2, <4>3
      <4>5. i = j + 1 /\ c + i <= w + p /\ w <= z + 1
        BY <3>2, <4>1, <4>2, <4>4
      <4>6. c + j <= z + p
        BY <4>5
      <4> QED
        BY <4>4, <4>6
    <3>6. Step(x) = y /\ y \in Routers /\ y \in D
      BY <2>3, <3>1, <3>2
    <3> HIDE DEF Step
    <3> QED
      BY <2>2, <3>4, <3>5, <3>6
  <2> QED
    BY <2>4, <2>5
<1>15. S = Nat
  <2> HIDE DEF S
  <2>1. S \in SUBSET Nat
    BY DEF S
  <2> QED
    BY <1>13, <1>14, <2>1, NatSet
<1>16. On(n, a[n])
  <2>1. n \in S /\ n \in 0 .. n
    <3> HIDE DEF S
    <3> QED
      BY <1>15
  <2> QED
    BY <2>1
<1>17. PICK f \in D : f = a[n] /\ On(n, f)
  BY <1>16
<1>18. f \in Vertices \ {src}
  BY DEF D
<1>19. dist[f] = 1
  <2>1. dist[f] # 0
    <3>1. dist[f] = dist[prev[f]] + 1 /\ prev[f] \in Routers
      BY <1>2
    <3>2. PICK i \in Nat : i = dist[prev[f]]
      BY <1>12, <3>1, Network
    <3> QED
      BY <3>1, <3>2
  <2>2. dist[f] \in Nat /\ dist[v] \in Nat /\ dist[v] < n
    BY <1>12, <1>18
  <2> QED
    BY <1>17, <2>1, <2>2
<1>20. prev[f] = src
  <2> SUFFICES ASSUME prev[f] # src PROVE FALSE
    OBVIOUS
  <2>1. PICK y \in Vertices : y = prev[f] /\ dist[f] = dist[y] + 1 /\ y # src
    BY <1>2, <1>18, Network
  <2>2. dist[y] = dist[prev[y]] + 1 /\ prev[y] \in Vertices
    BY <2>1 DEF Paths
  <2> QED
    BY <1>12, <1>19, <2>1, <2>2
<1> QED
  BY <1>10, <1>17, <1>18, <1>19, <1>20

\* A vertex is at most as many hops away as there are routers, which lie on the way.
LEMMA PathsShort ==
  ASSUME OneNetwork, NEW src \in Routers, NEW dist, NEW prev, Paths(src, dist, prev),
         NEW v \in Vertices \ {src}
  PROVE  dist[v] <= Cardinality(Routers)
<1>1. PICK m \in Nat : m = dist[v]
  BY DEF Paths
<1> DEFINE S == {k \in Nat : k < m => \E x \in Routers : dist[x] = m - 1 - k}
<1>2. \A x \in Vertices : dist[x] \in Nat
  BY DEF Paths
<1>3. 0 \in S
  <2>1. prev[v] \in Routers /\ prev[v] \in Vertices /\ m = dist[prev[v]] + 1
    BY <1>1, ByRouters DEF Paths
  <2> QED
    BY <1>2, <2>1
<1>4. ASSUME NEW k \in S PROVE k + 1 \in S
  <2> SUFFICES ASSUME k + 1 < m PROVE \E x \in Routers : dist[x] = m - 1 - (k + 1)
    OBVIOUS
  <2>1. PICK x \in Routers : dist[x] = m - 1 - k
    OBVIOUS
  <2>2. dist[x] # 0
    BY <2>1
  <2>3. x \in Vertices \ {src}
    BY <2>2, Network DEF Paths
  <2>4. prev[x] \in Routers /\ prev[x] \in Vertices /\ dist[x] = dist[prev[x]] + 1
    BY <2>3, ByRouters DEF Paths
  <2> QED
    BY <1>2, <2>1, <2>4
<1>5. S = Nat
  <2> HIDE DEF S
  <2>1. S \in SUBSET Nat
    BY DEF S
  <2> QED
    BY <1>3, <1>4, <2>1, NatSet
<1>6. \A k \in Nat : k < m => \E x \in Routers : dist[x] = m - 1 - k
  <2> HIDE DEF S
  <2>1. \A k \in Nat : k \in S
    BY <1>5
  <2> QED
    BY <2>1 DEF S
<1> DEFINE f == [x \in Routers |-> dist[x]]
           T == {dist[x] : x \in Routers}
<1>7. IsFiniteSet(Routers)
  BY MospfAssumption
<1>8. f \in Surjection(Routers, T)
  BY DEF Surjection
<1>9. 0 .. m - 1 \subseteq T
  <2> SUFFICES ASSUME NEW i \in 0 .. m - 1 PROVE i \in T
    OBVIOUS
  <2>1. PICK k \in Nat : k = m - 1 - i
    OBVIOUS
  <2>2. k < m /\ m - 1 - k = i
    BY <2>1
  <2> QED
    BY <1>6, <2>2
<1> HIDE DEF f, T
<1>10. IsFiniteSet(T) /\ Cardinality(T) <= Cardinality(Routers)
  BY <1>7, <1>8, FS_Surjection
<1>11. Cardinality(0 .. m - 1) <= Cardinality(T)
  BY <1>9, <1>10, FS_Subset
<1>12. Cardinality(0 .. m - 1) = m
  <2>1. m - 1 \in Int /\ 0 \in Int
    OBVIOUS
  <2>2. Cardinality(0 .. m - 1) = IF 0 > m - 1 THEN 0 ELSE m - 1 - 0 + 1
    BY <2>1, FS_Interval
  <2> QED
    BY <2>2
<1>13. Cardinality(T) \in Nat /\ Cardinality(Routers) \in Nat
  BY <1>7, <1>10, FS_CardinalityType
<1> QED
  BY <1>1, <1>10, <1>11, <1>12, <1>13

\* What a router computes that knows the whole network.
Current(r) == route[r] = Computed(r, Drawn(r, graph[r], db[r], nbr[r]), subnets[r] \cup Learned(db[r]))

\* Its graph is the network.
LEMMA DrawnAll ==
  ASSUME Inv, NEW r \in Routers, Informed(r)
  PROVE  Drawn(r, graph[r], db[r], nbr[r]) = Edges
<1>1. NbrOk(r, nbr[r]) /\ DbOk(r, db[r]) /\ graph[r] \subseteq Edges
  BY DEF Inv, Parts, Tables
<1>2. /\ DOMAIN nbr[r] = Peers(r) /\ DOMAIN db[r] = Routers \ {r}
      /\ \A o \in DOMAIN db[r] : db[r][o].adv = Full(o)
  BY DEF Informed
<1>3. \A o \in DOMAIN db[r] : Garbage \notin db[r][o].adv
  <2>1. \A o \in Routers : Garbage \notin Full(o)
    BY Neighbours, Network
  <2> QED
    BY <1>2, <2>1
<1>4. Drawn(r, graph[r], db[r], nbr[r]) \subseteq Edges
  BY <1>1, <1>2, <1>3, DrawnEdges
<1>5. ASSUME NEW e \in Edges PROVE e \in Drawn(r, graph[r], db[r], nbr[r])
  <2>1. PICK q \in Routers : \E v \in Full(q) : e = {q, v} /\ q # v /\ v \in Vertices
    BY EdgeIs
  <2>2. PICK v \in Full(q) : e = {q, v} /\ q # v
    BY <2>1
  <2>3. CASE q = r
    <3>1. v \in OwnLans(r) \cup DOMAIN nbr[r]
      BY <1>2, <2>2, <2>3, Neighbours
    <3> QED
      BY <2>2, <2>3, <3>1 DEF Drawn
  <2>4. CASE q # r
    <3>1. q \in DOMAIN db[r] /\ v \in db[r][q].adv \ {q}
      BY <1>2, <2>2, <2>4
    <3>2. e \in Learned(db[r])
      BY <2>2, <3>1 DEF Learned
    <3> QED
      BY <3>2 DEF Drawn
  <2> QED
    BY <2>3, <2>4
<1> QED
  BY <1>4, <1>5

\* How far it is from q to each vertex, ...
Far(q) == CHOOSE dist : Paths(q, dist, Dijkstra(Edges, q))

\* ... which no hop changes by more than one.
LEMMA FarIs ==
  ASSUME OneNetwork, NEW q \in Routers
  PROVE  Paths(q, Far(q), Dijkstra(Edges, q)) /\ Near(Far(q))
<1>1. Paths(q, Far(q), Dijkstra(Edges, q))
  BY DijkstraFinds, Zenon DEF Far
<1> QED
  BY <1>1 DEF Paths, Near

\* The entry for a LAN at another router: the next router is a neighbour and one hop
\* nearer to it.
LEMMA GatewayIs ==
  ASSUME OneNetwork, Inv, NEW r \in Routers, Informed(r), Current(r),
         NEW o \in Routers, NEW l \in OwnLans(o), o # r
  PROVE  /\ {o, l} \in DOMAIN route[r] /\ route[r][{o, l}].gw \in Routers
         /\ Far(route[r][{o, l}].gw)[l] + 1 <= Far(r)[l]
<1> DEFINE prev == Dijkstra(Edges, r)
           hops == Hops(Edges, r)
           e == {o, l}
           s == subnets[r] \cup Learned(db[r])
           new == Routes(r, hops, s, db[r], nbr[r])
<1>1. /\ DOMAIN nbr[r] = Peers(r) /\ DOMAIN db[r] = Routers \ {r}
      /\ \A q \in DOMAIN db[r] : db[r][q].adv = Full(q)
  BY DEF Informed
<1>2. route[r] = Table(route[r], new)
  <2>1. Drawn(r, graph[r], db[r], nbr[r]) = Edges /\ Edges \in SUBSET Edges
    BY DrawnAll
  <2>2. route[r] = Computed(r, Edges, s)
    BY <2>1 DEF Current
  <2> HIDE DEF s
  <2> QED
    BY <2>1, <2>2, ComputedIs
<1>3. Paths(r, Far(r), prev) /\ Near(Far(r))
  BY FarIs
<1>5. l \in Vertices \ Routers /\ l \in Full(o) /\ l \in Vertices \ {r}
  BY Neighbours DEF OwnLans, Lans
<1> HIDE DEF prev, hops
<1>6. /\ prev[l] \in Routers /\ {prev[l], l} \in Edges /\ \A x \in Vertices \ {r} : prev[x] \in Routers
      /\ prev[r] = None
  BY <1>3, <1>5, ByRouters DEF Paths
<1>7. prev[l] = o
  <2>1. {l, prev[l]} = {prev[l], l}
    OBVIOUS
  <2>2. l \in OwnLans(prev[l])
    BY <1>5, <1>6, <2>1, EdgeOf
  <2> QED
    BY <1>6, <2>2 DEF OneNetwork
<1>8. prev[l] # None /\ e = {prev[l], l}
  BY <1>6, <1>7, Network
<1>9. ASSUME NEW x \in Vertices, prev[x] # None, {prev[x], x} = e PROVE x = l
  <2>1. {prev[x], x} = {o, l}
    BY <1>9
  <2>2. prev[x] \in Routers
    BY <1>6, <1>9
  <2> QED
    BY <1>5, <2>1, <2>2
<1>4. e \in DOMAIN hops /\ hops[e] = FirstHop(prev, l)
  <2>1. PICK d : d = e
    OBVIOUS
  <2>2. \A x \in Vertices : Dijkstra(Edges, r)[x] # None /\ {Dijkstra(Edges, r)[x], x} = d => x = l
    BY <1>9, <2>1 DEF prev
  <2>3. Dijkstra(Edges, r)[l] # None /\ d = {Dijkstra(Edges, r)[l], l}
    BY <1>8, <2>1 DEF prev
  <2>4. d \in DOMAIN Hops(Edges, r) /\ Hops(Edges, r)[d] = FirstHop(Dijkstra(Edges, r), l)
    BY <1>5, <2>2, <2>3, HopsIs
  <2> QED
    BY <2>1, <2>4 DEF prev, hops
<1>10. e \in s
  <2>1. o \in DOMAIN db[r] /\ l \in db[r][o].adv \ {o}
    BY <1>1, <1>5
  <2> QED
    BY <2>1 DEF Learned
<1>11. e \in DOMAIN new /\ new[e] = Entry(r, hops[e], db[r], nbr[r])
  <2> HIDE DEF s, e
  <2> QED
    BY <1>4, <1>10 DEF Routes
<1>12. PICK f \in Vertices \ {r} : /\ f = FirstHop(prev, l) /\ prev[f] = r /\ (f \in Routers \/ f = l)
                                   /\ \A d : Near(d) => d[l] + 1 <= d[f] + Far(r)[l]
  BY <1>3, <1>5, FirstHopOn
<1>13. f \in Routers \ {r}
  BY <1>7, <1>12
<1>14. r \in Full(f) /\ f \in Peers(r)
  <2>1. {prev[f], f} \in Edges
    BY <1>3, <1>12 DEF Paths
  <2>2. {r, f} \in Edges /\ {f, r} \in Edges
    <3>1. {r, f} = {f, r}
      OBVIOUS
    <3> QED
      BY <1>12, <2>1, <3>1
  <2>3. r \in Full(f) /\ f \in Full(r)
    BY <1>13, <2>2, EdgeOf
  <2> QED
    BY <1>13, <2>3, Neighbours DEF OwnLans, Lans
<1>15. new[e].gw = f
  <2>1. f \in DOMAIN db[r] /\ r \in db[r][f].adv /\ f \in DOMAIN nbr[r]
    BY <1>1, <1>13, <1>14
  <2>2. hops[e] = f
    BY <1>4, <1>12
  <2> HIDE DEF new, e
  <2> QED
    BY <1>11, <2>1, <2>2 DEF Entry
<1>16. e \in DOMAIN route[r] /\ route[r][e] = new[e]
  <2> HIDE DEF new, e
  <2>1. e \in DOMAIN Table(route[r], new) /\ Table(route[r], new)[e] = new[e]
    BY <1>11 DEF Table
  <2> QED
    BY <1>2, <2>1
<1>17. Far(f)[l] + 1 <= Far(r)[l]
  <2>1. Near(Far(f)) /\ Far(f)[f] = 0
    BY <1>13, FarIs DEF Paths
  <2>2. Far(f)[l] + 1 <= 0 + Far(r)[l]
    BY <1>12, <2>1
  <2>3. Far(r)[l] \in Nat
    BY <1>3, <1>5 DEF Near
  <2> QED
    BY <2>2, <2>3
<1> QED
  BY <1>13, <1>15, <1>16, <1>17

\* Every step of a packet brings it nearer to the LAN, so it gets there.
LEMMA ReachesLan ==
  ASSUME OneNetwork, Inv, \A q \in Routers : Informed(q) /\ Current(q),
         NEW r \in Routers, NEW o \in Routers, NEW l \in OwnLans(o)
  PROVE  Reaches(r, {o, l})
<1>1. PICK n \in Nat : n = Cardinality(Routers)
  BY MospfAssumption, FS_CardinalityType
<1> DEFINE e == {o, l}
           Step(q) == IF q = None \/ q \in e THEN q
                      ELSE IF e \notin DOMAIN route[q] THEN None ELSE route[q][e].gw
           step == [x \in Nat \X Routers |-> Step(x[2])]
           Hop(h) == h = [k \in 0 .. n |->
                            IF k = 0 THEN r
                            ELSE LET q == h[k - 1]
                                 IN  IF q = None \/ q \in e THEN q
                                     ELSE IF e \notin DOMAIN route[q] THEN None ELSE route[q][e].gw]
<1>2. l \in Vertices \ Routers
  BY DEF OwnLans, Lans
<1>3. ASSUME NEW q \in Routers
      PROVE  /\ Step(q) \in Routers
             /\ q = o => Step(q) = o
             /\ q # o => Far(Step(q))[l] + 1 <= Far(q)[l]
  <2>1. q # None /\ q # l
    BY <1>2, Network
  <2>2. CASE q = o
    BY <2>1, <2>2
  <2>3. CASE q # o
    <3>1. /\ e \in DOMAIN route[q] /\ route[q][e].gw \in Routers
          /\ Far(route[q][e].gw)[l] + 1 <= Far(q)[l]
      BY <2>3, GatewayIs
    <3>2. Step(q) = route[q][e].gw
      BY <2>1, <2>3, <3>1
    <3> HIDE DEF Step
    <3> QED
      BY <2>3, <3>1, <3>2
  <2> QED
    BY <2>2, <2>3
<1>4. \E h : Hop(h)
  <2>1. step \in [Nat \X Routers -> Routers]
    <3> HIDE DEF Step
    <3> QED
      BY <1>3
  <2>2. \A i \in Nat : \A q \in Routers : step[<<i, q>>] = Step(q)
    <3> HIDE DEF Step
    <3> QED
      OBVIOUS
  <2> HIDE DEF step
  <2>3. PICK h \in [0 .. n -> Routers] : Iterates(h, r, step, n)
    BY <2>1, Iteration
  <2>4. \A k \in 0 .. n : h[k] = IF k = 0 THEN r ELSE Step(h[k - 1])
    <3> SUFFICES ASSUME NEW k \in 0 .. n PROVE h[k] = IF k = 0 THEN r ELSE Step(h[k - 1])
      OBVIOUS
    <3>1. h[0] = r /\ (k # 0 => k \in 1 .. n /\ k \in Nat /\ k - 1 \in 0 .. n)
      BY <2>3 DEF Iterates
    <3>2. k # 0 => h[k] = step[<<k, h[k - 1]>>] /\ h[k - 1] \in Routers
      BY <2>3, <3>1 DEF Iterates
    <3> HIDE DEF Step
    <3> QED
      BY <2>2, <3>1, <3>2
  <2>5. h = [k \in 0 .. n |-> h[k]]
    BY <2>3
  <2>6. Hop(h)
    BY <2>4, <2>5
  <2> HIDE DEF Hop
  <2> QED
    BY <2>6
<1>5. Reaches(r, e) <=> (CHOOSE h : Hop(h))[n] \in e
  BY <1>1, Zenon DEF Reaches
<1>6. PICK h : Hop(h) /\ (Reaches(r, e) <=> h[n] \in e)
  <2> HIDE DEF Hop, e
  <2> QED
    BY <1>4, <1>5
<1>7. h[0] = r /\ \A k \in 1 .. n : h[k] = Step(h[k - 1])
  <2>1. \A k \in 0 .. n : h[k] = IF k = 0 THEN r ELSE Step(h[k - 1])
    BY <1>6
  <2>2. 0 \in 0 .. n /\ \A k \in 1 .. n : k \in 0 .. n /\ k # 0
    OBVIOUS
  <2> HIDE DEF Step
  <2> QED
    BY <2>1, <2>2
<1> DEFINE On(k, q) == q \in Routers /\ (q = o \/ Far(q)[l] + k <= Far(r)[l])
           S == {k \in Nat : k \in 0 .. n => On(k, h[k])}
<1>8. \A q \in Routers : Far(q)[l] \in Nat
  BY <1>2, FarIs DEF Near
<1>9. 0 \in S
  BY <1>7, <1>8
<1>10. ASSUME NEW k \in S PROVE k + 1 \in S
  <2> SUFFICES ASSUME k + 1 \in 0 .. n PROVE On(k + 1, h[k + 1])
    OBVIOUS
  <2>1. k \in Nat /\ k + 1 \in 1 .. n /\ k \in 0 .. n /\ k + 1 - 1 = k
    OBVIOUS
  <2>2. On(k, h[k]) /\ h[k + 1] = Step(h[k])
    <3> HIDE DEF Step
    <3> QED
      BY <1>7, <2>1
  <2>3. PICK q \in Routers : q = h[k] /\ h[k + 1] = Step(q)
    <3> HIDE DEF Step
    <3> QED
      BY <2>2
  <2> HIDE DEF Step
  <2>4. PICK p \in Routers : p = Step(q) /\ (q = o => p = o) /\ (q # o => Far(p)[l] + 1 <= Far(q)[l])
    BY <1>3
  <2>5. Far(q)[l] \in Nat /\ Far(p)[l] \in Nat /\ Far(r)[l] \in Nat
    BY <1>8
  <2> QED
    BY <2>1, <2>2, <2>3, <2>4, <2>5
<1>11. S = Nat
  <2> HIDE DEF S
  <2>1. S \in SUBSET Nat
    BY DEF S
  <2> QED
    BY <1>9, <1>10, <2>1, NatSet
<1>12. On(n, h[n])
  <2>1. n \in S /\ n \in 0 .. n
    <3> HIDE DEF S
    <3> QED
      BY <1>11
  <2> QED
    BY <2>1
<1>13. h[n] = o
  <2> SUFFICES ASSUME h[n] # o PROVE FALSE
    OBVIOUS
  <2>1. PICK q \in Routers : q = h[n] /\ Far(q)[l] + n <= Far(r)[l]
    BY <1>12
  <2>2. l \in Vertices \ {r} /\ l \in Vertices \ {q}
    BY <1>2
  <2>3. Far(r)[l] <= n
    BY <1>1, <2>2, FarIs, PathsShort
  <2>4. Far(q)[l] # 0
    <3> DEFINE prev == Dijkstra(Edges, q)
    <3>1. Far(q)[l] = Far(q)[prev[l]] + 1 /\ prev[l] \in Vertices /\ Far(q) \in [Vertices -> Nat]
      BY <2>2, FarIs DEF Paths
    <3>2. PICK i \in Nat : i = Far(q)[prev[l]]
      BY <3>1
    <3> QED
      BY <3>1, <3>2
  <2>5. Far(q)[l] \in Nat /\ Far(r)[l] \in Nat
    BY <1>8
  <2> QED
    BY <2>1, <2>3, <2>4, <2>5
<1> QED
  BY <1>6, <1>13

\* This is so in every state in which all routers know the network, however they came to it.
LEMMA InvDelivers ==
  ASSUME OneNetwork, Inv
  PROVE  RoutesDeliver
<1> SUFFICES ASSUME \A q \in Routers : Informed(q) /\ Current(q), NEW r \in Routers, NEW e \in LanEdges
             PROVE  Reaches(r, e)
  BY DEF RoutesDeliver, Good, Current
<1>1. e \in Edges /\ e \cap Lans # {}
  BY DEF LanEdges
<1>2. PICK o \in Routers : \E l \in Full(o) : e = {o, l} /\ o # l /\ l \in Vertices
  BY <1>1, EdgeIs
<1>3. PICK l \in Full(o) : e = {o, l}
  BY <1>2
<1>4. l \in OwnLans(o)
  BY <1>1, <1>3, Neighbours DEF Lans, OwnLans
<1> QED
  BY <1>3, <1>4, ReachesLan

\* On every connected network whose LANs have one router each, packets reach every LAN
\* from everywhere when each router has computed its table from the whole network: the
\* routers compute their shortest paths alone, yet each next router is a hop nearer by
\* its own.
THEOREM TablesFit == Spec => [](OneNetwork => RoutesDeliver)
<1>1. Init => Inv
  BY InitInv
<1>2. Inv /\ [Next]_vars => Inv'
  BY NextInv
<1>3. Inv => (OneNetwork => RoutesDeliver)
  BY InvDelivers
<1> QED
  BY <1>1, <1>2, <1>3, PTL DEF Spec
=============================================================================
