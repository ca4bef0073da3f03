------------------------------- MODULE Mospf -------------------------------
(***************************************************************************)
(* The link-state routing daemon of lab 11 (mospf_daemon.c; lab 10 is the  *)
(* same without routing table and LANs), on all routers of a network: its  *)
(* neighbour lists, databases and graphs, the flooding of LSUs, the four   *)
(* threads that send or compute, and the routing tables they share.        *)
(*                                                                         *)
(* None of it is under mospf_lock.  send_mospf_lsu walks the neighbour     *)
(* lists three times, in whichever thread calls it.  An LSU leaves by the  *)
(* routing table that deal_rtable writes, so what is missing in a database *)
(* when the table is computed ends the process when an LSU is sent.        *)
(*                                                                         *)
(* Vertices are numbered as in rid_to_index.  A subnet is the edge it lies *)
(* on, so the address of a neighbour is the neighbour.  Addresses are in   *)
(* the ARP caches from the start.                                          *)
(***************************************************************************)
EXTENDS Integers, FiniteSets, SequencesExt

CONSTANTS Ifaces,     \* per router: the vertex at the other end of each interface
          NbrTimeout, \* periods that the timeout of a neighbour is (20 s: 4)
          DbTimeout,  \* periods that the timeout of a database entry is (10 s: 2)
          Window,     \* sequence numbers further behind are not told apart
          Faults,     \* what may go wrong, one in each behaviour
          Victims,    \* the routers that may restart, a bound not in the code
          None, Null, Garbage

Routers == DOMAIN Ifaces
Vertices == Routers \cup UNION {ToSet(Ifaces[r]) : r \in Routers}
Lans == Vertices \ Routers
Edges == UNION {{{r, v} : v \in ToSet(Ifaces[r])} : r \in Routers}
Peers(r) == ToSet(Ifaces[r]) \cap Routers
OwnLans(r) == ToSet(Ifaces[r]) \cap Lans

ASSUME MospfAssumption ==
  /\ IsFiniteSet(Routers) /\ Vertices \subseteq Nat
  /\ \A r \in Routers : /\ Ifaces[r] \in Seq(Nat) /\ IsInjective(Ifaces[r])
                         /\ r \notin ToSet(Ifaces[r]) /\ \A n \in Peers(r) : r \in Peers(n)
  /\ {NbrTimeout, DbTimeout, Window} \subseteq Nat \ {0}
  /\ \A r \in Routers : 2 * Cardinality(Peers(r)) <= Window
  /\ Faults \subseteq {"loss", "wrap", "restart"}
  /\ {None, Null, Garbage} \cap Vertices = {} /\ Null \notin Edges

VARIABLES up,      \* the routers whose daemon runs
          nbr,     \* nbr_list: per router, the neighbours with their ages
          db,      \* mospf_db: per router and originator [adv, num, age]
          graph,   \* the graph and subnet_graph of deal_rtable: the edges that
          subnets, \*   are set, never cleared from one round to the next
          route,   \* rtable: [gw, via] of each subnet that has an entry
          sending, \* per router: the threads in send_mospf_lsu, and how far
          net,     \* LSUs on their way: [at, from, org, num, adv, hops]
          fault,   \* what goes wrong in this behaviour
          spent,   \* has it gone wrong?
          bad,     \* the router whose LSUs may be lost in this period, or None
          lapsed,  \* has the database entry of a listed neighbour expired?
          crashed  \* has a daemon crashed?  The model ends there.

state == <<nbr, db, graph, subnets, route>>
env == <<up, fault, spent, bad, lapsed>>
vars == <<state, sending, net, env, crashed>>

Nothing == [x \in {} |-> 0]
Without(f, x) == [y \in DOMAIN f \ {x} |-> f[y]]
With(f, x, val) == [y \in DOMAIN f \cup {x} |-> IF y = x THEN val ELSE f[y]]

-----------------------------------------------------------------------------
(* dijkstra and what deal_rtable makes of it.                               *)

Unreached == Cardinality(Vertices)    \* the INT_MAX of mospf_proto.h

\* One round: of the vertices not done the nearest, of these the lowest, if one
\* is reached at all.  (Otherwise minDistance returns what its frame still holds,
\* the vertex of the round before, and nothing changes.)
Relaxed(g, s) ==
  LET open == {v \in Vertices \ s.done : s.dist[v] < Unreached}
      u == CHOOSE u \in open : \A v \in open :
             s.dist[u] < s.dist[v] \/ (s.dist[u] = s.dist[v] /\ u <= v)
      nearer == {v \in Vertices \ s.done : {u, v} \in g /\ s.dist[u] + 1 < s.dist[v]}
  IN  IF open = {} THEN s
      ELSE [done |-> s.done \cup {u},
            dist |-> [v \in Vertices |-> IF v \in nearer THEN s.dist[u] + 1 ELSE s.dist[v]],
            prev |-> [v \in Vertices |-> IF v \in nearer THEN u ELSE s.prev[v]]]

\* One round less than there are vertices.
Dijkstra(g, src) ==
  LET round[k \in 0 .. Unreached] ==
        IF k = 0
        THEN [done |-> {}, prev |-> [v \in Vertices |-> None],
              dist |-> [v \in Vertices |-> IF v = src THEN 0 ELSE Unreached]]
        ELSE Relaxed(g, round[k - 1])
  IN  round[Unreached - 1].prev

\* Mutant: all the way to the source.
FirstHop_TooFar(prev, v) ==
  LET back[k \in 0 .. Unreached] ==
        IF k = 0 THEN v
        ELSE IF prev[back[k - 1]] = None THEN back[k - 1] ELSE prev[back[k - 1]]
  IN  back[Unreached]
\* The neighbour of the source on the way to v: back along the predecessors, of
\* which there are fewer than vertices.
FirstHop(prev, v) ==
  LET back[k \in 0 .. Unreached] ==
        IF k = 0 THEN v
        ELSE IF prev[prev[back[k - 1]]] = None THEN back[k - 1] ELSE prev[back[k - 1]]
  IN  back[Unreached]

\* For a source in a graph: the last edges of the shortest paths, and the first hop
\* on the way to each.
Hops(g, src) ==
  LET prev == Dijkstra(g, src)
      far == {v \in Vertices : prev[v] # None}
      Edge(v) == {prev[v], v}
  IN  [e \in {Edge(v) : v \in far} |-> FirstHop(prev, CHOOSE v \in far : Edge(v) = e)]

\* The same for all graphs and sources, as a table.
Trees == {[src |-> r, trees |-> {[graph |-> g, hops |-> Hops(g, r)] : g \in SUBSET Edges}] :
          r \in Routers}
HopsIn(g, r) == (CHOOSE x \in (CHOOSE y \in Trees : y.src = r).trees : x.graph = g).hops

\* The graphs after a round of deal_rtable: the links in the database d and, in
\* graph only, those of the lists.  Entries that have gone stay.
Learned(d) == UNION {{{o, v} : v \in d[o].adv \ {o}} : o \in DOMAIN d}
Drawn(r, g, d, n) == g \cup Learned(d) \cup {{r, v} : v \in OwnLans(r) \cup DOMAIN n}

\* The entries r writes: one for the last subnet on the way to each vertex.
\* The interface is the one the first hop advertises too; with no such entry in
\* the database it is NULL.  The gateway is the neighbour behind it, if known.
\* (Left out is the entry for destination 0, with a stale mask and no interface,
\* that is written for the vertices without a last subnet.  The addresses of the
\* networks do not match it unless the mask is 0, and then longer ones win.)
Entry(r, first, d, n) ==
  IF first \in DOMAIN d /\ r \in d[first].adv
  THEN [gw |-> IF first \in DOMAIN n THEN first ELSE None, via |-> {r, first}]
  ELSE [gw |-> None, via |-> Null]
Routes(r, hops, s, d, n) == [e \in DOMAIN hops \cap s |-> Entry(r, hops[e], d, n)]

\* The routing table t with the entries new: no entry is ever removed.
Table(t, new) == [e \in DOMAIN t \cup DOMAIN new |-> IF e \in DOMAIN new THEN new[e] ELSE t[e]]

\* The table r computes from its database and lists when its graphs are g and s.
Computed(r, g, s) ==
  CHOOSE t \in {Table(route[r], Routes(r, hops, s, db[r], nbr[r])) : hops \in {HopsIn(g, r)}} : TRUE

\* The routes to its own networks that the kernel gives a router.
Direct(r) == [e \in {{r, v} : v \in ToSet(Ifaces[r])} |-> [gw |-> None, via |-> e]]

-----------------------------------------------------------------------------
(* The daemons have been running: everything is known everywhere.           *)

Full(r) == ToSet(Ifaces[r])

Init ==
  /\ up = Routers
  /\ nbr = [r \in Routers |-> [n \in Peers(r) |-> 0]]
  /\ db = [r \in Routers |-> [o \in Routers \ {r} |-> [adv |-> Full(o), num |-> 0, age |-> 0]]]
  /\ subnets = [r \in Routers |-> Learned(db[r])]
  /\ graph = [r \in Routers |-> Edges]
  /\ route = [r \in Routers |->
               Table(Direct(r), Routes(r, Hops(Edges, r), subnets[r], db[r], nbr[r]))]
  /\ sending = [r \in Routers |-> Nothing]
  /\ net = {}
  /\ fault \in Faults
  /\ spent = FALSE
  /\ bad = None
  /\ lapsed = FALSE
  /\ crashed = FALSE

-----------------------------------------------------------------------------
(* send_mospf_lsu, in the thread "lsu" (every period), "rx" (for a new      *)
(* neighbour) or "nbr" (for one that has gone).                              *)

\* A bound, not code: LSUs of different routers change different entries, so one
\* router floods at a time, with at most two of its threads in send_mospf_lsu at
\* once; and the other threads wake up between two floods.
Quiet == net = {} /\ \A r \in Routers : sending[r] = Nothing
Walking(r) == {th \in DOMAIN sending[r] : sending[r][th].at # "count"}
Turn(r) == /\ r \in up /\ net = {}
           /\ \A q \in Routers \ {r} : Walking(q) = {} /\ "rx" \notin DOMAIN sending[q]

Due(r, th) == [sending EXCEPT ![r] = With(@, th, [at |-> "count"])]

\* The interfaces of r to the vertices of a set, in their order.
To(r, set) ==
  LET to[i \in 0 .. Len(Ifaces[r])] ==
        IF i = 0 THEN <<>>
        ELSE IF Ifaces[r][i] \in set THEN Append(to[i - 1], Ifaces[r][i]) ELSE to[i - 1]
  IN  to[Len(Ifaces[r])]

\* The first walk sizes the packet.
Listed(r) == To(r, OwnLans(r) \cup DOMAIN nbr[r])

\* What is gone, a period after its timeout.
Stale(q) == {o \in DOMAIN db[q] : db[q][o].age > DbTimeout}
Silent(q) == {n \in DOMAIN nbr[q] : nbr[q][n] > NbrTimeout}

\* Before the first LSU of a period: a bound on early timeouts.
Dawn == \A q \in up : "lsu" \in DOMAIN sending[q] /\ Walking(q) = {}

\* The periods of the routers start in the order of their numbers, when all is
\* dropped that has been silent for too long, but for a neighbour of the first.
Period(r) == \A q \in Routers : /\ q < r => "lsu" \notin DOMAIN sending[q]
                               /\ Stale(q) = {} /\ (q # r => Silent(q) = {})

Count(r, th) ==
  /\ sending[r][th].at = "count"
  /\ Turn(r) /\ Cardinality(Walking(r)) < 2 /\ (th = "lsu" => Period(r))
  /\ sending' = [sending EXCEPT ![r][th] = [at |-> "fill", nadv |-> Len(Listed(r))]]
  /\ UNCHANGED <<state, net, env, crashed>>

\* The second walk fills it.  What has gone since leaves an entry as malloc
\* left it: like one of its own links or like nothing on earth.  What has come
\* since does not fit, and is written after the end.
Fill(r, th) ==
  /\ sending[r][th].at = "fill"
  /\ LET n == sending[r][th].nadv
         adv == ToSet(SubSeq(Listed(r), 1, IF n < Len(Listed(r)) THEN n ELSE Len(Listed(r))))
     IN  /\ \E x \in IF n > Len(Listed(r)) THEN Full(r) \cup {Garbage} ELSE {None} :
              sending' = [sending EXCEPT ![r][th] = [at |-> "send", adv |-> (adv \cup {x}) \ {None}]]
         /\ crashed' \in IF n < Len(Listed(r)) THEN BOOLEAN ELSE {FALSE}
  /\ UNCHANGED <<state, net, env>>

\* ip_send_packet to each of the vertices to: by way of a route without an
\* interface it is the end.
Fatal(r, to) == \E n \in to : route[r][{r, n}].via = Null

\* A stored number after k more have been used.  Numbers from before the
\* counter has wrapped or been reset are positive: the new ones are below them.
Behind(num, k) == IF num > 0 THEN num
                  ELSE IF num - k < - Window THEN - Window ELSE num - k
Above(num) == IF num > 0 THEN num ELSE num + Window + 1

\* All numbers of originator r (whose LSUs alone are in the network) by operator Op.
RenumberedDb(r, Op(_)) ==
  [q \in Routers |-> [o \in DOMAIN db[q] |->
     IF o = r THEN [db[q][o] EXCEPT !.num = Op(@)] ELSE db[q][o]]]
RenumberedNet(r, Op(_)) == {[m EXCEPT !.num = Op(@)] : m \in net}

\* The third walk sends a copy to each neighbour, each with the next number.
\* The u16 may wrap before copy w.
Send(r, th) ==
  /\ sending[r][th].at = "send"
  /\ sending' = [sending EXCEPT ![r] = Without(@, th)]
  /\ LET to == To(r, DOMAIN nbr[r])
         k == Len(to)
     IN  \E w \in 0 .. k :
           /\ w > 0 => fault = "wrap" /\ ~ spent
           /\ spent' = (spent \/ w > 0)
           /\ LET Shift(num) == IF w > 0 THEN Above(Behind(num, k)) ELSE Behind(num, k)
                  New(i) == IF i < w THEN Above(i - k) ELSE i - k
              IN  IF Fatal(r, ToSet(to))
                  THEN crashed' = TRUE /\ UNCHANGED <<db, net>>
                  ELSE /\ db' = RenumberedDb(r, Shift)
                       /\ net' = RenumberedNet(r, Shift) \cup
                            {[at |-> to[i], from |-> r, org |-> r, num |-> New(i),
                              adv |-> sending[r][th].adv, hops |-> 1] :
                               i \in {i \in 1 .. k : to[i] \in up}}
                       /\ UNCHANGED crashed
  /\ UNCHANGED <<nbr, graph, subnets, route, up, fault, bad, lapsed>>

-----------------------------------------------------------------------------
(* The packet thread.                                                       *)

Listens(r) == r \in up /\ "rx" \notin DOMAIN sending[r]

\* handle_mospf_hello from a neighbour not in the list.  In a period a router
\* hears it until its own LSU is out, or else at the end, to bound the model.
HandleHello(r, n) ==
  /\ Turn(r) /\ (Quiet \/ "lsu" \in DOMAIN sending[r])
  /\ Listens(r) /\ n \in up \cap Peers(r)
  /\ n \notin DOMAIN nbr[r]
  /\ nbr' = [nbr EXCEPT ![r] = With(@, n, 0)]
  /\ sending' = Due(r, "rx")
  /\ UNCHANGED <<db, graph, subnets, route, net, env, crashed>>

\* Mutants: forwarded to the originator too; back to the sender; not at all.
ForwardTo_Originator(r, m) == DOMAIN nbr[r] \ {m.from}
ForwardTo_Back(r, m) == DOMAIN nbr[r] \ {m.org}
ForwardTo_Nobody(r, m) == {}
ForwardTo(r, m) == DOMAIN nbr[r] \ {m.from, m.org}

\* The database of r after LSU m: replaced by a higher number, inserted if there
\* was none.  Only that makes the entry young again.
Updated(d, m) ==
  IF m.org \in DOMAIN d /\ d[m.org].num >= m.num THEN d
  ELSE With(d, m.org, [adv |-> m.adv, num |-> m.num, age |-> 0])

\* handle_mospf_lsu: it is forwarded whether it is new or not, and the ttl of
\* the LSU is never looked at.  (In one step: that deal_rtable may see an entry
\* whose number of links is new and whose links are not is left out.)
HandleLsu(m) ==
  /\ Listens(m.at)
  /\ db' = [db EXCEPT ![m.at] = Updated(@, m)]
  /\ IF Fatal(m.at, ForwardTo(m.at, m))
     THEN crashed' = TRUE /\ UNCHANGED net
     ELSE /\ net' = (net \ {m}) \cup
                      {[m EXCEPT !.at = n, !.from = m.at, !.hops = @ + 1] :
                         n \in ForwardTo(m.at, m) \cap up}
          /\ UNCHANGED crashed
  /\ UNCHANGED <<nbr, graph, subnets, route, sending, env>>

-----------------------------------------------------------------------------
(* The threads with timers.                                                 *)

\* checking_nbr_thread
ExpireNbr(r, n) ==
  /\ Turn(r) /\ n \in Silent(r)
  /\ "nbr" \notin DOMAIN sending[r]
  /\ nbr' = [nbr EXCEPT ![r] = Without(@, n)]
  /\ sending' = Due(r, "nbr")
  /\ UNCHANGED <<db, graph, subnets, route, net, env, crashed>>

\* checking_db_thread compares whole seconds, each second, and a period is 5
\* seconds and the time to send, more or less.  So an entry as old as its timeout
\* in periods may be dropped just before the next LSU, or just not.
\* Mutant: a period too early.
Expired_Early(entry) == entry.age >= DbTimeout - 1
Expired(entry) == entry.age >= DbTimeout

ExpireDb(r, o) ==
  /\ Turn(r) /\ Dawn /\ Expired(db[r][o])
  /\ db' = [db EXCEPT ![r] = Without(@, o)]
  /\ lapsed' = (lapsed \/ (fault = "loss" /\ o \in DOMAIN nbr[r]))
  /\ UNCHANGED <<nbr, graph, subnets, route, sending, net, up, fault, spent, bad, crashed>>

\* deal_rtable, every 4 seconds.  A router number that is none is the end.  In one
\* step: that the lists it walks are changed meanwhile is left out.  And not amid
\* the walks of r, to bound the model: only the last of them reads the table.
Route(r) ==
  /\ Turn(r) /\ Walking(r) = {}
  /\ IF \E o \in DOMAIN db[r] : Garbage \in db[r][o].adv
     THEN crashed' = TRUE /\ UNCHANGED <<graph, subnets, route>>
     ELSE \E g \in {Drawn(r, graph[r], db[r], nbr[r])}, s \in {subnets[r] \cup Learned(db[r])} :
            /\ graph' = [graph EXCEPT ![r] = g]
            /\ subnets' = [subnets EXCEPT ![r] = s]
            /\ route' = [route EXCEPT ![r] = Computed(r, g, s)]
            /\ UNCHANGED crashed
  /\ UNCHANGED <<nbr, db, sending, net, env>>

\* A period of 5 seconds passes: everyone is heard by its neighbours, and
\* the LSU thread of everyone is due.
Tick ==
  /\ Quiet
  /\ \A r \in up : Stale(r) \cup Silent(r) = {} /\ up \cap Peers(r) \subseteq DOMAIN nbr[r]
  /\ nbr' = [r \in Routers |-> [n \in DOMAIN nbr[r] |-> IF n \in up THEN 0 ELSE nbr[r][n] + 1]]
  /\ db' = [r \in Routers |-> [o \in DOMAIN db[r] |-> [db[r][o] EXCEPT !.age = @ + 1]]]
  /\ sending' = [r \in Routers |-> IF r \in up THEN With(Nothing, "lsu", [at |-> "count"]) ELSE Nothing]
  /\ bad' \in IF fault = "loss" /\ bad = None THEN Routers \cup {None} ELSE {None}
  /\ UNCHANGED <<graph, subnets, route, net, up, fault, spent, lapsed, crashed>>

-----------------------------------------------------------------------------
(* What goes wrong.                                                         *)

Lose(m) ==
  /\ m.org = bad
  /\ net' = net \ {m} /\ spent' = TRUE
  /\ UNCHANGED <<state, sending, up, fault, bad, lapsed, crashed>>

\* A daemon stops (both between two floods, to bound the model),
Stop(r) ==
  /\ fault = "restart" /\ ~ spent /\ r \in Victims /\ Quiet
  /\ up' = up \ {r} /\ spent' = TRUE
  /\ nbr' = [nbr EXCEPT ![r] = Nothing]
  /\ db' = [db EXCEPT ![r] = Nothing]
  /\ graph' = [graph EXCEPT ![r] = {}]
  /\ subnets' = [subnets EXCEPT ![r] = {}]
  /\ route' = [route EXCEPT ![r] = Direct(r)]
  /\ sending' = [sending EXCEPT ![r] = Nothing]
  /\ UNCHANGED <<net, fault, bad, lapsed, crashed>>

\* and is started again, with its numbers from 1.
Start(r) ==
  /\ r \notin up /\ Quiet
  /\ up' = up \cup {r}
  /\ db' = RenumberedDb(r, Above)
  /\ sending' = Due(r, "lsu")
  /\ UNCHANGED <<nbr, graph, subnets, route, net, fault, spent, bad, lapsed, crashed>>

-----------------------------------------------------------------------------
Flood == \/ \E r \in Routers : \E th \in DOMAIN sending[r] :
              Count(r, th) \/ Fill(r, th) \/ Send(r, th)
         \/ \E m \in net : HandleLsu(m)
Discover == \E r, n \in Routers : HandleHello(r, n)
Expire == \/ \E r \in Routers : \E n \in DOMAIN nbr[r] : ExpireNbr(r, n)
          \/ \E r \in Routers : \E o \in DOMAIN db[r] : ExpireDb(r, o)
Compute == \E r \in Routers : Route(r)
Fault == (\E m \in net : Lose(m)) \/ \E r \in Routers : Stop(r) \/ Start(r)

Work == Flood \/ Discover \/ Expire \/ Tick
Next == ~ crashed /\ (Work \/ Compute \/ Fault)

\* The threads are scheduled, and what is sent arrives unless it is lost.  Strong
\* fairness of deal_rtable, which wakes up every 4 seconds whatever travels: only
\* Turn makes it wait for the end of a flood.
Fairness == WF_vars(~ crashed /\ Work) /\ SF_vars(~ crashed /\ Compute)

Spec == Init /\ [][Next]_vars /\ Fairness

-----------------------------------------------------------------------------
(* Properties.                                                              *)

TypeOK ==
  /\ up \subseteq Routers
  /\ \A r \in Routers :
       /\ DOMAIN nbr[r] \subseteq Peers(r)
       /\ \A n \in DOMAIN nbr[r] : nbr[r][n] \in 0 .. NbrTimeout + 1
       /\ DOMAIN db[r] \subseteq Routers \ {r}
       /\ \A o \in DOMAIN db[r] : /\ db[r][o].adv \subseteq Full(o) \cup {Garbage}
                                  /\ db[r][o].num \in - Window .. Window + 1
                                  /\ db[r][o].age \in 0 .. DbTimeout + 1
       /\ subnets[r] \subseteq graph[r] /\ graph[r] \subseteq Edges
       /\ DOMAIN Direct(r) \subseteq DOMAIN route[r]
       /\ DOMAIN sending[r] \subseteq {"lsu", "rx", "nbr"}
  /\ \A m \in net : m.at \in Peers(m.from) /\ m.num # - Window
  /\ bad \in Routers \cup {None} /\ {spent, lapsed, crashed} \subseteq BOOLEAN

\* The routers lie on a ring, or on a part of one.
Rings == {f \in Bijection(0 .. Cardinality(Routers) - 1, Routers) :
            \A i \in DOMAIN f : Peers(f[i]) \subseteq
               {f[(i + 1) % Cardinality(Routers)], f[(i - 1) % Cardinality(Routers)]}}

\* Floods end although nothing is remembered of what has been forwarded and no
\* ttl is checked: on the ring of the lab an LSU has passed every other
\* router when it comes back to the originator, where it is not sent.
HopBound == \A m \in net : m.hops < Cardinality(Routers)

\* While no daemon restarts and no counter wraps, but all LSUs of a router may be
\* lost in one period out of two, no daemon crashes unless the entry of a
\* neighbour has expired; and none does as long as no LSU is lost, or if the
\* timeout is three periods.  (With two it may: the next LSU comes just too late.)
StableLives ==
  fault = "loss" => /\ crashed => lapsed
                    /\ lapsed => spent /\ DbTimeout < 3

\* Every LAN is at one router, and there is a way from each vertex to each other.
OneNetwork ==
  /\ \A q, r \in Routers : q # r => OwnLans(q) \cap OwnLans(r) = {}
  /\ \A s \in SUBSET Vertices :
       s # {} /\ (\A e \in Edges : e \cap s # {} => e \subseteq s) => s = Vertices

\* Does a packet at r reach the subnet e by the routing tables?
Reaches(r, e) ==
  LET hop[k \in 0 .. Cardinality(Routers)] ==
        IF k = 0 THEN r
        ELSE LET q == hop[k - 1]
             IN  IF q = None \/ q \in e THEN q
                 ELSE IF e \notin DOMAIN route[q] THEN None ELSE route[q][e].gw
  IN  hop[Cardinality(Routers)] \in e

Informed(r) == /\ DOMAIN nbr[r] = Peers(r)
               /\ DOMAIN db[r] = Routers \ {r}
               /\ \A o \in DOMAIN db[r] : db[r][o].adv = Full(o)

LanEdges == {e \in Edges : e \cap Lans # {}}
Good == \A r \in Routers : Informed(r) /\ \A e \in LanEdges : Reaches(r, e)

\* When every router knows the whole network and has computed its table from
\* that, packets reach both LANs from everywhere: the tables that the
\* routers compute alone fit together.
RoutesDeliver ==
  (up = Routers /\ \A r \in Routers :
     /\ Informed(r)
     /\ route[r] = Computed(r, Drawn(r, graph[r], db[r], nbr[r]),
                            subnets[r] \cup Learned(db[r]))) => Good

\* After a restart, a wrap of a sequence number or a loss, everything is known
\* and routed again, unless a daemon has crashed or stays down.
Converges == []<>(crashed \/ up # Routers \/ Good)
=============================================================================
