---------------------------- MODULE MCArpCache ----------------------------
(* Instance of ArpCache for TLC: two neighbours and two slots, a packet     *)
(* that comes in and one of our own.  The first cannot be resolved, or is   *)
(* for us, or has no route, to it or back; the second goes to a neighbour   *)
(* or has no route.  Either may become an answer to a neighbour, or an      *)
(* error to ourselves.                                                      *)
EXTENDS ArpCache
CONSTANTS a, b, d, me, p1, p2
From(s, t) == [src |-> s, dst |-> t]
TrafficDef == {p1 :> From(a, d) @@ p2 :> From(me, b),
               p1 :> From(a, me) @@ p2 :> From(me, b),
               p1 :> From(a, Nowhere) @@ p2 :> From(me, b),
               p1 :> From(Nowhere, d) @@ p2 :> From(me, b),
               p1 :> From(Nowhere, me) @@ p2 :> From(me, Nowhere)}
=============================================================================
