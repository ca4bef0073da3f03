------------------------------ MODULE MCMospf ------------------------------
(* The network of mospf_topo.py: a ring of four routers, a LAN at r1 (vertex *)
(* 0) and one at r4 (vertex 5), with the interfaces in their order.          *)
EXTENDS Mospf, TLC
IfacesDef == 1 :> <<0, 2, 3>> @@ 2 :> <<1, 4>> @@ 3 :> <<1, 4>> @@ 4 :> <<2, 3, 5>>
ASSUME LabIsARing == Rings # {}
ASSUME LabIsOneNetwork == OneNetwork
=============================================================================
