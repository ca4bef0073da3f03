------------------------------ MODULE MCNat ------------------------------
(* Instance of Nat for TLC: three flows and two external ports in three     *)
(* buckets.  Flows f and h share their bucket with port 2, so a mapping of  *)
(* theirs to 2 has both copies in one chain; g shares none with its ports.  *)
(* The memory malloc returns is such that the first copy is reclaimed by a  *)
(* RST after a FIN, and the second by a RST alone; one that has not seen    *)
(* its FIN behaves as a copy in zeroed memory, which a RST never reclaims.  *)
EXTENDS Nat, TLC
CONSTANTS f, g, h, x, y, z
FlowHashDef == f :> x @@ g :> z @@ h :> x
PortHashDef == 1 :> y @@ 2 :> x
PortsDef == <<1, 2>>
GarbageDef == {<< <<0, 1>>, <<1, 1>> >>}
=============================================================================
