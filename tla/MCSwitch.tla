----------------------------- MODULE MCSwitch -----------------------------
(* Instance of Switch for TLC: three hosts on three ports as in the lab's   *)
(* topology, two of them in one bucket; one may move.                       *)
EXTENDS Switch, TLC
CONSTANTS h1, h2, h3
PlaceDef == h1 :> 1 @@ h2 :> 2 @@ h3 :> 3
HashDef == h1 :> "x" @@ h2 :> "x" @@ h3 :> "y"
=============================================================================
