----------------------------- MODULE MCTcpConn -----------------------------
(* Instances of TcpConn for TLC: the friendly environment and each of its   *)
(* four liberties alone, with and without the two closes racing.            *)
EXTENDS TcpConn
AllEnvs == [timely : BOOLEAN, serverFirst : BOOLEAN, foreign : BOOLEAN,
            spurious : BOOLEAN, dups : {0, 1}]
Liberties(e) == (IF e.serverFirst THEN 0 ELSE 1) + (IF e.foreign THEN 1 ELSE 0)
                + (IF e.spurious THEN 1 ELSE 0) + e.dups
FriendlyEnvs == {e \in AllEnvs : Liberties(e) = 0}
OneLiberty == {e \in AllEnvs : Liberties(e) <= 1}
=============================================================================
