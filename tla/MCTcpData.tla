----------------------------- MODULE MCTcpData -----------------------------
(* Instances of TcpData for TLC: windows that are just ample for the whole  *)
(* exchange (two rounds, of which a read may take more than it asked for;   *)
(* one message of two segments), and a window that the client runs out of.  *)
EXTENDS TcpData
TwoRounds == [writes |-> 2, len |-> 2, banner |-> 0, readMax |-> 3, window |-> 6]
TwoSegments == [writes |-> 1, len |-> 3, banner |-> 1, readMax |-> 2, window |-> 8]
Scarce == [writes |-> 1, len |-> 3, banner |-> 0, readMax |-> 2, window |-> 3]
AllLoads == {TwoRounds, TwoSegments, Scarce}
ScarceOnly == {Scarce}
=============================================================================
